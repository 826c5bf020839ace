SPECIFICATION Spec
CONSTANTS
  r1 = r1
  r2 = r2
  s1 = s1
  s2 = s2
  Nobody = Nobody
  Request = {r1, r2}
  Student = {s1}
  MaxBookings = 2
  MaxTime = 4
  DayLength = 10
  Buffer = 2
  InstantTutoring = TRUE
  Start = {3, 4}
  Windows <- MCWindows
  Serial = FALSE
CHECK_DEADLOCK FALSE
PROPERTY ConfirmingKeepsTheAsk
