SPECIFICATION Spec
CONSTANTS
  r1 = r1
  r2 = r2
  s1 = s1
  s2 = s2
  Nobody = Nobody
  Request = {r1}
  Student = {s1, s2}
  MaxBookings = 2
  MaxTime = 5
  DayLength = 10
  Buffer = 2
  InstantTutoring = TRUE
  Start = {3, 4}
  Windows <- MCWindows
  Serial = TRUE
CHECK_DEADLOCK FALSE
PROPERTY AskedWhenConfirmed
