SPECIFICATION Spec
CONSTANTS
  b1 = b1
  b2 = b2
  w1 = w1
  w2 = w2
  h1 = h1
  NoBooking = NoBooking
  Booking = {b1}
  Sweeper = {w1, w2}
  Handler = {h1}
  Standing = {}
  Start = {3}
  HourAhead = 1
  DayLow = 2
  DayMid = 3
  DayHigh = 3
  MaxTime = 3
  MaxCrashes = 0
CHECK_DEADLOCK FALSE
SYMMETRY MCSymmetry
INVARIANTS TypeOK DuplicateOnlyAfterOverwrite DueRemindersGoOut
