SPECIFICATION Spec
CONSTANTS
  b1 = b1
  b2 = b2
  w1 = w1
  w2 = w2
  h1 = h1
  NoBooking = NoBooking
  Booking = {b1, b2}
  Sweeper = {w1, w2}
  Handler = {}
  Standing = {b1, b2}
  Start = {3, 4}
  HourAhead = 1
  DayLow = 2
  DayMid = 3
  DayHigh = 3
  MaxTime = 4
  MaxCrashes = 2
CHECK_DEADLOCK FALSE
SYMMETRY MCSymmetry
INVARIANT DueRemindersGoOut
