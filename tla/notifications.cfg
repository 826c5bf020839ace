SPECIFICATION Spec
CONSTANTS
  t1 = t1
  t2 = t2
  b1 = b1
  b2 = b2
  Booking = {b1, b2}
  NoBooking = NoBooking
  Tab = {t1, t2}
  NoTab = NoTab
  Worker = {w1, w2}
  Cap = 2
  MaxNotes = 3
  Site <- MCSite
CHECK_DEADLOCK FALSE
SYMMETRY MCSymmetry
INVARIANTS TypeOK ListHasNoTwins DimmedIsRead AnsweredIsRead CountsAreCurrent
