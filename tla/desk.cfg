SPECIFICATION Spec
CONSTANTS
  r1 = r1
  r2 = r2
  Request = {r1, r2}
  DayLength = 8
  WeekLength = 2
  Buffer = 2
  MaxRow = 3
  MaxDay = 3
  Viewer <- MCViewer
  Site <- MCSite
CHECK_DEADLOCK FALSE
SYMMETRY MCSymmetry
INVARIANTS TypeOK WeekIsTheOffer ReviewsStandUp
