SPECIFICATION Spec
CONSTANTS
  Person = {student, teacher}
  NoOne = NoOne
  Worker = {w1, w2}
  PageSize = 1
  MaxMessages = 3
  Site <- MCSite
CHECK_DEADLOCK FALSE
SYMMETRY MCSymmetry
INVARIANTS TypeOK ShownOnce HistoryIsComplete BadgeHidesNothing ShownIsRead
PROPERTIES WatermarkNeverBack ArrivesUnread
