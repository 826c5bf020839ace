SPECIFICATION Spec
CONSTANTS
  l1 = l1
  l2 = l2
  Lesson = {l1, l2}
  LessonHour <- MCLessonHour
  Worker = {w1, w2}
  Retries = 3
  HoursPerDay = 4
  DigestHour = 3
  MaxDay = 3
  Site <- MCSite
CHECK_DEADLOCK FALSE
INVARIANTS TypeOK MailedOnce EveningIsSettled
PROPERTY MailGoesOut
