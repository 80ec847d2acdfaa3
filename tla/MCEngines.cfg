\* Risk score, assessment, measurements, migration plan and snapshot difference in turn.
CONSTANT None = None
SPECIFICATION Spec
CHECK_DEADLOCK FALSE
INVARIANTS
  TypeOK
  AnswersStayAllowed
  WorseNeverBetter
  StalePlanSameWork
  DiffIsSound
PROPERTIES
  GraverNeverLower
