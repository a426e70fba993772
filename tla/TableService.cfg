CONSTANTS
  Value = {empty, v}
  Empty = empty
  Absent = absent
  Id <- MCId
  KeyMod = 2
  MaxLog = 4
SPECIFICATION Spec
CHECK_DEADLOCK FALSE
INVARIANTS
  TypeOK
  LogReflectsTable
PROPERTIES
  ChangesAreLogged
  AnswersAgreeWithLog
  FirstAnswerTells
