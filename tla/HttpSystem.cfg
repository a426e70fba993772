CONSTANTS
  Letter <- MCLetter
  Streams <- MCStreams
  SizeMod = 8
  ShortMod = 8
  HeaderHash <- MCHeaderHash
  AtoiTable <- MCAtoiTable
  HexTable <- MCHexTable
  Registrations <- MCRegistrations
  Dialogues <- MCDialogues
  Value = {empty, v}
  Empty = empty
  Absent = absent
  Id <- MCId
  KeyMod = 2
  MaxLog = 40
  OtherDocuments <- MCOtherDocuments
  MaxOthers = 1
  JsonTable <- MCJsonTable
SPECIFICATION FairSpec
CHECK_DEADLOCK FALSE
INVARIANTS
  AppliedOnce
PROPERTIES
  RepeatsChangeNothing
  IsAtomicStore
  TakesEffect
