CONSTANTS
  Letter <- MCLetter
  Streams <- MCStreams
  SizeMod = 8
  ShortMod = 8
  HeaderHash <- MCHeaderHash
  AtoiTable <- MCAtoiTable
  HexTable <- MCHexTable
  Registrations <- MCRegistrations
  Dialogues <- MCDialogues
SPECIFICATION FairSpec
CHECK_DEADLOCK FALSE
INVARIANTS
  TypeOK
  FirstRequestExact
  EarlyCallsArePrefixes
  LaterCallsRepeatFirst
PROPERTIES
  CallsOnlyGrow
  FirstRequestServed
