CONSTANTS
  Letter <- MCLetter
  Streams <- MCStreams
  SizeMod = 8
  ShortMod = 8
  HeaderHash <- MCHeaderHash
  AtoiTable <- MCAtoiTable
  HexTable <- MCHexTable
  Registrations <- MCRegistrations
  Dialogues <- MCDialogues
SPECIFICATION Spec
CHECK_DEADLOCK FALSE
INVARIANT NotFoundReported
