CONSTANTS
  Letter <- MCLetter
  Streams <- MCStreams
  SizeMod = 32
  ShortMod = 16
  HeaderHash <- MCHeaderHash
  AtoiTable <- MCAtoiTable
  HexTable <- MCHexTable
SPECIFICATION Spec
CHECK_DEADLOCK FALSE
INVARIANTS
  TypeOK
  ChunkNeverUnderflows
  NoUnderflowBeforeCompletion
  BodyOnlyForBodyMethods
  BodyAsAnnounced
PROPERTY RequestLineFrozen
