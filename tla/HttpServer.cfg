CONSTANTS
  Conn = {c1, c2, c3}
SPECIFICATION FairSpec
CHECK_DEADLOCK FALSE
INVARIANTS
  TypeOK
  NoUseAfterFree
  RequestLivesWithSocket
  HandlingIsRunning
  DeleteOnlyAbandoned
PROPERTIES
  NeverDropsClient
  KeepsSessions
  Reclaimed
