SPECIFICATION Spec
CONSTANTS
  src = src
  dst = dst
  m1 = m1
  m2 = m2
  m3 = m3
  None = None
  Conn <- Connections
  Msg <- ThreeMessages
  Rows <- ThreeRows
  Size <- Sizes
  Tiny <- Short
  Secure <- Secured
  Fleeting <- LastRow
  BodyCap = 1
  Baseline = FALSE
  Literals <- Either
  LateBuffer = FALSE
  Faults <- AnyFault
  MaxFault = 1
  FetchWindow = 2
  AppendWindow = 2
  MayGiveUp = FALSE
INVARIANTS
  CopiesAreExact
  AckedIsStored
  NeverSendsOnClosed
  CodingAgrees
  NeverStuck
CHECK_DEADLOCK FALSE
