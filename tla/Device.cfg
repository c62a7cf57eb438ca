CONSTANTS
  Readers = {r1, r2}
  FlowPorts = 2
  MaxRound = 2
  MaxReads = 1
  Width = 8
  MaxHalves = 40
  Octet = 1
  PNUM = 4
  GNUM = 2
  XPORT = 0
  MaxItems = 2
  Cells = {0, 1, 5}
  MaxCells = 4
  MaxRows = 2
  Hex = 4
  Octets = 2
  Callers = {p1, p2}
  Values = {1, 2}
  Scanners = {s1}
  TrunkPorts = {a, b}
  TNUM = 3
  Listers = {q1, q2}
  Macs = {1, 2, 3}
  Inner = {2}
  MaxFiles = 3
  MaxLearn = 1
SPECIFICATION Spec
INVARIANTS
  TornOnlyByRace
  ElapsedIsReal
  SubnetsAgree
  SamePorts
  VlanListsAgree
  RowsKept
  ReportedIsHeld
  TrunkGroupOfPort
  ListedWasThere
PROPERTY
  ReaderReturns
CHECK_DEADLOCK FALSE
