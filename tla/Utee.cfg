SPECIFICATION Spec
CONSTANTS
  SESSION_SLOTS = 2
  MaxSession = 4
  CancelWrap = 4
  ENUM_SLOTS = 2
  Objects = {o1, o2, o3}
  MaxList = 2
  PerSecond = 3
  MaxSecond = 2
  MaxClock = 7
  HEAP_CAP = 24
  HDR = 2
  Sizes = {0, 1, 3}
  Fills = {1, 2}
  Bits = 2
  Tmp = 4
  Octet = 1
  Numbers <- MCNumbers
  Moduli = {1, 5, 12, 61, 251}
  DestCaps = {2, 4, 9}
INVARIANTS
  TypeOK
  SessionTableExact
  EnumeratesSnapshot
  EnumeratedPropertyReadable
  PersistentTimeExact
  HeapKeepsContents
  ArithIsExact
CHECK_DEADLOCK FALSE
