SPECIFICATION Spec
CONSTANTS
  QSIZE = 2
  Wrap = 4
  Kinds = {"stream", "driver"}
  MaxCalls = 2
  Fail = 1
  MaxSock = 2
  PoolTop = 6
  RpcCookie = 4
  MaxShms = 1
INVARIANTS
  TypeOK
  ResultTellsExecution
  GuestSurvives
PROPERTIES
  TxImplementsFifo
  CallReturns
CHECK_DEADLOCK FALSE
