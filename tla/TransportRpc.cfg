SPECIFICATION Spec
CONSTANTS
  QSIZE = 2
  Wrap = 4
  Kinds = {"driver"}
  MaxCalls = 2
  Fail = 0
  MaxSock = 2
  PoolTop = 6
  RpcCookie = 4
  MaxShms = 1
INVARIANT NextCallIsServed
CHECK_DEADLOCK FALSE
