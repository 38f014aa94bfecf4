CONSTANTS
  Threads = {t1, t2, t3}
  Main = t1
  LastCap = 3
  LastName = 4
  SETPCAP = 1
  SYS_ADMIN = 2
  Requests <- MCRequests
  None = None
  ALL = ALL
  Policies <- MCPolicies
  Actions = {"kill", "trap", "allow"}
  Calls <- MCCalls
  MaxInsns = 32
SPECIFICATION ChildSpec
INVARIANTS
  PayloadConfined
  CallsDecided
  NeverRefused
