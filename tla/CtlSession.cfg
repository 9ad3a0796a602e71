SPECIFICATION CtlSpec
CONSTANTS
  Procs = {p1, p2}
  MaxPrints = 2
  SlotAware = FALSE
  OutDepth = 2
  InDepth = 1
  MaxRetries = 2
  AbandonCap = 2
  ClientCalls <- CliCalls
  Pid = 3072
  Subcommands = {"identify"}
  NoSlot = NoSlot
  NoReq = NoReq
  NoProc = NoProc
  NoCall = NoCall
  NoRes = NoRes
INVARIANTS MatchedRecord AbortRecovers 
