SPECIFICATION CtlLiveSpec
CONSTANTS
  Procs = {p1}
  MaxPrints = 2
  SlotAware = TRUE
  OutDepth = 1
  InDepth = 1
  MaxRetries = 3
  AbandonCap = 1
  ClientCalls <- CliCalls
  Pid = 3166
  Subcommands = {"info", "dump", "collision", "identify"}
  NoSlot = NoSlot
  NoReq = NoReq
  NoProc = NoProc
  NoCall = NoCall
  NoRes = NoRes
INVARIANTS CtlTypeOK MatchedRecord InfoTruthful
PROPERTIES NeverWrites Spec NearsEnd CallReturns CommandEnds
