SPECIFICATION ProbeSpec
CONSTANTS
  Procs = {p1, p2}
  MaxPrints = 1
  SlotAware = FALSE
  OutDepth = 2
  InDepth = 1
  MaxRetries = 2
  AbandonCap = 1
  ClientCalls <- ExchangeCalls
  NoSlot = NoSlot
  NoReq = NoReq
  NoProc = NoProc
  NoCall = NoCall
  NoRes = NoRes
INVARIANTS ProbeTypeOK InSync
PROPERTIES ReplyAnswersCall ProbeHearsNothing
SYMMETRY ProcSymmetry
