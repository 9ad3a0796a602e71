SPECIFICATION Spec
CONSTANTS
  Procs = {p1, p2}
  MaxPrints = 2
  SlotAware = FALSE
  OutDepth = 2
  InDepth = 1
  MaxRetries = 2
  AbandonCap = 1
  ClientCalls <- WriterCalls
  NoSlot = NoSlot
  NoReq = NoReq
  NoProc = NoProc
  NoCall = NoCall
  NoRes = NoRes
INVARIANTS InSync NoUnauthorisedRequest
PROPERTIES AuthorisedWrites ImplementsStore
SYMMETRY ProcSymmetry
