SPECIFICATION Spec
CONSTANTS
  MaxPrints = 2
  SlotAware = FALSE
  OutDepth = 2
  InDepth = 1
  EnrollTimes = 2
  MaxAbandoned = 1
  Requested <- EnrollOps
  NoSlot = NoSlot
  NoReq = NoReq
  NoReply = NoReply
  NoOp = NoOp
INVARIANT NeverAsksCollision
