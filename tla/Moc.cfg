SPECIFICATION Spec
CONSTANTS
  MaxPrints = 2
  SlotAware = FALSE
  OutDepth = 2
  InDepth = 1
  EnrollTimes = 2
  MaxAbandoned = 1
  Requested <- AllOps
  NoSlot = NoSlot
  NoReq = NoReq
  NoReply = NoReply
  NoOp = NoOp
INVARIANTS MocTypeOK OneMachine CountNeverWraps  DeleteTruthful VerifyTruthful
PROPERTY ImplementsStore
