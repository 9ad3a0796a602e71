SPECIFICATION Spec
CONSTANTS
  PayloadBytes = {0, 4, 9, 17, 25, 33, 153, 255}
  MaxPayload = 4
INVARIANTS FrameLayout Unambiguous PayloadKept BcdInjective
           UserIdInBounds SlotByteDistinct HidInRange ReportInPieces
CHECK_DEADLOCK FALSE
