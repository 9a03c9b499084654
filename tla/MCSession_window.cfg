SPECIFICATION Spec
CONSTANTS
  Initiator = Initiator
  Responder = Responder
  Thread = {t1}
  Ordered = FALSE
  Window = 2
  MaxMessages = 6
  DamagedSeq <- NearAndFar
CHECK_DEADLOCK FALSE
INVARIANTS
  WithinCap
  CountsDelivered
  NoReplayBeforeRollback
  WindowJustified
  WindowBounded
