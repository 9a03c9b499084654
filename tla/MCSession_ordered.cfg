SPECIFICATION FairSpec
CONSTANTS
  Initiator = Initiator
  Responder = Responder
  Thread = {t1, t2}
  Ordered = TRUE
  Window = 1
  MaxMessages = 3
  DamagedSeq <- FirstSeqs
CHECK_DEADLOCK FALSE
INVARIANTS
  TypeOK
  SeqUsedOnce
  WithinCap
  CountsDelivered
PROPERTIES
  ClosedForGood
  ImplementsFifoChannel
  SealedGetsThrough
