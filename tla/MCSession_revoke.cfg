SPECIFICATION Spec
CONSTANTS
  Initiator = Initiator
  Responder = Responder
  Thread = {t1, t2}
  Ordered = TRUE
  Window = 1
  MaxMessages = 5
  DamagedSeq <- FirstSeqs
SYMMETRY ThreadSymmetry
CHECK_DEADLOCK FALSE
INVARIANTS
  SealedUnderDerivedKey
