SPECIFICATION Spec
CONSTANTS
  Receiver = {r1, r2}
  Nonce = {n1}
  NoNonce = NoNonce
  Async = FALSE
  Window = 4
  Skew = 3
  AheadBy = {0, 1}
  Lag = 1
  Horizon = 9
SYMMETRY Symmetry
CHECK_DEADLOCK FALSE
INVARIANTS TypeOK NoDoubleOpen NoBurnByDamage
