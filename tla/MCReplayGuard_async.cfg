SPECIFICATION Spec
CONSTANTS
  Receiver = {r1, r2}
  Nonce = {n1}
  NoNonce = NoNonce
  Async = TRUE
  Window = 3
  Skew = 2
  AheadBy = {0, 2}
  Lag = 1
  Horizon = 9
SYMMETRY Symmetry
CHECK_DEADLOCK FALSE
INVARIANTS NoEarlyReopen
