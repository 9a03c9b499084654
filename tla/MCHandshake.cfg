SPECIFICATION Spec
CONSTANTS
  Attempt = {s1}
  NoAttempt = NoAttempt
  Worker = {w1, w2}
  Caller = {c1, c2}
  MaxAge = 3
  MarkTTL = 9
  Offsets <- Offset
  Lag = 1
  Horizon = 12
SYMMETRY Symmetry
CHECK_DEADLOCK FALSE
INVARIANTS
  TypeOK
PROPERTIES
  AgreesOnKey
