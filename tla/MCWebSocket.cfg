SPECIFICATION Spec
CONSTANTS
  Initiator = Initiator
  Responder = Responder
  Sid = {s1, s2}
  NoSid = NoSid
  MaxMessages = 2
  MaxDrops = 1
  MaxWire = 1
SYMMETRY Symmetry
CHECK_DEADLOCK FALSE
INVARIANTS
  TypeOK
  ServedIsShared
  SeamlessUntilLoss
PROPERTIES
  ImplementsChannels
  ClosedIsSilent
  CloseIsHeard
