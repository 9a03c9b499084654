SPECIFICATION Spec
CONSTANTS
  Initiator = Initiator
  Responder = Responder
  Sid = {s1}
  NoSid = NoSid
  MaxMessages = 4
  MaxDrops = 1
  MaxWire = 2
CHECK_DEADLOCK FALSE
PROPERTIES
  ResumeSynchronizes
