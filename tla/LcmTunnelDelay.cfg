CONSTANTS
  Sizes = {1, 3}
  Payload = 2
  SendAtOnce = 4
  MaxSendBuffer = 5
  SeqnoWrapVal = 30000
  SeqnoWrapGap = 5000
  Modes <- TwoModes
  FirstSeqno = 29998
  MaxMessages = 3
  MaxInFlight = 4
SPECIFICATION Spec
PROPERTIES HeldForATime
CHECK_DEADLOCK FALSE
