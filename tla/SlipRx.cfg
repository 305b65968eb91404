SPECIFICATION Spec
CONSTANTS
  Packets <- MCPackets
  Encodings = {FALSE, TRUE}
  NoiseBytes <- MCNoise
  BufSizes = {3, 5}
  Slack = 1
  MaxSent = 2
  MaxOnLine = 2
  Troubles = {"noise", "resize", "close", "mode"}
  MaxTroubles = 1
INVARIANTS
  TypeOK
  UntouchedDelivered
  StaysInside
