SPECIFICATION Spec
CONSTANTS
  Packets <- MCOnePacket
  Encodings = {FALSE}
  NoiseBytes <- MCNoise
  BufSizes = {3, 5}
  Slack = 4
  MaxSent = 2
  MaxOnLine = 2
  Troubles = {"resize"}
  MaxTroubles = 1
INVARIANTS
  DeliveredIsSent
