SPECIFICATION Spec
CONSTANTS
  Packets <- MCOnePacket
  Slip6 = TRUE
  Mtus = {1}
  InitMtu = 2
  MinMtu = 1
  Slack = 4
  Room = 2
  WakeWhenEmpty = FALSE
  Serialised = FALSE
  MaxFrames = 2
  MaxTimeouts = 1
  MaxOpens = 2
  MaxMtuChanges = 1
  MaxHangups = 1
INVARIANTS
  XbuffFits
  WireInOrder
  OverrunOnlyByRace
  OnlyLateWork
  WholeUnlessCut
  Counted
PROPERTIES StepsOfFrameLine

CHECK_DEADLOCK FALSE
