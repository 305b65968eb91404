SPECIFICATION FairSpec
CONSTANTS
  Packets <- MCThreePackets
  Slip6 = FALSE
  Mtus = {1, 3}
  InitMtu = 2
  MinMtu = 1
  Slack = 4
  Room = 2
  WakeWhenEmpty = TRUE
  Serialised = TRUE
  MaxFrames = 3
  MaxTimeouts = 0
  MaxOpens = 1
  MaxMtuChanges = 1
  MaxHangups = 1
INVARIANTS
  TypeOK
PROPERTIES QueueReopens HangupCompletes ImplementsFrameLine
