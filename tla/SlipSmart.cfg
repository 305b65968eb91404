SPECIFICATION SmartFairSpec
CONSTANTS
  Packets <- MCOnePacket
  Slip6 = FALSE
  Mtus = {2}
  InitMtu = 2
  MinMtu = 1
  Slack = 4
  Room = 2
  WakeWhenEmpty = FALSE
  Serialised = TRUE
  MaxFrames = 1
  MaxTimeouts = 0
  MaxOpens = 1
  MaxMtuChanges = 0
  MaxHangups = 1
  MaxIoctls = 1
INVARIANTS NoTimerAfterFree CheckingGoesOn OutfillBetweenFrames
PROPERTIES HangupJustified SilenceEndsChannel
