SPECIFICATION FairSpec
CONSTANTS
  sn0 = sn0
  sn1 = sn1
  vlc0 = vlc0
  Devs <- MCVlcDevs
  Twin <- MCVlcTwin
  NapiModes = {FALSE}
  PoolSize = 2
  Lockup = 2
  MaxSent = 5
  MaxDrops = 1
  MaxTimeouts = 5
  MaxOpens = 0
CHECK_DEADLOCK TRUE
INVARIANTS
  InOrder
  FreedOnce
  NoneStranded
PROPERTIES
  QueueReopens
