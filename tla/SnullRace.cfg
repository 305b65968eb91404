SPECIFICATION Spec
CONSTANTS
  sn0 = sn0
  sn1 = sn1
  vlc0 = vlc0
  Devs <- MCSnullDevs
  Twin <- MCSnullTwin
  NapiModes = {FALSE, TRUE}
  PoolSize = 2
  Lockup = 0
  MaxSent = 3
  MaxDrops = 0
  MaxTimeouts = 1
  MaxOpens = 1
CHECK_DEADLOCK FALSE
INVARIANTS
  TypeOK
  Conserved
  DeliveredOnce
  FlowControl
SYMMETRY MCSnullSymmetry
