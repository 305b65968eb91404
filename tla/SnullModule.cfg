SPECIFICATION ModFairSpec
CONSTANTS
  sn0 = sn0
  sn1 = sn1
  vlc0 = vlc0
  Devs <- MCDevs
  Twin <- MCTwin
  Drivers <- MCDrivers
  ChecksNull = {sn0, sn1}
  NapiModes = {FALSE}
  PoolSize = 2
  Lockup = 2
  MaxSent = 2
  MaxDrops = 0
  MaxTimeouts = 1
  MaxOpens = 2
INVARIANTS
  NoUseAfterFree AllPacketsFreed
PROPERTIES
  UnloadCompletes
