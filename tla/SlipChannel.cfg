SPECIFICATION FairSpec
CONSTANTS
  Ttys = {t1, t2, t3}
  MaxDev = 2
  MaxDevices = 3
  Failures <- MCAllFailures
  None = None
INVARIANTS
  SlotHeld LinkBothWays
PROPERTIES SlotComesBack
