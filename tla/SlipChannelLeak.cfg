SPECIFICATION Spec
CONSTANTS
  Ttys = {t1}
  MaxDev = 2
  MaxDevices = 2
  Failures = {"bufs"}
  None = None
INVARIANTS
  FailedOpenLeavesNothing
