SPECIFICATION LoopSpec
CONSTANTS
  Second = 2
  Interval = 1
  RetryCount = 1
  RetryInterval = 2
  MaxTime = 4
  Interfaces = {eth0, lo}
  Watched = {eth0}
  Modulus = 16
  MaxBytes = 2
CHECK_DEADLOCK FALSE
INVARIANTS
  RetriedSamplesStay
  LoopTypeOK
  SpeedsAddUp
