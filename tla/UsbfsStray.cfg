CONSTANTS
  u1 = u1
  u2 = u2
  Users = {u1, u2}
  MaxMeddling = 0
  MaxFaults = 0
SPECIFICATION Spec
INVARIANTS LossIsReported
CHECK_DEADLOCK FALSE
