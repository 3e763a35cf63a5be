CONSTANTS
  u1 = u1
  u2 = u2
  Users = {u1, u2}
  MaxMeddling = 2
  MaxFaults = 2
SYMMETRY Symmetry
SPECIFICATION Spec
INVARIANTS DriverBackOrReported OneMishapCostsNothing
CHECK_DEADLOCK FALSE
