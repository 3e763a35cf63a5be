CONSTANTS
  c1 = c1
  c2 = c2
  a = a
  b = b
  owner = owner
  Callers = {c1, c2}
  Cmds = {a, b}
  Kinds = {"read", "write", "jump"}
  Owner = owner
  MaxReq = 2
  Msgs = 2
  FrameCap = 1
  MayStick = TRUE
  RootContext = FALSE
  SettleCovers = FALSE
SPECIFICATION Spec
INVARIANTS LandedNeverDenied
SYMMETRY Symmetry
CHECK_DEADLOCK FALSE
