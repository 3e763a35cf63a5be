CONSTANTS
  c1 = c1
  c2 = c2
  a = a
  owner = owner
  Callers = {c1, c2}
  Cmds = {a}
  Kinds = {"write", "jump"}
  Owner = owner
  MaxReq = 2
  Msgs = 1
  FrameCap = 1
  MayStick = FALSE
  RootContext = TRUE
  SettleCovers = TRUE
SPECIFICATION Spec
INVARIANTS AnswerIsMine
PROPERTIES ContractSpec CallsReturn CloseEndsCalls
CHECK_DEADLOCK FALSE
