CONSTANTS
  HardwareMin = 1
  HardwareMax = 3
  Default = 2
  WireMax = 4
  Top <- MCTop
  Args <- MCArgs
  Windows <- MCWindows
  MaxCommands = 2
SPECIFICATION Spec
INVARIANTS NothingDenied ShownIsHeld
PROPERTIES RailGuarded WideningAgreed
CHECK_DEADLOCK FALSE
