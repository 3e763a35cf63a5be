CONSTANTS
  f1 = f1
  f2 = f2
  main = main
  other = other
  Frames = {f1, f2}
  Closers = {main, other}
  Main = main
  FrameCap = 1
  MayStick = FALSE
  MaxFrames = 3
SPECIFICATION Spec
INVARIANTS NoPanic InOrder EndsWithTheCause
PROPERTIES CloseIsBarrier CloseCompletes
CHECK_DEADLOCK FALSE
