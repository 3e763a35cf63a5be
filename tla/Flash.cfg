CONSTANTS
  mine = mine
  other = other
  Units = {mine, other}
  Mine = mine
  ImageMajor = 5
  MaxMoves = 1
SPECIFICATION Spec
INVARIANTS ReplayLandsOnTheFlashed AdviceIsEarned StrandedIsTold LossIsReported
CHECK_DEADLOCK FALSE
