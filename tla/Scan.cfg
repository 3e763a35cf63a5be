CONSTANTS
  unit1 = unit1
  unit2 = unit2
  Nobody = Nobody
  Units = {unit1, unit2}
  MaxPDOs = 4
  Chunks = 2
  ChunkAttempts = 2
  SerialAttempts = 2
  Sources <- MCSources
  Volts <- MCVolts
  Currents <- MCCurrents
  MaxMoves = 3
SPECIFICATION Spec
SYMMETRY Symmetry
INVARIANTS ReportedIsFresh WatchedTheTrip ErasureTold NeverOverReports NothingReachableMissed
CHECK_DEADLOCK FALSE
