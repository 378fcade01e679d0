SPECIFICATION Spec
CONSTANTS
  Null = Null
  Clis = {cli1, cli2}
  Procs = {p1, p2}
  MayCrash = TRUE
INVARIANTS ClientKnown
PROPERTIES StartIsTrue StopStopsAll
SYMMETRY MCSymmetry
CHECK_DEADLOCK FALSE
