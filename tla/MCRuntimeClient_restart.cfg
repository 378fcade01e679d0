SPECIFICATION Spec
CONSTANTS
  Null = Null
  Clis = {cli1}
  Procs = {p1, p2}
  MayCrash = FALSE
PROPERTY StartIsIdempotent
CHECK_DEADLOCK FALSE
