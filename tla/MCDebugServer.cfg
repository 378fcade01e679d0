SPECIFICATION ServerSpec
CONSTANTS
  NoPid = NoPid
  Foreign = Foreign
  Clis = {cli1, cli2}
  Pids = {p1, p2, p3}
INVARIANTS NoOrphan
PROPERTIES ForeignIsForeign 
CHECK_DEADLOCK FALSE
