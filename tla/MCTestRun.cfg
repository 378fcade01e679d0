SPECIFICATION Spec
CONSTANTS
  Null = Null
  Clis = {cli1, cli2}
  Runs = {r1, r2}
  Ibs = {main}
  Declared = {}
  MaxVersion = 2
INVARIANTS TypeOK ResultIsOwn ClientIsKnown
PROPERTIES TeardownSparesLive ReportIsKept RunnerIsFresh SafeModeIsOff
SYMMETRY MCSymmetry
CHECK_DEADLOCK FALSE
