SPECIFICATION Spec
CONSTANTS
  p1 = p1
  p2 = p2
  plain = plain
  late = late
  Procs <- MCProcs
  Objects <- MCObjects
  Late <- MCLate
  LastTree = 2
  CfeTrees = {2}
  Cf <- MCCf
  Cfe <- MCCfe
  Bad = {3}
  MaxVersion = 4
  MaxCommands = 3
PROPERTIES
  BuildOkInSync
  ImportOkRoundTrip
  MetadataOkDone
  CheckOkClean
SYMMETRY ProcSymmetry
CHECK_DEADLOCK FALSE
