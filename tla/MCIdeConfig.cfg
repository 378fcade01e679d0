SPECIFICATION Spec
CONSTANTS
  p1 = p1
  p2 = p2
  built = built
  download = download
  home = home
  cursor = cursor
  Procs <- MCProcs
  Components <- MCComponents
  Verified <- MCVerified
  Homes <- MCHomes
  Must <- MCMust
  Ides <- MCIdes
  MaxRelease = 2
  MaxCommands = 2
  MaxLines = 5
  MaxEdits = 1
PROPERTIES
  SyncOkInstalls
  SyncKeepsTools
  
  
SYMMETRY ProcSymmetry
CHECK_DEADLOCK FALSE
