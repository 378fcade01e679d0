SPECIFICATION Spec
CONSTANTS
  p1 = p1
  p2 = p2
  home = home
  home2 = home2
  s1 = s1
  s2 = s2
  None = None
  Home = home
  Runtimes <- MCRuntimes
  Longer <- MCLonger
  Ports = {8314, 8315}
  DefaultPort <- MCDefaultPort
  Procs <- MCProcs
  Pids <- MCPids
  MaxCommands = 3
  MaxEdits = 2
INVARIANTS
  NoOrphans
PROPERTIES
  OkUpPublishes
  OkDownUnpublishes
SYMMETRY ProcSymmetry
CHECK_DEADLOCK FALSE
