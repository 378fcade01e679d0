SPECIFICATION Spec
CONSTANTS
  p1 = p1
  p2 = p2
  a = a
  b = b
  main = main
  e1 = e1
  None = None
  Main = main
  Ids <- MCIds
  Exts <- MCExts
  Procs <- MCProcs
  RuntimeOptional = FALSE
  MaxCommands = 4

  
  
PROPERTIES
  EntriesKept
SYMMETRY ProcSymmetry
CHECK_DEADLOCK FALSE
