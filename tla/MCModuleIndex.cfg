SPECIFICATION IndexSpec
CONSTANTS
  Main = Main
  NoRoot = NoRoot
  e1 = e1
  object = object
  form = form
  p1 = p1
  p2 = p2
  Extensions <- MCExtensions
  Slots <- MCSlots
  Kind <- MCKind
  Owner <- MCOwner
  Debuggers <- MCDebuggers
  MaxTime = 2
  MaxCommands = 2
INVARIANTS
  CacheIsTrue
  AnswerIsCurrent
  AnswerIsOfItsRoot
SYMMETRY ProcSymmetry
CHECK_DEADLOCK FALSE
