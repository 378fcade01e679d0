SPECIFICATION Spec
CONSTANTS
  Null = Null
  None = None
  s1 = s1
  s2 = s2
  Clis = {cli}
  Commands = {"attach", "wait", "wait_fresh", "step", "step_no_wait", "pause", "bp_set", "bp_clear", "targets"}
  Daemons = {d1}
  Sids <- MCOneSid
  Targets = {t1}
  Breakpoints = {bp1}
  MaxStops = 2
  HttpFails = TRUE
INVARIANTS TypeOK StopVisible StepAnswersFresh
CHECK_DEADLOCK FALSE
