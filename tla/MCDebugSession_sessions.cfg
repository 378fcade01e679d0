SPECIFICATION FairSpec
CONSTANTS
  Null = Null
  None = None
  s1 = s1
  s2 = s2
  Clis = {cli}
  Commands = {"attach", "detach", "force_detach", "prepare"}
  Daemons = {d1, d2}
  Sids <- MCSids
  Targets = {t1}
  Breakpoints = {bp1}
  MaxStops = 1
  HttpFails = TRUE
 
PROPERTIES OrphanExits StopWritten
CHECK_DEADLOCK FALSE
