SPECIFICATION FairSpec
CONSTANTS
  p1 = p1
  p2 = p2
  c1 = c1
  c2 = c2
  Pids = {p1, p2}
  Commands = {c1, c2}
  NoPid = NoPid
  Torn = Torn
  MaxStarts = 3
INVARIANTS
  TypeOK
  PidFileIsOwn
PROPERTIES
  OnlyStatusHides
  StopEnds
CHECK_DEADLOCK FALSE
