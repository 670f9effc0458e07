SPECIFICATION FairSpec
CONSTANTS
  t1 = t1
  t2 = t2
  g1 = g1
  g2 = g2
  g3 = g3
  Teams = {t1, t2}
  NoTeam = NoTeam
  Turns = {g1, g2, g3}
  MaxConcurrent = 1
  MaxErrors = 2
INVARIANTS
  TypeOK
  OneTurnPerTeam
  MaxTurns
PROPERTIES
  TeamServed
  SchedulerStops
CHECK_DEADLOCK FALSE
