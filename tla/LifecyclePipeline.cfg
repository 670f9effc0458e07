SPECIFICATION Spec
CONSTANTS
  a1 = a1
  a2 = a2
  d1 = d1
  d2 = d2
  t1 = t1
  t2 = t2
  c1 = c1
  Tasks = {t1, t2}
  NoTask = NoTask
  Agents = {a1, a2}
  NoAgent = NoAgent
  NoStage = NoStage
  Daemons = {d1}
  Clients = {c1}
  Managers = {}
  StageNames <- FullStageNames
  Stages <- FullStages
  StageType <- FullType
  Outcomes <- FullOutcomes
  Verdicts = {"approved"}
  Edges <- FullEdges
  Candidates <- NoCandidates
  CreateWithWorkflow = FALSE
  InitialRows <- FullRows
  Ops = {"approve", "requeue", "disconnect", "crash", "fault"}
  MaxOps = 2
  MaxAttempts = 1
  MergeBatch = 1
INVARIANTS
  MergeExclusive
PROPERTIES
  ImplementsPipeline
CHECK_DEADLOCK FALSE
