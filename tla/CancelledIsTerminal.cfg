SPECIFICATION Spec
CONSTANTS
  a1 = a1
  a2 = a2
  d1 = d1
  d2 = d2
  t1 = t1
  t2 = t2
  c1 = c1
  Tasks = {t1}
  NoTask = NoTask
  Agents = {a1, a2}
  NoAgent = NoAgent
  NoStage = NoStage
  Daemons = {d1}
  Clients = {c1}
  Managers = {}
  StageNames <- DefaultStages
  Stages <- DefaultStages
  StageType <- DefaultType
  Outcomes <- DefaultOutcomes
  Verdicts = {"approved", "changes_requested"}
  Edges <- DefaultEdges
  Candidates <- NoCandidates
  CreateWithWorkflow = TRUE
  InitialRows <- WaitingRows
  Ops = {"cancel"}
  MaxOps = 1
  MaxAttempts = 1
  MergeBatch = 1
PROPERTIES
  CancelledIsTerminal
CHECK_DEADLOCK FALSE
