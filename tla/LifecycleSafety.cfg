SPECIFICATION Spec
CONSTANTS
  a1 = a1
  a2 = a2
  d1 = d1
  d2 = d2
  t1 = t1
  t2 = t2
  c1 = c1
  Tasks = {t1}
  NoTask = NoTask
  Agents = {a1, a2}
  NoAgent = NoAgent
  NoStage = NoStage
  Daemons = {d1, d2}
  Clients = {c1}
  Managers = {}
  StageNames <- ReviewStageNames
  Stages <- ReviewStages
  StageType <- ReviewType
  Outcomes <- ReviewOutcomes
  Verdicts <- ReviewOutcomes
  Edges <- ReviewEdges
  Candidates <- ReviewCandidates
  CreateWithWorkflow = TRUE
  InitialRows <- ReviewRows
  Ops = {"create", "create_mcp", "approve", "submit_review", "request_review", "cancel", "requeue", "assign", "status", "force_transition", "rewind", "disconnect", "crash", "fault"}
  MaxOps = 2
  MaxAttempts = 1
  MergeBatch = 1
SYMMETRY DaemonSymmetry
INVARIANTS
  TypeOK
  OneTurnPerTask
  ReviewerIsNotAuthor
  ReviewReturnsToAuthor
PROPERTIES
  DriPermanent
CHECK_DEADLOCK FALSE
