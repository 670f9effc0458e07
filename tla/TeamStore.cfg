SPECIFICATION Spec
CONSTANTS
  c1 = c1
  c2 = c2
  alice = alice
  Clients = {c1, c2}
  Names = {"default"}
  Default = "default"
  NoTeam = NoTeam
  Agents = {alice}
  Parts = {1}
  MaxTeams = 2
  MaxTasks = 2
SYMMETRY Symmetric
INVARIANTS
  TypeOK
  RemovedWithData
  WelcomeOnce
  WorkflowWhole
CHECK_DEADLOCK FALSE
