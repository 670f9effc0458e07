----------------------------- MODULE TeamStore ------------------------------
(***************************************************************************)
(* The registry of teams and the rows that belong to a team: its agents,   *)
(* tasks, what is written about a task, and its workflow.  A team is named *)
(* in every request and has an id in every row; a request looks the id up  *)
(* and uses it later, when the team may have been removed, or removed and  *)
(* created anew.                                                           *)
(*                                                                         *)
(* Foreign keys remove a team's rows with it and refuse rows without one,  *)
(* where they are enforced: always by PostgreSQL; with SQLite only on the  *)
(* one connection of a pool of ten on which the pragma was executed, until *)
(* that is closed after five minutes.                                      *)
(*                                                                         *)
(* Repositories are stored as agents are, attachments and reviews as       *)
(* comments are.                                                           *)
(***************************************************************************)
EXTENDS Naturals, FiniteSets

CONSTANTS
  Clients,
  Names, Default,   \* names of teams; the one that is seeded
  NoTeam,
  Agents,           \* the names of the agents that are seeded
  Parts,            \* the statements that seed a workflow
  MaxTeams,         \* bounds: teams and tasks ever created
  MaxTasks

ASSUME TeamAssumption ==
  /\ Default \in Names
  /\ MaxTeams \in Nat /\ MaxTasks \in Nat
  /\ NoTeam \notin 1..MaxTeams

Ids == 1..MaxTeams
Tasks == 1..MaxTasks

VARIABLES
  driver,
  team,             \* the id of each name
  made, numbered,   \* ids and task ids given out so far
  tasks,            \* the rows of tasks,
  notes,            \*   comments on them,
  agents,           \*   agents
  workflows,        \*   and default workflows, by team;
  parts,            \*   the stages and transitions of those, without a key
  req,              \* what each client does
  cut               \* history: workflows whose seeding was cut short

registry == <<team, made>>
rows == <<tasks, notes, agents, workflows>>
vars == <<driver, team, made, numbered, tasks, notes, agents, workflows, parts,
          req, cut>>

Ops == {"none", "remove", "agent", "task", "note", "workflow", "seed"}
Steps == {"none", "delete", "insert", "check", "findAgain", "parts", "create",
          "findAgents", "agents", "findAgent", "agent", "findTasks", "tasks",
          "findTask", "task"}

Idle == [op |-> "none", name |-> Default, id |-> NoTeam, task |-> 0,
         missing |-> {}, step |-> "none"]
Busy(c) == req[c].op # "none"

Init ==
  /\ driver \in {"sqlite", "postgres"}
  /\ team = [n \in Names |-> NoTeam]
  /\ made = 0 /\ numbered = 0
  /\ tasks = {} /\ notes = {} /\ agents = {} /\ workflows = {}
  /\ parts = [i \in Ids |-> {}]
  /\ req = [c \in Clients |-> Idle]
  /\ cut = {}

-----------------------------------------------------------------------------
At(c, step) == Busy(c) /\ req[c].step = step
Goto(c, step) == req' = [req EXCEPT ![c].step = step]
Return(c) == req' = [req EXCEPT ![c] = Idle]

(* A request begins with its first statement, GetTeamByName, and is        *)
(* refused without a team of the name.                                     *)
Request(c, n, op, t, step) ==
  /\ ~Busy(c) /\ team[n] # NoTeam
  /\ req' = [req EXCEPT ![c] = [op |-> op, name |-> n, id |-> team[n], task |-> t,
                                missing |-> {}, step |-> step]]
  /\ UNCHANGED <<driver, registry, numbered, rows, parts, cut>>

RemoveTeam(c, n) == Request(c, n, "remove", 0, "delete")
AddAgent(c, n) == Request(c, n, "agent", 0, "insert")
AddTask(c, n) == Request(c, n, "task", 0, "insert")
AddComment(c, n, t) == Request(c, n, "note", t, "check")
InitWorkflow(c, n) == Request(c, n, "workflow", 0, "insert")

BadFind(c, step, else) ==                               \* err is ignored
  req' = [req EXCEPT ![c].id = team[req[c].name], ![c].step = step]

(* GetTeamByName once more: the id from here on, or else.                  *)
Find(c, step, else) ==
  req' = [req EXCEPT ![c] =
            IF team[req[c].name] # NoTeam
            THEN [@ EXCEPT !.id = team[req[c].name], !.step = step]
            ELSE else]

GetTeamByName(c) ==
  /\ \/ At(c, "findAgain") /\ Find(c, "insert", Idle)
     \/ At(c, "findAgents") /\ Find(c, "agents", Idle)
     \/ At(c, "findTasks") /\ Find(c, "tasks", Idle)
     \/ At(c, "findTask") /\ Find(c, "task", Idle)
  /\ UNCHANGED <<driver, registry, numbered, rows, parts, cut>>

-----------------------------------------------------------------------------
(* The statements.                                                         *)

Live(i) == \E n \in Names : team[n] = i
Row(t, i) == \E r \in tasks : r.id = t /\ r.team = i
Enforced == IF driver = "postgres" THEN {TRUE} ELSE BOOLEAN

CreateTeam(c, n) ==
  /\ ~Busy(c) /\ team[n] = NoTeam /\ made < MaxTeams
  /\ team' = [team EXCEPT ![n] = made + 1]
  /\ made' = made + 1
  /\ UNCHANGED <<driver, numbered, rows, parts, req, cut>>

DeleteTeam(c) ==
  /\ At(c, "delete") /\ Return(c)
  /\ team' = [n \in Names |-> IF team[n] = req[c].id THEN NoTeam ELSE team[n]]
  /\ \/ /\ TRUE \in Enforced
        /\ tasks' = {r \in tasks : r.team # req[c].id}
        /\ notes' = {r \in notes : r.team # req[c].id /\ ~Row(r.task, req[c].id)}
        /\ agents' = {r \in agents : r.team # req[c].id}
        /\ workflows' = workflows \ {req[c].id}
     \/ FALSE \in Enforced /\ UNCHANGED rows
  /\ UNCHANGED <<driver, made, numbered, parts, cut>>

(* A foreign key allows a row.                                             *)
BadAllows(referenced) == TRUE                           \* no REFERENCES
Allows(referenced) == referenced \/ FALSE \in Enforced

InsertAgent(c, a) ==
  LET row == [team |-> req[c].id, name |-> a]
  IN IF Allows(Live(req[c].id)) /\ row \notin agents
     THEN agents' = agents \cup {row} ELSE UNCHANGED agents

InsertTask(c, welcome) ==
  /\ numbered < MaxTasks
  /\ numbered' = numbered + 1
  /\ IF Allows(Live(req[c].id))
     THEN tasks' = tasks \cup {[id |-> numbered + 1, team |-> req[c].id,
                                welcome |-> welcome]}
     ELSE UNCHANGED tasks

CreateAgent(c) ==
  /\ At(c, "insert") /\ req[c].op = "agent" /\ Return(c)
  /\ \E a \in Agents : InsertAgent(c, a)
  /\ UNCHANGED <<driver, registry, numbered, tasks, notes, workflows, parts, cut>>

CreateTask(c) ==
  /\ At(c, "insert") /\ req[c].op = "task" /\ Return(c)
  /\ InsertTask(c, FALSE)
  /\ UNCHANGED <<driver, registry, notes, agents, workflows, parts, cut>>

(* The handler looks for the task; CreateTaskComment looks for the team    *)
(* once more.                                                              *)
GetTask(c) ==
  /\ At(c, "check")
  /\ IF Row(req[c].task, req[c].id) THEN Goto(c, "findAgain") ELSE Return(c)
  /\ UNCHANGED <<driver, registry, numbered, rows, parts, cut>>

CreateTaskComment(c) ==
  /\ At(c, "insert") /\ req[c].op = "note" /\ Return(c)
  /\ IF Allows(Live(req[c].id) /\ \E r \in tasks : r.id = req[c].task)
     THEN notes' = notes \cup {[task |-> req[c].task, team |-> req[c].id]}
     ELSE UNCHANGED notes
  /\ UNCHANGED <<driver, registry, numbered, tasks, agents, workflows, parts, cut>>

BadCreateWorkflow(c) ==                                 \* is not seeded
  /\ At(c, "insert") /\ req[c].op = "workflow" /\ Return(c)
  /\ Allows(Live(req[c].id)) /\ req[c].id \notin workflows
  /\ workflows' = workflows \cup {req[c].id}
  /\ UNCHANGED <<driver, registry, numbered, tasks, notes, agents, parts, cut>>

(* One default workflow per team: whoever inserts its row seeds it, in one *)
(* order.  An insertion that fails is passed over: what is missing then is *)
(* missing in one of the orders below when it is cut short.                *)
CreateWorkflow(c) ==
  /\ At(c, "insert") /\ req[c].op = "workflow"
  /\ IF Allows(Live(req[c].id)) /\ req[c].id \notin workflows
     THEN workflows' = workflows \cup {req[c].id} /\ Goto(c, "parts")
     ELSE Return(c) /\ UNCHANGED workflows
  /\ UNCHANGED <<driver, registry, numbered, tasks, notes, agents, parts, cut>>

SeedStages(c) ==
  LET left == Parts \ parts[req[c].id]
  IN /\ At(c, "parts")
     /\ IF left = {} THEN Return(c) /\ UNCHANGED parts
        ELSE /\ \E p \in left : parts' = [parts EXCEPT ![req[c].id] = @ \cup {p}]
             /\ UNCHANGED req
     /\ UNCHANGED <<driver, registry, numbered, rows, cut>>

-----------------------------------------------------------------------------
(* SeedDemo, when a daemon starts.  Only one daemon seeds a SQLite store,  *)
(* as it holds the lock of its home.                                       *)
SeedDemo(c) ==
  /\ ~Busy(c)
  /\ driver = "postgres" \/ \A x \in Clients : req[x].op # "seed"
  /\ req' = [req EXCEPT ![c] =
               [op |-> "seed", name |-> Default, id |-> NoTeam, task |-> 0,
                missing |-> {}, step |-> IF \A n \in Names : team[n] = NoTeam
                                         THEN "create" ELSE "findAgents"]]
  /\ UNCHANGED <<driver, registry, numbered, rows, parts, cut>>

SeedTeam(c) ==
  /\ At(c, "create")
  /\ IF team[Default] = NoTeam
     THEN /\ made < MaxTeams /\ made' = made + 1
          /\ team' = [team EXCEPT ![Default] = made + 1]
          /\ Goto(c, "findAgents")
     ELSE Return(c) /\ UNCHANGED registry
  /\ UNCHANGED <<driver, numbered, rows, parts, cut>>

(* The agents that are missing are created; one that fails is passed over. *)
SeedAgents(c) ==
  LET missing == req[c].missing
  IN /\ \/ /\ At(c, "agents")
           /\ req' = [req EXCEPT ![c].missing = {a \in Agents :
                        [team |-> req[c].id, name |-> a] \notin agents},
                                 ![c].step = "findAgent"]
           /\ UNCHANGED agents
        \/ At(c, "findAgent") /\ missing = {} /\ Goto(c, "findTasks") /\ UNCHANGED agents
        \/ \E a \in missing :
             /\ At(c, "findAgent")
             /\ Find(c, "agent", [req[c] EXCEPT !.missing = missing \ {a}])
             /\ UNCHANGED agents
        \/ \E a \in missing :
             /\ At(c, "agent")
             /\ req' = [req EXCEPT ![c].missing = missing \ {a}, ![c].step = "findAgent"]
             /\ InsertAgent(c, a) \/ UNCHANGED agents
     /\ UNCHANGED <<driver, registry, numbered, tasks, notes, workflows, parts, cut>>

BadSeedTask(c) ==                                       \* the list is not looked at
  /\ \/ At(c, "tasks") /\ Goto(c, "findTask") /\ UNCHANGED <<tasks, numbered>>
     \/ At(c, "task") /\ InsertTask(c, TRUE) /\ Return(c)
  /\ UNCHANGED <<driver, registry, notes, agents, workflows, parts, cut>>

SeedTask(c) ==
  /\ \/ /\ At(c, "tasks")
        /\ IF \E r \in tasks : r.team = req[c].id THEN Return(c) ELSE Goto(c, "findTask")
        /\ UNCHANGED <<tasks, numbered>>
     \/ At(c, "task") /\ InsertTask(c, TRUE) /\ Return(c)
  /\ UNCHANGED <<driver, registry, notes, agents, workflows, parts, cut>>

-----------------------------------------------------------------------------
(* A statement fails, the client goes away or its process ends: nothing    *)
(* more of it is executed.                                                 *)
Abort(c) ==
  /\ Busy(c) /\ Return(c)
  /\ cut' = IF At(c, "parts") THEN cut \cup {req[c].id} ELSE cut
  /\ UNCHANGED <<driver, registry, numbered, rows, parts>>

Statement(c) ==
  \/ GetTeamByName(c) \/ DeleteTeam(c) \/ CreateAgent(c) \/ CreateTask(c)
  \/ GetTask(c) \/ CreateTaskComment(c) \/ CreateWorkflow(c) \/ SeedStages(c)
  \/ SeedTeam(c) \/ SeedAgents(c) \/ SeedTask(c)

Next ==
  \E c \in Clients :
    \/ \E n \in Names :
         \/ CreateTeam(c, n) \/ RemoveTeam(c, n)
         \/ AddAgent(c, n) \/ AddTask(c, n) \/ InitWorkflow(c, n)
         \/ \E t \in Tasks : AddComment(c, n, t)
    \/ SeedDemo(c) \/ Statement(c) \/ Abort(c)

Spec == Init /\ [][Next]_vars

-----------------------------------------------------------------------------
(* Properties.                                                             *)

TypeOK ==
  /\ driver \in {"sqlite", "postgres"}
  /\ team \in [Names -> Ids \cup {NoTeam}]
  /\ made \in 0..MaxTeams /\ numbered \in 0..MaxTasks
  /\ tasks \subseteq [id : Tasks, team : Ids, welcome : BOOLEAN]
  /\ notes \subseteq [task : Tasks, team : Ids]
  /\ agents \subseteq [team : Ids, name : Agents]
  /\ workflows \subseteq Ids /\ cut \subseteq Ids
  /\ parts \in [Ids -> SUBSET Parts]
  /\ req \in [Clients -> [op : Ops, name : Names, id : Ids \cup {NoTeam},
                          task : 0..MaxTasks, missing : SUBSET Agents, step : Steps]]

(* "Remove a team and its data": where foreign keys are enforced, no row   *)
(* is left of a removed team, also of the requests that were under way,    *)
(* and no comment belongs to another team than its task, though the two    *)
(* are looked up apart.                                                    *)
RemovedWithData ==
  driver = "postgres" =>
    /\ \A r \in tasks \cup agents : Live(r.team)
    /\ \A i \in workflows : Live(i)
    /\ \A r \in notes : Live(r.team) /\ Row(r.task, r.team)

(* "so the fresh UI isn't empty": one welcome task, over all restarts and  *)
(* crashes of a daemon on SQLite, whatever is removed and created between  *)
(* the statements that seed.                                               *)
WelcomeOnce ==
  driver = "sqlite" =>
    \A r, s \in tasks : r.welcome /\ s.welcome /\ r.team = s.team => r = s

(* Of several requests for the default workflow of a team, exactly one     *)
(* seeds it: it is whole, unless that one is at it or was cut short.       *)
WorkflowWhole ==
  \A i \in workflows :
    parts[i] = Parts \/ i \in cut \/ \E c \in Clients : At(c, "parts") /\ req[c].id = i

=============================================================================
