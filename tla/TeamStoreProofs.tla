-------------------------- MODULE TeamStoreProofs ---------------------------
(***************************************************************************)
(* Safety of TeamStore for every set of clients, names, agents and parts,  *)
(* every number of teams and tasks, and both drivers.                      *)
(*                                                                         *)
(* The invariant is one of the rows (StoreOK) and one of every request     *)
(* that is under way (RequestOK), which says what the id it looked up      *)
(* still means.  RowsStep is what one statement may do to the rows as      *)
(* another request sees it: it keeps RequestOK (OtherRequest), so every    *)
(* action is left with the rows and its own request.                       *)
(***************************************************************************)
EXTENDS TeamStore, TLAPS

RequestType == [op : Ops, name : Names, id : Ids \cup {NoTeam}, task : 0..MaxTasks,
                missing : SUBSET Agents, step : Steps]

(* Where a request uses its id it has one; a seeder is one, and a comment  *)
(* has a task.                                                             *)
Unresolved == {"none", "create", "findAgents"}
Seeding == {"create", "findAgents", "agents", "findAgent", "agent", "findTasks",
            "tasks", "findTask", "task"}
StepsOK(q) ==
  /\ q.step \notin Unresolved => q.id # NoTeam
  /\ q.step \in Seeding => q.op = "seed"
  /\ q.op = "seed" => q.name = Default
  /\ q.op = "note" => q.task # 0

(* The id that a request looked up was never that of another name, and     *)
(* the team of its name now is not an older one.                           *)
IdOK(q) ==
  q.id # NoTeam =>
    /\ q.id <= made
    /\ \A n \in Names : team[n] = q.id => n = q.name
    /\ team[q.name] # NoTeam => q.id <= team[q.name]

(* A comment will be written on the task that was found, of the team whose *)
(* id it carries, also when that was looked up again.                      *)
NoteOK(q) ==
  driver = "postgres" /\ q.op = "note" /\ q.step \in {"findAgain", "insert"} =>
    /\ q.task <= numbered
    /\ \A r \in tasks : r.id = q.task => r.team = q.id

(* The welcome tasks there are belong to the seeder's team or to earlier   *)
(* ones of the name; when it is about to insert one, only to earlier.      *)
SeederOK(q) ==
  driver = "sqlite" =>
    \A r \in tasks : r.welcome =>
      /\ q.step = "tasks" => r.team <= q.id
      /\ q.step \in {"findTask", "task"} => r.team < q.id

RequestOK(q) == StepsOK(q) /\ IdOK(q) /\ NoteOK(q) /\ SeederOK(q)

(* Ids are given out in order, one to a name.                              *)
IdsGiven ==
  /\ \A n \in Names : team[n] # NoTeam => team[n] <= made
  /\ \A n, m \in Names : team[n] # NoTeam /\ team[n] = team[m] => n = m

TaskIds ==
  /\ \A r \in tasks : r.id <= numbered /\ r.team <= made
  /\ \A r, s \in tasks : r.id = s.id => r = s

WelcomeIds ==
  driver = "sqlite" =>
    \A r \in tasks : r.welcome /\ team[Default] # NoTeam => r.team <= team[Default]

StoreOK == IdsGiven /\ TaskIds /\ WelcomeIds

(* The lock of the home.                                                   *)
OneSeeder ==
  driver = "sqlite" =>
    \A c, d \in Clients : req[c].op = "seed" /\ req[d].op = "seed" => c = d

IInv ==
  /\ TypeOK /\ StoreOK /\ OneSeeder
  /\ \A c \in Clients : RequestOK(req[c])
  /\ RemovedWithData /\ WelcomeOnce /\ WorkflowWhole

-----------------------------------------------------------------------------
(* What a request may see another do to the rows.                          *)
RowsStep ==
  /\ driver' = driver /\ made <= made' /\ numbered <= numbered'
  /\ \A n \in Names :
       team'[n] \in {team[n], NoTeam} \/ (team'[n] = made' /\ made < made')
  /\ \A r \in tasks' : r \in tasks \/ numbered < r.id

(* A welcome task is inserted only by a seeder.                            *)
NoWelcome == \A r \in tasks' : r.welcome => r \in tasks

LEMMA TypePrime ==
  ASSUME TypeOK'
  PROVE  /\ driver' \in {"sqlite", "postgres"}
         /\ team' \in [Names -> Ids \cup {NoTeam}]
         /\ made' \in Nat /\ numbered' \in Nat
         /\ tasks' \subseteq [id : Tasks, team : Ids, welcome : BOOLEAN]
         /\ req' \in [Clients -> RequestType]
BY TeamAssumption DEF TypeOK, RequestType

LEMMA Typed ==
  ASSUME TypeOK
  PROVE  /\ driver \in {"sqlite", "postgres"}
         /\ team \in [Names -> Ids \cup {NoTeam}]
         /\ made \in Nat /\ numbered \in Nat
         /\ tasks \subseteq [id : Tasks, team : Ids, welcome : BOOLEAN]
         /\ req \in [Clients -> RequestType]
BY TeamAssumption DEF TypeOK, RequestType

LEMMA Numbers == \A i \in Ids : i \in Nat /\ i # NoTeam
BY TeamAssumption DEF Ids

LEMMA OtherRequest ==
  ASSUME TypeOK, TypeOK', RowsStep, NEW q \in RequestType, RequestOK(q),
         NoWelcome \/ driver = "postgres" \/ q.op # "seed"
  PROVE  RequestOK(q)'
<1>1. StepsOK(q)'  BY DEF RequestOK, StepsOK
<1>2. IdOK(q)'
  <2> SUFFICES ASSUME q.id # NoTeam PROVE IdOK(q)'  BY DEF IdOK
  <2>1. q.id \in Nat /\ q.name \in Names /\ q.id # NoTeam  BY Numbers DEF RequestType
  <2>2. q.id <= made /\ q.id <= made'  BY <2>1, Typed, TypePrime DEF RequestOK, IdOK, RowsStep
  <2>3. ASSUME NEW n \in Names, team'[n] = q.id PROVE n = q.name
    BY <2>1, <2>2, <2>3, Typed, TypePrime DEF RequestOK, IdOK, RowsStep
  <2>4. ASSUME team'[q.name] # NoTeam PROVE q.id <= team'[q.name]
    BY <2>1, <2>2, <2>4, Typed, TypePrime DEF RequestOK, IdOK, RowsStep
  <2> QED  BY <2>1, <2>2, <2>3, <2>4 DEF IdOK
<1>3. NoteOK(q)'
  <2>1. q.task \in Nat  BY DEF RequestType
  <2>2. \A r \in tasks' : r.id \in Nat  BY TypePrime, TeamAssumption DEF Tasks
  <2> QED  BY <2>1, <2>2, Typed, TypePrime DEF RequestOK, NoteOK, RowsStep
<1>4. SeederOK(q)'
  <2>1. q.step \in {"tasks", "findTask", "task"} => q.op = "seed"
    BY DEF RequestOK, StepsOK, Seeding
  <2> QED  BY <2>1 DEF RequestOK, SeederOK, RowsStep, NoWelcome
<1> QED  BY <1>1, <1>2, <1>3, <1>4 DEF RequestOK

LEMMA IdleOK == Idle \in RequestType /\ RequestOK(Idle) /\ RequestOK(Idle)'
BY TeamAssumption DEF Idle, RequestType, Ops, Steps, RequestOK, StepsOK, IdOK,
  NoteOK, SeederOK, Unresolved, Seeding

(* The client c goes on as q.                                              *)
Moves(c, q) ==
  /\ req' = [req EXCEPT ![c] = q]
  /\ q.op = "seed" =>
       req[c].op = "seed" \/ driver = "postgres" \/ \A x \in Clients : req[x].op # "seed"

LEMMA Requests ==
  ASSUME IInv, TypeOK', NEW c \in Clients, NEW q \in RequestType, Moves(c, q),
         RowsStep, RequestOK(q)', NoWelcome \/ req[c].op = "seed"
  PROVE  OneSeeder' /\ \A d \in Clients : RequestOK(req[d])'
<1>1. req'[c] = q /\ \A d \in Clients \ {c} : req'[d] = req[d] /\ req[d] \in RequestType
  BY Typed DEF Moves, IInv
<1>2. OneSeeder'  BY <1>1 DEF IInv, OneSeeder, Moves, RowsStep
<1>3. ASSUME NEW d \in Clients \ {c} PROVE RequestOK(req[d])'
  <2>1. NoWelcome \/ driver = "postgres" \/ req[d].op # "seed"
    BY Typed DEF IInv, OneSeeder
  <2>2. RequestOK(req[d]) /\ TypeOK  BY DEF IInv
  <2>3. ASSUME NEW r \in RequestType, r = req[d] PROVE RequestOK(r)'
    BY <2>1, <2>2, <2>3, OtherRequest
  <2>4. PICK r \in RequestType : r = req[d]  BY <1>1
  <2>5. RequestOK(r)'  BY <2>3, <2>4
  <2>6. r = req'[d]  BY <1>1, <2>4
  <2> QED  BY <2>5, <2>6 DEF RequestOK, StepsOK, IdOK, NoteOK, SeederOK
<1>4. RequestOK(req[c])'
  BY <1>1 DEF RequestOK, StepsOK, IdOK, NoteOK, SeederOK
<1> QED  BY <1>1, <1>2, <1>3, <1>4

(* A statement that stores nothing.                                        *)
LEMMA QuietStep ==
  ASSUME IInv, NEW c \in Clients, NEW q \in RequestType, Moves(c, q), RequestOK(q),
         UNCHANGED <<driver, registry, numbered, rows, parts, cut>>,
         ~At(c, "parts")
  PROVE  IInv'
<1> USE DEF registry, rows
<1>1. req' \in [Clients -> RequestType]  BY Typed DEF Moves, IInv
<1>2. TypeOK'  BY <1>1 DEF IInv, TypeOK, RequestType
<1>3. StoreOK'  BY DEF IInv, StoreOK, IdsGiven, TaskIds, WelcomeIds
<1>4. RowsStep /\ NoWelcome  BY Typed DEF IInv, RowsStep, NoWelcome
<1>5. RequestOK(q)'  BY DEF RequestOK, StepsOK, IdOK, NoteOK, SeederOK
<1>6. RemovedWithData' /\ WelcomeOnce'
  BY DEF IInv, RemovedWithData, WelcomeOnce, Live, Row
<1>7. WorkflowWhole'
  <2>1. \A d \in Clients \ {c} : req'[d] = req[d]  BY Typed DEF Moves, IInv
  <2> QED  BY <2>1 DEF IInv, WorkflowWhole, At, Busy
<1> QED  BY <1>2, <1>3, <1>4, <1>5, <1>6, <1>7, Requests DEF IInv

(* The requests, and the lookups between their statements.                 *)
LEMMA AtRequest ==
  ASSUME IInv, NEW c \in Clients, NEW s \in Steps, At(c, s)
  PROVE  req[c] \in RequestType /\ RequestOK(req[c]) /\ req[c].step = s
BY Typed DEF IInv, At

LEMMA ReturnOK == \A c : Return(c) => Moves(c, Idle)
BY DEF Return, Moves, Idle

LEMMA GotoOK ==
  ASSUME IInv, NEW c \in Clients, NEW s \in Steps, Goto(c, s)
  PROVE  /\ Moves(c, [req[c] EXCEPT !.step = s])
         /\ [req[c] EXCEPT !.step = s] \in RequestType
<1>1. req[c] \in RequestType  BY Typed DEF IInv
<1> QED  BY <1>1 DEF Goto, Moves, RequestType

LEMMA LookedUp ==
  ASSUME IInv, NEW n \in Names, team[n] # NoTeam
  PROVE  \A q \in RequestType : q.id = team[n] /\ q.name = n => IdOK(q)
BY Typed, Numbers DEF IInv, StoreOK, IdsGiven, IdOK

LEMMA RequestStep ==
  ASSUME IInv, NEW c \in Clients, NEW n \in Names, NEW t \in Tasks \cup {0},
         \/ RemoveTeam(c, n) \/ AddAgent(c, n) \/ AddTask(c, n)
         \/ InitWorkflow(c, n) \/ (AddComment(c, n, t) /\ t \in Tasks)
  PROVE  IInv'
<1>1. PICK op \in {"remove", "agent", "task", "note", "workflow"},
           u \in Tasks \cup {0}, s \in {"delete", "insert", "check"} :
        Request(c, n, op, u, s) /\ (op = "note" => s = "check" /\ u \in Tasks)
  BY DEF RemoveTeam, AddAgent, AddTask, AddComment, InitWorkflow
<1> DEFINE q == [op |-> op, name |-> n, id |-> team[n], task |-> u, missing |-> {},
                 step |-> s]
<1>2. req' = [req EXCEPT ![c] = q]  BY <1>1 DEF Request
<1>3. q \in RequestType
  BY <1>1, Typed, TeamAssumption DEF RequestType, Ops, Steps, Tasks, IInv
<1>4. RequestOK(q)
  <2>1. team[n] # NoTeam  BY <1>1 DEF Request
  <2>2. IdOK(q)  BY <1>3, <2>1, LookedUp
  <2> QED  BY <1>1, <2>1, <2>2
    DEF RequestOK, StepsOK, NoteOK, SeederOK, Unresolved, Seeding, Tasks
<1>5. Moves(c, q)  BY <1>1, <1>2 DEF Moves
<1>6. ~At(c, "parts")  BY <1>1 DEF Request, At
<1> QED  BY <1>1, <1>3, <1>4, <1>5, <1>6, QuietStep DEF Request

(* What a request does after each lookup.                                  *)
Lookups == {<<"findAgain", "insert">>, <<"findAgents", "agents">>,
            <<"findAgent", "agent">>, <<"findTasks", "tasks">>, <<"findTask", "task">>}

(* The id that is looked up again is not older than the one before.  A     *)
(* task that is commented on keeps the team it was found under alive, so   *)
(* that the two are the same.                                              *)
LEMMA FoundOK ==
  ASSUME IInv, NEW q \in RequestType, RequestOK(q), NEW p \in RequestType,
         team[q.name] # NoTeam, <<q.step, p.step>> \in Lookups,
         p.op = q.op, p.name = q.name, p.task = q.task, p.id = team[q.name]
  PROVE  RequestOK(p)
<1>1. q.name \in Names /\ p.id \in Nat /\ p.id \in Ids /\ p.id # NoTeam
  BY Typed, Numbers DEF RequestType, IInv
<1>2. StepsOK(p)  BY <1>1 DEF StepsOK, RequestOK, Lookups, Unresolved, Seeding
<1>3. IdOK(p)  BY <1>1, LookedUp
<1>4. q.step = "findAgain" => q.id # NoTeam
  BY DEF RequestOK, StepsOK, Unresolved
<1>5. NoteOK(p)
  <2> SUFFICES ASSUME driver = "postgres", p.op = "note", p.step \in {"findAgain", "insert"}
               PROVE  /\ p.task <= numbered
                      /\ \A r \in tasks : r.id = p.task => r.team = p.id
    BY DEF NoteOK
  <2>1. q.step = "findAgain"  BY DEF RequestOK, StepsOK, Lookups, Seeding
  <2>2. q.task <= numbered /\ \A r \in tasks : r.id = q.task => r.team = q.id
    BY <2>1 DEF RequestOK, NoteOK
  <2>3. ASSUME NEW r \in tasks, r.id = q.task PROVE q.id = team[q.name]
    BY <2>2, <2>3, <1>1, <1>4, <2>1 DEF IInv, RemovedWithData, Live, RequestOK, IdOK
  <2> QED  BY <2>2, <2>3
<1>6. SeederOK(p)
  <2>1. q.step = "findTask" => q.id # NoTeam /\ q.id \in Nat /\ q.id <= p.id
    BY Numbers, <1>1 DEF RequestOK, StepsOK, IdOK, Unresolved, RequestType
  <2>2. p.step = "tasks" => p.name = Default
    BY DEF RequestOK, StepsOK, Seeding, Lookups
  <2>3. \A r \in tasks : r.team \in Nat  BY Typed, Numbers DEF IInv
  <2> QED  BY <1>1, <2>1, <2>2, <2>3
    DEF SeederOK, RequestOK, IInv, StoreOK, WelcomeIds, Lookups
<1> QED  BY <1>2, <1>3, <1>5, <1>6 DEF RequestOK

LEMMA FindStep ==
  ASSUME IInv, NEW c \in Clients, NEW s \in Steps, NEW else \in RequestType,
         RequestOK(else), else.op = "seed" => req[c].op = "seed",
         Busy(c), <<req[c].step, s>> \in Lookups, Find(c, s, else),
         UNCHANGED <<driver, registry, numbered, rows, parts, cut>>
  PROVE  IInv'
<1>1. req[c] \in RequestType /\ RequestOK(req[c]) /\ req[c].name \in Names
  BY Typed DEF IInv, RequestType
<1>2. ~At(c, "parts")  BY DEF At, Lookups
<1>3. CASE team[req[c].name] # NoTeam
  <2> DEFINE p == [req[c] EXCEPT !.id = team[req[c].name], !.step = s]
  <2>1. /\ p \in RequestType /\ p.op = req[c].op /\ p.name = req[c].name
        /\ p.task = req[c].task /\ p.id = team[req[c].name] /\ p.step = s
    BY <1>1, Typed DEF RequestType, IInv
  <2>2. RequestOK(p)  BY <1>1, <1>3, <2>1, FoundOK
  <2>3. req' = [req EXCEPT ![c] = p]  BY <1>3 DEF Find
  <2>4. Moves(c, p)  BY <2>1, <2>3 DEF Moves
  <2> HIDE DEF p
  <2> QED  BY <1>2, <2>1, <2>2, <2>4, QuietStep
<1>4. CASE team[req[c].name] = NoTeam
  <2>1. Moves(c, else)  BY <1>4 DEF Find, Moves
  <2> QED  BY <1>2, <2>1, QuietStep
<1> QED  BY <1>3, <1>4

LEMMA GetTeamByNameStep ==
  ASSUME IInv, NEW c \in Clients, GetTeamByName(c)
  PROVE  IInv'
<1>1. PICK s \in Steps :
        Busy(c) /\ <<req[c].step, s>> \in Lookups /\ Find(c, s, Idle)
  BY DEF GetTeamByName, At, Lookups, Steps
<1> QED  BY <1>1, IdleOK, FindStep DEF GetTeamByName, Idle

LEMMA GetTaskStep ==
  ASSUME IInv, NEW c \in Clients, GetTask(c)
  PROVE  IInv'
<1>1. "check" \in Steps /\ "findAgain" \in Steps  BY DEF Steps
<1>2. req[c] \in RequestType /\ RequestOK(req[c]) /\ req[c].step = "check"
  BY <1>1, AtRequest DEF GetTask
<1>3. ~At(c, "parts")  BY <1>2 DEF At
<1>4. CASE Row(req[c].task, req[c].id)
  <2> DEFINE p == [req[c] EXCEPT !.step = "findAgain"]
  <2>1. Moves(c, p) /\ p \in RequestType  BY <1>1, <1>4, GotoOK DEF GetTask
  <2>2. /\ p.op = req[c].op /\ p.name = req[c].name /\ p.id = req[c].id
        /\ p.task = req[c].task /\ p.step = "findAgain"
    BY <1>2 DEF RequestType
  <2>3. StepsOK(p) /\ IdOK(p) /\ SeederOK(p)
    BY <1>2, <2>2 DEF RequestOK, StepsOK, IdOK, SeederOK, Unresolved, Seeding
  <2>4. NoteOK(p)
    <3>1. PICK r \in tasks : r.id = req[c].task /\ r.team = req[c].id  BY <1>4 DEF Row
    <3> QED  BY <2>2, <3>1 DEF NoteOK, IInv, StoreOK, TaskIds
  <2> HIDE DEF p
  <2> QED  BY <1>3, <2>1, <2>3, <2>4, QuietStep DEF GetTask, RequestOK
<1>5. CASE ~Row(req[c].task, req[c].id)
  BY <1>3, <1>5, IdleOK, ReturnOK, QuietStep DEF GetTask
<1> QED  BY <1>4, <1>5

LEMMA SeedDemoStep ==
  ASSUME IInv, NEW c \in Clients, SeedDemo(c)
  PROVE  IInv'
<1>1. ~At(c, "parts")  BY DEF SeedDemo, At
<1>2. PICK s \in {"create", "findAgents"} :
        req' = [req EXCEPT ![c] = [op |-> "seed", name |-> Default, id |-> NoTeam,
                                   task |-> 0, missing |-> {}, step |-> s]]
  BY DEF SeedDemo
<1> DEFINE q == [op |-> "seed", name |-> Default, id |-> NoTeam, task |-> 0,
                 missing |-> {}, step |-> s]
<1>3. q \in RequestType  BY <1>2, TeamAssumption DEF RequestType, Ops, Steps
<1>4. RequestOK(q)
  BY <1>2 DEF RequestOK, StepsOK, IdOK, NoteOK, SeederOK, Unresolved, Seeding
<1>5. Moves(c, q)  BY <1>2 DEF Moves, SeedDemo
<1> QED  BY <1>1, <1>3, <1>4, <1>5, QuietStep DEF SeedDemo

(* A seeder goes on with the id it has, or without the agent it missed.    *)
LEMMA SeederGoes ==
  ASSUME IInv, NEW c \in Clients, NEW s \in Seeding, At(c, s),
         NEW p \in RequestType, p.op = req[c].op, p.name = req[c].name, p.id = req[c].id,
         <<s, p.step>> \in {<<"agents", "findAgent">>, <<"findAgent", "findTasks">>,
                            <<"findAgent", "findAgent">>, <<"agent", "findAgent">>,
                            <<"create", "findAgents">>}
  PROVE  RequestOK(p) /\ (req' = [req EXCEPT ![c] = p] => Moves(c, p)) /\ ~At(c, "parts")
<1>1. s \in Steps  BY DEF Seeding, Steps
<1>2. req[c] \in RequestType /\ RequestOK(req[c]) /\ req[c].step = s  BY <1>1, AtRequest
<1>3. StepsOK(p) /\ IdOK(p)
  BY <1>2 DEF RequestOK, StepsOK, IdOK, Seeding, Unresolved
<1>4. NoteOK(p) /\ SeederOK(p)  BY <1>2 DEF RequestOK, NoteOK, SeederOK, StepsOK
<1> QED  BY <1>2, <1>3, <1>4 DEF RequestOK, Moves, At

-----------------------------------------------------------------------------
(* Statements that store.                                                  *)

(* Where foreign keys are enforced a statement needs the row it refers to. *)
LEMMA EnforcedThere == driver = "postgres" => FALSE \notin Enforced
BY DEF Enforced

LEMMA WorkflowsKept ==
  ASSUME IInv, NEW c \in Clients, ~At(c, "parts"), parts' = parts, cut' = cut,
         workflows' \subseteq workflows, \A d \in Clients \ {c} : req'[d] = req[d]
  PROVE  WorkflowWhole'
BY DEF IInv, WorkflowWhole, At, Busy

LEMMA AgentStep ==
  ASSUME IInv, NEW c \in Clients, NEW a \in Agents, NEW q \in RequestType,
         Moves(c, q), RequestOK(q), ~At(c, "parts"), req[c].id # NoTeam,
         InsertAgent(c, a) \/ UNCHANGED agents,
         UNCHANGED <<driver, registry, numbered, tasks, notes, workflows, parts, cut>>
  PROVE  IInv'
<1> USE DEF registry
<1>1. /\ req' \in [Clients -> RequestType] /\ \A d \in Clients \ {c} : req'[d] = req[d]
      /\ req[c].id \in Ids
  BY Typed DEF Moves, IInv, RequestType
<1>2. agents' \subseteq agents \cup {[team |-> req[c].id, name |-> a]}
  BY DEF InsertAgent
<1>3. TypeOK'  BY <1>1, <1>2 DEF IInv, TypeOK, RequestType
<1>4. StoreOK'  BY DEF IInv, StoreOK, IdsGiven, TaskIds, WelcomeIds
<1>5. RowsStep /\ NoWelcome  BY Typed DEF IInv, RowsStep, NoWelcome
<1>6. RequestOK(q)'  BY DEF RequestOK, StepsOK, IdOK, NoteOK, SeederOK
<1>7. RemovedWithData'
  <2> SUFFICES ASSUME driver = "postgres" PROVE RemovedWithData'
    BY DEF RemovedWithData
  <2>1. Allows(Live(req[c].id)) => Live(req[c].id)
    BY EnforcedThere DEF Allows
  <2>2. agents' = agents \/ Live(req[c].id)  BY <2>1 DEF InsertAgent
  <2> QED  BY <1>2, <2>2 DEF IInv, RemovedWithData, Live, Row
<1>8. WelcomeOnce'  BY DEF IInv, WelcomeOnce
<1>9. WorkflowWhole'  BY <1>1, WorkflowsKept
<1> QED  BY <1>3, <1>4, <1>5, <1>6, <1>7, <1>8, <1>9, Requests DEF IInv

LEMMA CreateAgentStep ==
  ASSUME IInv, NEW c \in Clients, CreateAgent(c)
  PROVE  IInv'
<1>1. PICK a \in Agents : InsertAgent(c, a)  BY DEF CreateAgent
<1>2. "insert" \in Steps  BY DEF Steps
<1>3. req[c].id # NoTeam /\ ~At(c, "parts")
  BY <1>2, AtRequest DEF CreateAgent, RequestOK, StepsOK, Unresolved, At
<1> QED  BY <1>1, <1>3, AgentStep, ReturnOK, IdleOK DEF CreateAgent

LEMMA SeedAgentsStep ==
  ASSUME IInv, NEW c \in Clients, SeedAgents(c)
  PROVE  IInv'
<1>1. {"agents", "findAgent", "agent", "findTasks"} \subseteq Seeding \cap Steps
  BY DEF Seeding, Steps
<1>2. req[c] \in RequestType /\ RequestOK(req[c])  BY Typed DEF IInv
<1> DEFINE missing == req[c].missing
<1>3. missing \subseteq Agents  BY <1>2 DEF RequestType
<1>4. ASSUME At(c, "agents"), UNCHANGED agents,
             req' = [req EXCEPT ![c].missing = {a \in Agents :
                       [team |-> req[c].id, name |-> a] \notin agents},
                                ![c].step = "findAgent"]
      PROVE  IInv'
  <2> DEFINE new == {a \in Agents : [team |-> req[c].id, name |-> a] \notin agents}
             p == [req[c] EXCEPT !.missing = new, !.step = "findAgent"]
  <2>1. /\ p \in RequestType /\ p.op = req[c].op /\ p.name = req[c].name
        /\ p.id = req[c].id /\ p.step = "findAgent"
    BY <1>1, <1>2 DEF RequestType
  <2>2. req' = [req EXCEPT ![c] = p]  BY <1>2, <1>4 DEF RequestType
  <2> HIDE DEF p
  <2>3. RequestOK(p) /\ Moves(c, p) /\ ~At(c, "parts")
    BY <1>1, <1>4, <2>1, <2>2, SeederGoes
  <2> QED  BY <1>4, <2>1, <2>3, QuietStep DEF SeedAgents, rows
<1>5. ASSUME At(c, "findAgent"), Goto(c, "findTasks"), UNCHANGED agents PROVE IInv'
  <2> DEFINE p == [req[c] EXCEPT !.step = "findTasks"]
  <2>1. /\ Moves(c, p) /\ p \in RequestType /\ p.op = req[c].op /\ p.name = req[c].name
        /\ p.id = req[c].id /\ p.step = "findTasks"
    BY <1>1, <1>2, <1>5, GotoOK DEF RequestType
  <2> HIDE DEF p
  <2>2. RequestOK(p) /\ ~At(c, "parts")  BY <1>1, <1>5, <2>1, SeederGoes
  <2> QED  BY <1>5, <2>1, <2>2, QuietStep DEF SeedAgents, rows
<1>6. ASSUME NEW a \in missing, At(c, "findAgent"), UNCHANGED agents,
             Find(c, "agent", [req[c] EXCEPT !.missing = missing \ {a}])
      PROVE  IInv'
  <2> DEFINE p == [req[c] EXCEPT !.missing = missing \ {a}]
  <2>1. /\ p \in RequestType /\ p.op = req[c].op /\ p.name = req[c].name
        /\ p.id = req[c].id /\ p.step = req[c].step
    BY <1>2, <1>3 DEF RequestType
  <2> HIDE DEF p
  <2>2. RequestOK(p)  BY <1>1, <1>6, <2>1, SeederGoes DEF At
  <2>3. Busy(c) /\ <<req[c].step, "agent">> \in Lookups  BY <1>6 DEF At, Lookups
  <2>4. "agent" \in Steps  BY DEF Steps
  <2>5. Find(c, "agent", p)  BY <1>6 DEF p
  <2> QED  BY <1>6, <2>1, <2>2, <2>3, <2>4, <2>5, FindStep DEF SeedAgents, rows
<1>7. ASSUME NEW a \in missing, At(c, "agent"), InsertAgent(c, a) \/ UNCHANGED agents,
             req' = [req EXCEPT ![c].missing = missing \ {a}, ![c].step = "findAgent"]
      PROVE  IInv'
  <2> DEFINE p == [req[c] EXCEPT !.missing = missing \ {a}, !.step = "findAgent"]
  <2>1. /\ p \in RequestType /\ p.op = req[c].op /\ p.name = req[c].name
        /\ p.id = req[c].id /\ p.step = "findAgent"
    BY <1>1, <1>2, <1>3 DEF RequestType
  <2>2. req' = [req EXCEPT ![c] = p]  BY <1>2, <1>7 DEF RequestType
  <2> HIDE DEF p
  <2>3. RequestOK(p) /\ Moves(c, p) /\ ~At(c, "parts")
    BY <1>1, <1>7, <2>1, <2>2, SeederGoes
  <2>4. req[c].id # NoTeam
    BY <1>2, <1>7 DEF RequestOK, StepsOK, Unresolved, At
  <2>5. a \in Agents  BY <1>3
  <2> QED  BY <1>7, <2>1, <2>3, <2>4, <2>5, AgentStep DEF SeedAgents
<1> QED  BY <1>4, <1>5, <1>6, <1>7 DEF SeedAgents

(* The id of the new task is larger than all, so that no comment under way *)
(* is about it; a seeder's task is of a team without an older welcome.     *)
LEMMA TaskStep ==
  ASSUME IInv, NEW c \in Clients, NEW welcome \in BOOLEAN, InsertTask(c, welcome),
         Return(c), ~At(c, "parts"), req[c].id # NoTeam,
         welcome => At(c, "task"),
         UNCHANGED <<driver, registry, notes, agents, workflows, parts, cut>>
  PROVE  IInv'
<1> DEFINE new == [id |-> numbered + 1, team |-> req[c].id, welcome |-> welcome]
<1> USE DEF registry
<1>1. /\ req' \in [Clients -> RequestType] /\ \A d \in Clients \ {c} : req'[d] = req[d]
      /\ req[c].id \in Ids /\ req[c].id \in Nat /\ RequestOK(req[c])
  BY Typed, IdleOK, Numbers DEF Return, IInv, RequestType
<1>2. /\ tasks' = tasks \/ tasks' = tasks \cup {new}
      /\ numbered' = numbered + 1 /\ numbered < MaxTasks
  BY DEF InsertTask
<1>3. numbered + 1 \in Tasks /\ numbered \in Nat /\ numbered + 1 \in 0..MaxTasks
  BY <1>2, Typed, TeamAssumption DEF Tasks, IInv
<1>4. TypeOK'
  <2>1. tasks' \subseteq [id : Tasks, team : Ids, welcome : BOOLEAN]
    BY <1>1, <1>2, <1>3, Typed DEF IInv
  <2> QED  BY <1>1, <1>2, <1>3, <2>1 DEF IInv, TypeOK, RequestType
<1>5. \A r \in tasks : r.id \in Nat /\ r.id <= numbered /\ r.team \in Nat /\ r.team <= made
  BY Typed, Numbers, TeamAssumption DEF IInv, StoreOK, TaskIds, Tasks
<1>6. req[c].id <= made  BY <1>1 DEF RequestOK, IdOK
<1>7. TaskIds'
  <2>1. \A r \in tasks' : r.id <= numbered' /\ r.team <= made'
    BY <1>1, <1>2, <1>3, <1>5, <1>6, Typed DEF IInv
  <2>2. \A r \in tasks : r.id # numbered + 1  BY <1>3, <1>5
  <2>3. \A r, s \in tasks' : r.id = s.id => r = s
    BY <1>2, <2>2 DEF IInv, StoreOK, TaskIds
  <2> QED  BY <2>1, <2>3 DEF TaskIds
<1>8. IdsGiven'  BY DEF IInv, StoreOK, IdsGiven
<1>9. welcome => /\ req[c].step = "task" /\ req[c].name = Default /\ req[c].op = "seed"
  BY <1>1 DEF At, RequestOK, StepsOK, Seeding
<1>10. WelcomeIds'
  BY <1>1, <1>2, <1>9 DEF IInv, StoreOK, WelcomeIds, RequestOK, IdOK
<1>11. RowsStep /\ (NoWelcome \/ req[c].op = "seed")
  <2>1. \A r \in tasks' : r \in tasks \/ numbered < r.id  BY <1>2, <1>3
  <2>2. made <= made' /\ numbered <= numbered'  BY <1>2, <1>3, Typed DEF IInv
  <2> QED  BY <1>2, <1>9, <2>1, <2>2 DEF RowsStep, NoWelcome
<1>12. RemovedWithData'
  <2> SUFFICES ASSUME driver = "postgres" PROVE RemovedWithData'
    BY DEF RemovedWithData
  <2>1. Allows(Live(req[c].id)) => Live(req[c].id)
    BY EnforcedThere DEF Allows
  <2>2. tasks' = tasks \/ Live(req[c].id)  BY <2>1 DEF InsertTask
  <2>3. tasks \subseteq tasks'  BY <1>2
  <2> QED  BY <1>2, <2>2, <2>3 DEF IInv, RemovedWithData, Live, Row
<1>13. WelcomeOnce'
  <2> SUFFICES ASSUME driver = "sqlite" PROVE WelcomeOnce'  BY DEF WelcomeOnce
  <2>1. welcome => \A r \in tasks : r.welcome => r.team < req[c].id
    BY <1>1, <1>9 DEF RequestOK, SeederOK
  <2>2. welcome => \A r \in tasks : r.welcome => r.team # req[c].id
    BY <1>1, <1>5, <2>1
  <2> QED  BY <1>2, <2>2 DEF IInv, WelcomeOnce
<1>14. WorkflowWhole'  BY <1>1, WorkflowsKept
<1>15. Moves(c, Idle)  BY ReturnOK
<1> HIDE DEF new
<1>16. StoreOK'  BY <1>7, <1>8, <1>10 DEF StoreOK
<1> QED  BY <1>4, <1>11, <1>12, <1>13, <1>14, <1>15, <1>16, IdleOK, Requests DEF IInv

LEMMA CreateTaskStep ==
  ASSUME IInv, NEW c \in Clients, CreateTask(c)
  PROVE  IInv'
<1>1. "insert" \in Steps  BY DEF Steps
<1>2. req[c].id # NoTeam /\ ~At(c, "parts")
  BY <1>1, AtRequest DEF CreateTask, RequestOK, StepsOK, Unresolved, At
<1> QED  BY <1>2, TaskStep DEF CreateTask

LEMMA SeedTaskStep ==
  ASSUME IInv, NEW c \in Clients, SeedTask(c)
  PROVE  IInv'
<1>1. {"tasks", "task", "findTask"} \subseteq Steps  BY DEF Steps
<1>2. CASE At(c, "tasks") /\ UNCHANGED <<tasks, numbered>>
  <2>1. req[c] \in RequestType /\ RequestOK(req[c]) /\ req[c].step = "tasks"
    BY <1>1, <1>2, AtRequest
  <2>2. ~At(c, "parts")  BY <2>1 DEF At
  <2>3. CASE \E r \in tasks : r.team = req[c].id /\ Return(c)
    BY <1>2, <2>2, <2>3, IdleOK, ReturnOK, QuietStep DEF SeedTask, rows
  <2>4. CASE ~(\E r \in tasks : r.team = req[c].id) /\ Goto(c, "findTask")
    <3> DEFINE p == [req[c] EXCEPT !.step = "findTask"]
    <3>1. Moves(c, p) /\ p \in RequestType  BY <1>1, <2>4, GotoOK
    <3>2. /\ p.op = req[c].op /\ p.name = req[c].name /\ p.id = req[c].id
          /\ p.step = "findTask"
      BY <2>1 DEF RequestType
    <3>3. StepsOK(p) /\ IdOK(p) /\ NoteOK(p)
      BY <2>1, <3>2 DEF RequestOK, StepsOK, IdOK, NoteOK, Unresolved, Seeding
    <3>4. req[c].id \in Nat
      BY <2>1, Numbers DEF RequestOK, StepsOK, Unresolved, RequestType
    <3>5. \A r \in tasks : r.team \in Nat  BY Typed, Numbers DEF IInv
    <3>6. driver = "sqlite" =>
            \A r \in tasks : r.welcome => r.team <= req[c].id
      BY <2>1 DEF RequestOK, SeederOK
    <3>7. driver = "sqlite" =>
            \A r \in tasks : r.welcome => r.team < req[c].id
      BY <2>4, <3>4, <3>5, <3>6
    <3>8. SeederOK(p)  BY <3>2, <3>7 DEF SeederOK
    <3> HIDE DEF p
    <3> QED  BY <1>2, <2>2, <3>1, <3>3, <3>8, QuietStep DEF SeedTask, rows, RequestOK
  <2> QED  BY <1>2, <2>1, <2>3, <2>4 DEF SeedTask, At
<1>3. CASE At(c, "task") /\ InsertTask(c, TRUE) /\ Return(c)
  <2>1. req[c].id # NoTeam /\ ~At(c, "parts")
    BY <1>1, <1>3, AtRequest DEF RequestOK, StepsOK, Unresolved, At
  <2> QED  BY <1>3, <2>1, TaskStep DEF SeedTask
<1> QED  BY <1>2, <1>3 DEF SeedTask

LEMMA CreateTaskCommentStep ==
  ASSUME IInv, NEW c \in Clients, CreateTaskComment(c)
  PROVE  IInv'
<1> USE DEF registry
<1>1. "insert" \in Steps  BY DEF Steps
<1>2. /\ req[c] \in RequestType /\ RequestOK(req[c]) /\ req[c].step = "insert"
      /\ req[c].op = "note" /\ ~At(c, "parts")
  BY <1>1, AtRequest DEF CreateTaskComment, At
<1>3. req[c].id \in Ids /\ req[c].task \in Tasks
  BY <1>2, TeamAssumption DEF RequestType, RequestOK, StepsOK, Unresolved, Tasks
<1>4. req' \in [Clients -> RequestType] /\ \A d \in Clients \ {c} : req'[d] = req[d]
  BY Typed, IdleOK DEF CreateTaskComment, Return, IInv
<1> DEFINE new == [task |-> req[c].task, team |-> req[c].id]
           allowed == Live(req[c].id) /\ \E r \in tasks : r.id = req[c].task
<1>5. notes' = notes \/ (notes' = notes \cup {new} /\ Allows(allowed))
  BY DEF CreateTaskComment
<1>6. TypeOK'
  <2>1. notes' \subseteq [task : Tasks, team : Ids]
    BY <1>3, <1>5 DEF IInv, TypeOK
  <2> QED  BY <1>4, <2>1 DEF IInv, TypeOK, RequestType, CreateTaskComment
<1>7. StoreOK' /\ WelcomeOnce'
  BY DEF CreateTaskComment, IInv, StoreOK, IdsGiven, TaskIds, WelcomeIds, WelcomeOnce
<1>8. RowsStep /\ NoWelcome
  BY Typed DEF CreateTaskComment, IInv, RowsStep, NoWelcome
<1>9. RemovedWithData'
  <2> SUFFICES ASSUME driver = "postgres" PROVE RemovedWithData'
    BY DEF RemovedWithData, CreateTaskComment
  <2>1. Allows(allowed) => allowed  BY EnforcedThere DEF Allows
  <2>2. allowed => Row(req[c].task, req[c].id)
    BY <1>2 DEF RequestOK, NoteOK, Row
  <2>3. \A r \in notes' : Live(r.team) /\ Row(r.task, r.team)
    BY <1>5, <2>1, <2>2 DEF IInv, RemovedWithData
  <2> QED  BY <2>3 DEF CreateTaskComment, IInv, RemovedWithData, Live, Row
<1>10. WorkflowWhole'  BY <1>2, <1>4, WorkflowsKept DEF CreateTaskComment
<1> QED
  BY <1>6, <1>7, <1>8, <1>9, <1>10, ReturnOK, IdleOK, Requests
  DEF IInv, CreateTaskComment

(* A new team: its id is larger than all that rows and requests carry.     *)
LEMMA TeamStep ==
  ASSUME IInv, NEW c \in Clients, NEW n \in Names, team[n] = NoTeam, made < MaxTeams,
         made' = made + 1, team' = [team EXCEPT ![n] = made + 1],
         NEW q \in RequestType, Moves(c, q), RequestOK(q), ~At(c, "parts"),
         UNCHANGED <<driver, numbered, rows, parts, cut>>
  PROVE  IInv'
<1> USE DEF rows
<1>1. req' \in [Clients -> RequestType] /\ \A d \in Clients \ {c} : req'[d] = req[d]
  BY Typed DEF Moves, IInv
<1>2. /\ made \in Nat /\ made + 1 \in Ids /\ made + 1 \in 0..MaxTeams /\ made + 1 # NoTeam
      /\ made < made + 1
  BY Typed, TeamAssumption DEF Ids, IInv
<1>3. /\ team' \in [Names -> Ids \cup {NoTeam}] /\ team'[n] = made + 1
      /\ \A m \in Names \ {n} : team'[m] = team[m]
  BY <1>2, Typed DEF IInv
<1>4. TypeOK'  BY <1>1, <1>2, <1>3 DEF IInv, TypeOK, RequestType
<1>5. IdsGiven'
  <2>1. \A m \in Names : team[m] # NoTeam => team[m] \in Nat /\ team[m] <= made
    BY Typed, Numbers DEF IInv, StoreOK, IdsGiven
  <2>2. \A m \in Names : team[m] # made + 1
    BY <1>2, <2>1
  <2>3. \A m \in Names : team'[m] # NoTeam => team'[m] <= made'
    BY <1>2, <1>3, <2>1
  <2>4. \A m, k \in Names : team'[m] # NoTeam /\ team'[m] = team'[k] => m = k
    BY <1>3, <2>2 DEF IInv, StoreOK, IdsGiven
  <2> QED  BY <2>3, <2>4 DEF IdsGiven
<1>6. TaskIds' /\ WelcomeIds'
  <2>1. \A r \in tasks : r.team \in Nat /\ r.team <= made /\ r.team <= made'
    BY <1>2, Typed, Numbers DEF IInv, StoreOK, TaskIds
  <2> QED  BY <1>2, <1>3, <2>1, TeamAssumption
       DEF IInv, StoreOK, TaskIds, WelcomeIds
<1>7. RowsStep /\ NoWelcome
  <2>1. \A m \in Names : team'[m] \in {team[m], NoTeam} \/ (team'[m] = made' /\ made < made')
    BY <1>2, <1>3
  <2> QED  BY <1>2, <2>1, Typed DEF IInv, RowsStep, NoWelcome
<1>8. RequestOK(q)'
  <2>1. q.op # "seed" \/ NoWelcome  BY <1>7
  <2> QED  BY <1>4, <1>7, OtherRequest DEF IInv
<1>9. RemovedWithData'
  <2>1. \A i \in Ids : Live(i) => Live(i)'
    BY <1>3, Numbers DEF Live
  <2>2. /\ \A r \in tasks \cup agents \cup notes : r.team \in Ids
        /\ workflows \subseteq Ids
    BY DEF IInv, TypeOK
  <2> QED  BY <2>1, <2>2 DEF IInv, RemovedWithData, Row
<1>10. WelcomeOnce'  BY DEF IInv, WelcomeOnce
<1>11. WorkflowWhole'  BY <1>1, WorkflowsKept
<1> QED
  BY <1>4, <1>5, <1>6, <1>7, <1>8, <1>9, <1>10, <1>11, Requests DEF IInv, StoreOK

LEMMA CreateTeamStep ==
  ASSUME IInv, NEW c \in Clients, NEW n \in Names, CreateTeam(c, n)
  PROVE  IInv'
<1>1. req[c] \in RequestType /\ RequestOK(req[c])  BY Typed DEF IInv
<1>2. Moves(c, req[c])  BY Typed DEF CreateTeam, Moves, IInv
<1>3. ~At(c, "parts")  BY DEF CreateTeam, At
<1> QED  BY <1>1, <1>2, <1>3, TeamStep DEF CreateTeam

LEMMA SeedTeamStep ==
  ASSUME IInv, NEW c \in Clients, SeedTeam(c)
  PROVE  IInv'
<1>1. {"create", "findAgents"} \subseteq Seeding \cap Steps  BY DEF Seeding, Steps
<1>2. req[c] \in RequestType /\ req[c].step = "create" /\ At(c, "create")
  BY <1>1, AtRequest DEF SeedTeam
<1>3. CASE team[Default] = NoTeam
  <2> DEFINE p == [req[c] EXCEPT !.step = "findAgents"]
  <2>1. Moves(c, p) /\ p \in RequestType  BY <1>1, <1>3, GotoOK DEF SeedTeam
  <2>2. /\ p.op = req[c].op /\ p.name = req[c].name /\ p.id = req[c].id
        /\ p.step = "findAgents"
    BY <1>2 DEF RequestType
  <2> HIDE DEF p
  <2>3. RequestOK(p) /\ ~At(c, "parts")  BY <1>1, <1>2, <2>1, <2>2, SeederGoes
  <2> QED  BY <1>3, <2>1, <2>3, TeamAssumption, TeamStep DEF SeedTeam
<1>4. CASE team[Default] # NoTeam
  <2>1. ~At(c, "parts")  BY <1>2 DEF At
  <2> QED  BY <1>4, <2>1, IdleOK, ReturnOK, QuietStep DEF SeedTeam
<1> QED  BY <1>3, <1>4

(* The rows of a team go with it, or stay where nothing is enforced; those *)
(* of other teams stay.                                                    *)
LEMMA DeleteTeamStep ==
  ASSUME IInv, NEW c \in Clients, DeleteTeam(c)
  PROVE  IInv'
<1> USE DEF rows
<1>1. "delete" \in Steps  BY DEF Steps
<1>2. /\ req[c] \in RequestType /\ ~At(c, "parts") /\ req[c].id # NoTeam
  BY <1>1, AtRequest DEF DeleteTeam, At, RequestOK, StepsOK, Unresolved
<1>3. req' \in [Clients -> RequestType] /\ \A d \in Clients \ {c} : req'[d] = req[d]
  BY Typed, IdleOK DEF DeleteTeam, Return, IInv
<1>4. /\ team' \in [Names -> Ids \cup {NoTeam}]
      /\ \A n \in Names : team'[n] = IF team[n] = req[c].id THEN NoTeam ELSE team[n]
  BY Typed DEF DeleteTeam, IInv
<1>5. /\ tasks' \subseteq tasks /\ notes' \subseteq notes /\ agents' \subseteq agents
      /\ workflows' \subseteq workflows
  BY DEF DeleteTeam
<1>6. TypeOK'  BY <1>3, <1>4, <1>5 DEF DeleteTeam, IInv, TypeOK, RequestType
<1>7. IdsGiven'  BY <1>4 DEF DeleteTeam, IInv, StoreOK, IdsGiven
<1>8. TaskIds' /\ WelcomeIds' /\ WelcomeOnce'
  BY <1>4, <1>5, TeamAssumption
  DEF DeleteTeam, IInv, StoreOK, TaskIds, WelcomeIds, WelcomeOnce
<1>9. RowsStep /\ NoWelcome
  BY <1>4, <1>5, Typed DEF DeleteTeam, IInv, RowsStep, NoWelcome
<1>10. RemovedWithData'
  <2> SUFFICES ASSUME driver = "postgres" PROVE RemovedWithData'
    BY DEF RemovedWithData, DeleteTeam
  <2>1. /\ tasks' = {r \in tasks : r.team # req[c].id}
        /\ notes' = {r \in notes : r.team # req[c].id /\ ~Row(r.task, req[c].id)}
        /\ agents' = {r \in agents : r.team # req[c].id}
        /\ workflows' = workflows \ {req[c].id}
    BY EnforcedThere DEF DeleteTeam
  <2>2. \A i : Live(i) /\ i # req[c].id => Live(i)'
    BY <1>4 DEF Live
  <2>3. \A t, i : Row(t, i) /\ i # req[c].id => Row(t, i)'
    BY <2>1 DEF Row
  <2>4. \A r \in tasks' \cup agents' : Live(r.team)'
    BY <2>1, <2>2 DEF IInv, RemovedWithData
  <2>5. \A i \in workflows' : Live(i)'
    BY <2>1, <2>2 DEF IInv, RemovedWithData
  <2>6. \A r \in notes' : Live(r.team)' /\ Row(r.task, r.team)'
    BY <2>1, <2>2, <2>3 DEF IInv, RemovedWithData
  <2> QED  BY <2>4, <2>5, <2>6 DEF RemovedWithData, Live, Row
<1>11. WorkflowWhole'  BY <1>2, <1>3, <1>5, WorkflowsKept DEF DeleteTeam
<1> QED
  BY <1>6, <1>7, <1>8, <1>9, <1>10, <1>11, ReturnOK, IdleOK, Requests
  DEF IInv, StoreOK, DeleteTeam

-----------------------------------------------------------------------------
(* The default workflow.                                                   *)

LEMMA CreateWorkflowStep ==
  ASSUME IInv, NEW c \in Clients, CreateWorkflow(c)
  PROVE  IInv'
<1> USE DEF registry
<1>1. "insert" \in Steps /\ "parts" \in Steps  BY DEF Steps
<1>2. /\ req[c] \in RequestType /\ RequestOK(req[c]) /\ req[c].step = "insert"
      /\ req[c].op = "workflow" /\ ~At(c, "parts")
  BY <1>1, AtRequest DEF CreateWorkflow, At
<1>3. req[c].id \in Ids  BY <1>2 DEF RequestType, RequestOK, StepsOK, Unresolved
<1>4. CASE workflows' = workflows /\ Return(c)
  BY <1>2, <1>4, IdleOK, ReturnOK, QuietStep DEF CreateWorkflow, rows
<1>5. CASE /\ workflows' = workflows \cup {req[c].id} /\ Goto(c, "parts")
           /\ Allows(Live(req[c].id))
  <2>1. PICK p \in RequestType : p = [req[c] EXCEPT !.step = "parts"] /\ Moves(c, p)
    BY <1>1, <1>5, GotoOK
  <2>2. /\ p.op = "workflow" /\ p.name = req[c].name /\ p.id = req[c].id
        /\ p.step = "parts" /\ p.task = req[c].task
    BY <1>2, <2>1 DEF RequestType
  <2>3. RequestOK(p)
    BY <1>2, <2>2
    DEF RequestOK, StepsOK, IdOK, NoteOK, SeederOK, Unresolved, Seeding
  <2>4. /\ req' \in [Clients -> RequestType] /\ req'[c] = p
        /\ \A d \in Clients \ {c} : req'[d] = req[d]
    BY <2>1, Typed DEF Moves, IInv
  <2>5. TypeOK'  BY <1>3, <1>5, <2>4 DEF CreateWorkflow, IInv, TypeOK, RequestType
  <2>6. StoreOK' /\ WelcomeOnce'
    BY DEF CreateWorkflow, IInv, StoreOK, IdsGiven, TaskIds, WelcomeIds, WelcomeOnce
  <2>7. RowsStep /\ NoWelcome
    BY Typed DEF CreateWorkflow, IInv, RowsStep, NoWelcome
  <2>8. RequestOK(p)'
    BY <2>3 DEF CreateWorkflow, RequestOK, StepsOK, IdOK, NoteOK, SeederOK
  <2>9. RemovedWithData'
    <3> SUFFICES ASSUME driver = "postgres" PROVE RemovedWithData'
      BY DEF RemovedWithData, CreateWorkflow
    <3>1. Live(req[c].id)  BY <1>5, EnforcedThere DEF Allows
    <3> QED  BY <1>5, <3>1 DEF CreateWorkflow, IInv, RemovedWithData, Live, Row
  <2>10. WorkflowWhole'
    <3>1. At(c, "parts")' /\ req'[c].id = req[c].id  BY <2>2, <2>4 DEF At, Busy
    <3> QED  BY <1>2, <1>5, <2>4, <3>1
         DEF CreateWorkflow, IInv, WorkflowWhole, At, Busy
  <2> QED
    BY <2>1, <2>5, <2>6, <2>7, <2>8, <2>9, <2>10, Requests DEF IInv
<1> QED  BY <1>4, <1>5 DEF CreateWorkflow

LEMMA SeedStagesStep ==
  ASSUME IInv, NEW c \in Clients, SeedStages(c)
  PROVE  IInv'
<1> USE DEF registry, rows
<1>1. "parts" \in Steps  BY DEF Steps
<1>2. req[c] \in RequestType /\ RequestOK(req[c]) /\ req[c].step = "parts"
  BY <1>1, AtRequest DEF SeedStages
<1>3. req[c].id \in Ids  BY <1>2 DEF RequestType, RequestOK, StepsOK, Unresolved
<1>4. parts \in [Ids -> SUBSET Parts]  BY DEF IInv, TypeOK
<1>5. PICK q \in RequestType :
        /\ Moves(c, q) /\ q \in {req[c], Idle} /\ RequestOK(q)
        /\ q = req[c] \/ (parts' = parts /\ parts[req[c].id] = Parts)
        /\ parts' \in [Ids -> SUBSET Parts]
        /\ \A i \in Ids : parts[i] \subseteq parts'[i]
  <2>1. CASE Parts \ parts[req[c].id] = {}
    <3>1. parts[req[c].id] = Parts  BY <1>3, <1>4, <2>1
    <3> QED  BY <1>4, <2>1, <3>1, IdleOK, ReturnOK DEF SeedStages
  <2>2. CASE Parts \ parts[req[c].id] # {}
    <3>1. req' = [req EXCEPT ![c] = req[c]]  BY <2>2, Typed DEF SeedStages, IInv
    <3>2. Moves(c, req[c])  BY <3>1 DEF Moves
    <3>3. PICK x \in Parts : parts' = [parts EXCEPT ![req[c].id] = @ \cup {x}]
      BY <2>2 DEF SeedStages
    <3> QED  BY <1>2, <1>3, <1>4, <3>2, <3>3
  <2> QED  BY <2>1, <2>2
<1>6. /\ req' \in [Clients -> RequestType] /\ req'[c] = q
      /\ \A d \in Clients \ {c} : req'[d] = req[d]
  BY <1>5, Typed DEF Moves, IInv
<1>7. TypeOK'  BY <1>5, <1>6 DEF SeedStages, IInv, TypeOK, RequestType
<1>8. StoreOK' /\ WelcomeOnce' /\ RemovedWithData'
  BY DEF SeedStages, IInv, StoreOK, IdsGiven, TaskIds, WelcomeIds, WelcomeOnce,
    RemovedWithData, Live, Row
<1>9. RowsStep /\ NoWelcome  BY Typed DEF SeedStages, IInv, RowsStep, NoWelcome
<1>10. RequestOK(q)'
  BY <1>5 DEF SeedStages, RequestOK, StepsOK, IdOK, NoteOK, SeederOK
<1>11. WorkflowWhole'
  <2> SUFFICES ASSUME NEW i \in workflows, i \notin cut
               PROVE  \/ parts'[i] = Parts
                      \/ \E d \in Clients : At(d, "parts")' /\ req'[d].id = i
    BY DEF SeedStages, WorkflowWhole
  <2>1. i \in Ids /\ parts[i] \subseteq parts'[i] /\ parts'[i] \subseteq Parts
    BY <1>5 DEF IInv, TypeOK
  <2>2. CASE parts[i] = Parts  BY <2>1, <2>2
  <2>3. CASE \E d \in Clients : At(d, "parts") /\ req[d].id = i
    <3>1. PICK d \in Clients : At(d, "parts") /\ req[d].id = i  BY <2>3
    <3> QED  BY <1>5, <1>6, <2>1, <3>1 DEF At, Busy
  <2> QED  BY <2>2, <2>3 DEF IInv, WorkflowWhole
<1> QED
  BY <1>5, <1>7, <1>8, <1>9, <1>10, <1>11, Requests DEF IInv

LEMMA AbortStep ==
  ASSUME IInv, NEW c \in Clients, Abort(c)
  PROVE  IInv'
<1> USE DEF registry, rows
<1>1. CASE ~At(c, "parts")
  BY <1>1, IdleOK, ReturnOK, QuietStep DEF Abort
<1>2. CASE At(c, "parts")
  <2>1. "parts" \in Steps  BY DEF Steps
  <2>2. req[c].id \in Ids
    BY <1>2, <2>1, AtRequest DEF RequestType, RequestOK, StepsOK, Unresolved
  <2>3. req' \in [Clients -> RequestType] /\ \A d \in Clients \ {c} : req'[d] = req[d]
    BY Typed, IdleOK DEF Abort, Return, IInv
  <2>4. cut' = cut \cup {req[c].id}  BY <1>2 DEF Abort
  <2>5. TypeOK'  BY <2>2, <2>3, <2>4 DEF Abort, IInv, TypeOK, RequestType
  <2>6. StoreOK' /\ WelcomeOnce' /\ RemovedWithData'
    BY DEF Abort, IInv, StoreOK, IdsGiven, TaskIds, WelcomeIds, WelcomeOnce,
      RemovedWithData, Live, Row
  <2>7. RowsStep /\ NoWelcome  BY Typed DEF Abort, IInv, RowsStep, NoWelcome
  <2>8. WorkflowWhole'
    BY <2>3, <2>4 DEF Abort, IInv, WorkflowWhole, At, Busy
  <2> QED  BY <2>5, <2>6, <2>7, <2>8, ReturnOK, IdleOK, Requests DEF IInv, Abort
<1> QED  BY <1>1, <1>2

-----------------------------------------------------------------------------
LEMMA InitIInv == Init => IInv
<1> SUFFICES ASSUME Init PROVE IInv  OBVIOUS
<1>1. TypeOK  BY TeamAssumption, IdleOK DEF Init, TypeOK, RequestType
<1>2. StoreOK  BY DEF Init, StoreOK, IdsGiven, TaskIds, WelcomeIds
<1>3. OneSeeder /\ \A c \in Clients : RequestOK(req[c])
  <2>1. \A c \in Clients : req[c] = Idle  BY DEF Init
  <2> QED  BY <2>1, IdleOK DEF OneSeeder, Idle
<1>4. RemovedWithData /\ WelcomeOnce /\ WorkflowWhole
  BY DEF Init, RemovedWithData, WelcomeOnce, WorkflowWhole
<1> QED  BY <1>1, <1>2, <1>3, <1>4 DEF IInv

LEMMA NextIInv ==
  ASSUME IInv, [Next]_vars
  PROVE  IInv'
<1>1. CASE UNCHANGED vars
  BY <1>1 DEF vars, registry, IInv, TypeOK, StoreOK, IdsGiven, TaskIds, WelcomeIds,
    OneSeeder, RequestOK, StepsOK, IdOK, NoteOK, SeederOK, RemovedWithData,
    WelcomeOnce, WorkflowWhole, Live, Row, At, Busy
<1>2. ASSUME NEW c \in Clients, Statement(c) PROVE IInv'
  BY <1>2, GetTeamByNameStep, DeleteTeamStep, CreateAgentStep, CreateTaskStep,
    GetTaskStep, CreateTaskCommentStep, CreateWorkflowStep, SeedStagesStep,
    SeedTeamStep, SeedAgentsStep, SeedTaskStep DEF Statement
<1>3. ASSUME NEW c \in Clients, SeedDemo(c) \/ Abort(c) PROVE IInv'
  BY <1>3, SeedDemoStep, AbortStep
<1>4. ASSUME NEW c \in Clients, NEW n \in Names,
             \/ CreateTeam(c, n) \/ RemoveTeam(c, n) \/ AddAgent(c, n)
             \/ AddTask(c, n) \/ InitWorkflow(c, n)
             \/ \E t \in Tasks : AddComment(c, n, t)
      PROVE  IInv'
  <2>1. CASE CreateTeam(c, n)  BY <2>1, CreateTeamStep
  <2>2. CASE \E t \in Tasks : AddComment(c, n, t)
    <3>1. PICK t \in Tasks : AddComment(c, n, t)  BY <2>2
    <3> QED  BY <3>1, RequestStep
  <2>3. CASE RemoveTeam(c, n) \/ AddAgent(c, n) \/ AddTask(c, n) \/ InitWorkflow(c, n)
    BY <2>3, RequestStep
  <2> QED  BY <1>4, <2>1, <2>2, <2>3
<1> QED  BY <1>1, <1>2, <1>3, <1>4 DEF Next

LEMMA Invariant == Spec => []IInv
BY InitIInv, NextIInv, PTL DEF Spec

(* Every row and every request is of the types above.                      *)
THEOREM TypeCorrect == Spec => []TypeOK
<1>1. IInv => TypeOK  BY DEF IInv
<1> QED  BY <1>1, Invariant, PTL

(* DeleteTeam on PostgreSQL: no row is left of a removed team, also not of *)
(* requests that looked its id up before.                                  *)
THEOREM NoRowsWithoutTeam == Spec => []RemovedWithData
<1>1. IInv => RemovedWithData  BY DEF IInv
<1> QED  BY <1>1, Invariant, PTL

(* SeedDemo on SQLite inserts one welcome task into a team, for every      *)
(* number of restarts, crashes and removals of the team.                   *)
THEOREM OneWelcome == Spec => []WelcomeOnce
<1>1. IInv => WelcomeOnce  BY DEF IInv
<1> QED  BY <1>1, Invariant, PTL

(* CreateWorkflow with seedDefaultWorkflowStages: of any number of         *)
(* requests one seeds the workflow of a team, and all of it unless it is   *)
(* cut short.                                                              *)
THEOREM OneSeedsTheWorkflow == Spec => []WorkflowWhole
<1>1. IInv => WorkflowWhole  BY DEF IInv
<1> QED  BY <1>1, Invariant, PTL

=============================================================================
