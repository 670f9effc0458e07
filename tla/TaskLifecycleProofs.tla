------------------------ MODULE TaskLifecycleProofs -------------------------
(***************************************************************************)
(* Safety of TaskLifecycle for every team, workflow, number of daemons and *)
(* clients, and every set of requests and faults.                          *)
(*                                                                         *)
(* Every action is a step of the table (TableStep: what one statement may  *)
(* do to a row) together with a step of one actor (ActorStep).  The first  *)
(* theorems follow from these two alone, so the actions are taken apart    *)
(* only once, in the lemmas ending in Step.  Two invariants come on top:   *)
(* AuthorInv, of the statements that name an agent, and PlanInv, of what   *)
(* each pending statement finds when it runs, under PipelineOnly.          *)
(***************************************************************************)
EXTENDS TaskLifecycle, DefaultWorkflow, SequenceTheorems, FiniteSetTheorems, TLAPS

(* The rows that actors have in hand exist, and a list of statements to    *)
(* execute is not empty.  Rows are never deleted here.                     *)
InFlight ==
  /\ \A t \in Tasks : ~Exists(t) => tasks[t].dri = NoAgent
  /\ \A d \in Daemons :
       /\ turn[d].pc # "idle" => turn[d].task \in Tasks /\ Exists(turn[d].task)
       /\ turn[d].pc = "writing" => turn[d].writes # <<>>
       /\ merger[d].writes # <<>> => merger[d].task \in Tasks /\ Exists(merger[d].task)
       /\ \A i \in 1..Len(merger[d].queue) : Exists(merger[d].queue[i].task)
  /\ \A c \in Clients :
       req[c].op # "none" =>
         req[c].task \in Tasks /\ Exists(req[c].task) /\ req[c].writes # <<>>

ActorsOK ==
  /\ turn \in [Daemons -> Turn]
  /\ merger \in [Daemons -> Merger]
  /\ req \in [Clients -> Request]
  /\ ops \in Nat

IInv == TypeOK /\ InFlight /\ OneTurnPerTask

(* What a statement may do to the table.                                   *)
TableStep ==
  /\ TableTypeOK'
  /\ \A t \in Tasks : Exists(t) => Exists(t)'
  /\ \A t \in Tasks : ~Exists(t)' => tasks'[t].dri = NoAgent
  /\ \A t \in Tasks : tasks[t].dri # NoAgent => tasks'[t].dri = tasks[t].dri
  /\ reopened \subseteq reopened'
  /\ \A t \in Tasks \ reopened' :
       tasks'[t].status = "todo" => tasks[t].status \in {"todo", "absent"}

(* Whom a task may be held by: a new holder took it from todo.             *)
HolderStep ==
  \A d \in Daemons, t \in Tasks :
    Holds(d, t)' =>
      \/ Holds(d, t)
      \/ /\ tasks[t].status = "todo" /\ tasks'[t].status # "todo"
         /\ \A e \in Daemons : Holds(e, t)' => e = d \/ Holds(e, t)

ActorStep == ActorsOK' /\ InFlight' /\ HolderStep

-----------------------------------------------------------------------------
(* The workflow and the statements.                                        *)

(* A lookup in the transitions gives a stage name or none.                 *)
LEMMA NextStageType ==
  \A s, o : NextStage(s, o) \in StageNames \cup {NoStage}
BY WorkflowAssumption DEF NextStage

LEMMA InitialStageType == InitialStage \in StageNames \cup {NoStage}
BY WorkflowAssumption DEF InitialStage, Sources

(* A statement leaves a row; it neither removes it nor changes its author. *)
LEMMA ApplyRow ==
  ASSUME NEW r \in Row, NEW w \in Stmt
  PROVE  /\ Apply(r, w) \in Row
         /\ Apply(r, w).dri = r.dri
         /\ r.status # "absent" => Apply(r, w).status # "absent"
<1> USE InitialStageType DEF Row, Stmt, Statuses
<1>1. CASE w.op = "stage"     BY <1>1 DEF Apply, UpdateTaskStage
<1>2. CASE w.op = "status"    BY <1>2 DEF Apply, UpdateTask
<1>3. CASE w.op = "assign"    BY <1>3 DEF Apply, AssignTask
<1>4. CASE w.op = "fail"
  <2>1. r.attempts \in Nat /\ r.attempts + 1 \in Nat  OBVIOUS
  <2>2. Apply(r, w) = [r EXCEPT !.status = "failed", !.attempts = r.attempts + 1]
    BY <1>4 DEF Apply, SetTaskFailed
  <2> QED  BY <2>1, <2>2
<1>5. CASE w.op = "cancel"    BY <1>5 DEF Apply, SetTaskCancelled
<1>6. CASE w.op = "clear_git" BY <1>6 DEF Apply, ClearTaskGitFields
<1>7. CASE w.op = "attach"    BY <1>7 DEF Apply, AttachWorkflow
<1>8. CASE w.op = "rewind"    BY <1>8 DEF Apply, RewindTask
<1>9. CASE w.op \in {"pick_reviewer", "pick_reviewer_if_in_review"}
  BY <1>9 DEF Apply
<1> QED  BY <1>1, <1>2, <1>3, <1>4, <1>5, <1>6, <1>7, <1>8, <1>9 DEF StmtOps

LEMMA StmtType ==
  /\ \A op \in StmtOps : Plain(op) \in Stmt
  /\ \A s \in StageNames \cup {NoStage} : StageTo(s) \in Stmt /\ RewindTo(s) \in Stmt
  /\ \A s \in Statuses, a \in Agents \cup {NoAgent} : StatusTo(s, a) \in Stmt
  /\ \A a \in Agents \cup {NoAgent} : AssignTo(a) \in Stmt
  /\ Done \in Stmt
BY DEF Stmt, StmtOps, Statuses, Plain, StageTo, RewindTo, StatusTo, AssignTo, Done

(* The statements of a turn.                                               *)
LEMMA MoveToType ==
  \A s \in StageNames \cup {NoStage} :
    MoveTo(s) \in Seq(Stmt) /\ (s # NoStage => MoveTo(s) # <<>>)
BY StmtType DEF MoveTo

LEMMA HandledType ==
  ASSUME NEW ws \in Seq(Stmt)
  PROVE  Handled(ws) \in Seq(Stmt) /\ Handled(ws) # <<>>
<1>1. Plain("pick_reviewer_if_in_review") \in Stmt  BY StmtType DEF StmtOps
<1> QED  BY <1>1, AppendProperties DEF Handled

-----------------------------------------------------------------------------
(* The table.                                                              *)

LEMMA TableUnchanged ==
  ASSUME TypeOK, InFlight, UNCHANGED tableVars
  PROVE  TableStep
BY DEF TypeOK, InFlight, tableVars, TableStep, TableTypeOK, Exists

(* A statement that failed: the rows are as they were.                     *)
LEMMA TableNoted ==
  ASSUME TypeOK, InFlight, UNCHANGED <<tasks, older, reopened>>,
         unmoved' \subseteq Tasks, misread' \subseteq Tasks
  PROVE  TableStep
BY DEF TypeOK, InFlight, TableStep, TableTypeOK, Exists

(* An UPDATE of an existing row that keeps the row and its author.         *)
LEMMA ExecuteStep ==
  ASSUME TypeOK, InFlight, NEW t \in Tasks, Exists(t), NEW row \in Row,
         row.status # "absent",
         tasks[t].dri # NoAgent => row.dri = tasks[t].dri,
         Execute(t, row)
  PROVE  TableStep /\ tasks'[t] = row
<1>1. /\ tasks' \in [Tasks -> Row] /\ tasks'[t] = row
      /\ \A u \in Tasks \ {t} : tasks'[u] = tasks[u]
  BY DEF Execute, TypeOK, TableTypeOK
<1>2. older' \subseteq Tasks \X Tasks
  BY DEF Execute, Touch, TypeOK, TableTypeOK
<1>3. /\ reopened \subseteq reopened' /\ reopened' \subseteq Tasks
      /\ row.status = "todo" /\ tasks[t].status # "todo" => t \in reopened'
  BY DEF Execute, TypeOK, TableTypeOK
<1>4. unmoved' \subseteq Tasks /\ misread' \subseteq Tasks
  BY DEF Execute, TypeOK, TableTypeOK
<1> QED  BY <1>1, <1>2, <1>3, <1>4 DEF TableStep, TableTypeOK, InFlight, Exists

-----------------------------------------------------------------------------
(* One actor moves and the others do not.                                  *)

LEMMA QueueTasks ==
  ASSUME NEW m \in Merger
  PROVE  \A i \in 1..Len(m.queue) : m.queue[i].task \in Tasks
<1>1. m.queue \in Seq(MergeItem)  BY DEF Merger
<1>2. \A i \in 1..Len(m.queue) : m.queue[i] \in MergeItem
  BY <1>1, ElementOfSeq
<1> QED  BY <1>2 DEF MergeItem

(* A turn that goes on with its task: it held it already.                  *)
LEMMA TurnMoves ==
  ASSUME IInv, TableStep, NEW d \in Daemons, NEW x \in Turn,
         turn' = [turn EXCEPT ![d] = x],
         x.pc # "idle" => x.task \in Tasks /\ Exists(x.task),
         x.pc = "writing" => x.writes # <<>>,
         x.pc \in {"claimed", "writing"} => Holds(d, x.task),
         UNCHANGED <<merger, req>>, ops' \in Nat
  PROVE  ActorStep
<1>1. ActorsOK'
  BY DEF IInv, TypeOK, ActorsOK
<1>2. InFlight'
  <2>1. \A e \in Daemons : \A i \in 1..Len(merger[e].queue) :
          merger[e].queue[i].task \in Tasks
    BY QueueTasks DEF IInv, TypeOK
  <2> QED  BY <2>1 DEF IInv, TypeOK, InFlight, TableStep, Exists
<1>3. HolderStep
  BY DEF IInv, TypeOK, HolderStep, Holds
<1> QED  BY <1>1, <1>2, <1>3 DEF ActorStep

LEMMA MergerMoves ==
  ASSUME IInv, TableStep, NEW d \in Daemons, NEW x \in Merger,
         merger' = [merger EXCEPT ![d] = x],
         x.writes # <<>> => x.task \in Tasks /\ Exists(x.task),
         \A i \in 1..Len(x.queue) : Exists(x.queue[i].task),
         UNCHANGED <<turn, req>>, ops' \in Nat
  PROVE  ActorStep
<1>1. ActorsOK'
  BY DEF IInv, TypeOK, ActorsOK
<1>2. InFlight'
  <2>1. \A e \in Daemons : \A i \in 1..Len(merger'[e].queue) :
          merger'[e].queue[i].task \in Tasks
    BY <1>1, QueueTasks DEF ActorsOK
  <2> QED  BY <2>1 DEF IInv, TypeOK, InFlight, TableStep, Exists
<1>3. HolderStep
  BY DEF IInv, TypeOK, HolderStep, Holds
<1> QED  BY <1>1, <1>2, <1>3 DEF ActorStep

LEMMA RequestMoves ==
  ASSUME IInv, TableStep, NEW c \in Clients, NEW x \in Request,
         req' = [req EXCEPT ![c] = x],
         x.op # "none" => x.task \in Tasks /\ Exists(x.task)' /\ x.writes # <<>>,
         UNCHANGED <<turn, merger>>, ops' \in Nat
  PROVE  ActorStep
<1>1. ActorsOK'
  BY DEF IInv, TypeOK, ActorsOK
<1>2. InFlight'
  <2>1. \A e \in Daemons : \A i \in 1..Len(merger[e].queue) :
          merger[e].queue[i].task \in Tasks
    BY QueueTasks DEF IInv, TypeOK
  <2> QED  BY <2>1 DEF IInv, TypeOK, InFlight, TableStep, Exists
<1>3. HolderStep
  BY DEF IInv, TypeOK, HolderStep, Holds
<1> QED  BY <1>1, <1>2, <1>3 DEF ActorStep

-----------------------------------------------------------------------------
(* The scheduler's actions.                                                *)

LEMMA TypeUse ==
  ASSUME IInv
  PROVE  /\ tasks \in [Tasks -> Row] /\ ops \in Nat
         /\ \A d \in Daemons : turn[d] \in Turn /\ merger[d] \in Merger
         /\ \A c \in Clients : req[c] \in Request
BY DEF IInv, TypeOK, TableTypeOK

LEMMA EmptyStmts == <<>> \in Seq(Stmt)
BY EmptySeq

LEMMA IdleTurnType == IdleTurn \in Turn
BY EmptyStmts DEF IdleTurn, Turn

LEMMA PickStep ==
  ASSUME IInv, NEW d \in Daemons, Pick(d)
  PROVE  TableStep /\ ActorStep
<1>1. TableStep  BY TableUnchanged DEF Pick, IInv, tableVars
<1>t. PICK t \in NextRunnable : \E a \in PickAssignee(tasks[t]) :
        turn' = [turn EXCEPT ![d] =
                  [IdleTurn EXCEPT !.pc = "picked", !.task = t, !.agent = a,
                                   !.wf = tasks[t].wf, !.stage = tasks[t].stage,
                                   !.worktree = tasks[t].worktree]]
  BY DEF Pick
<1>2. PICK a \in PickAssignee(tasks[t]) :
        turn' = [turn EXCEPT ![d] =
                  [IdleTurn EXCEPT !.pc = "picked", !.task = t, !.agent = a,
                                   !.wf = tasks[t].wf, !.stage = tasks[t].stage,
                                   !.worktree = tasks[t].worktree]]
  BY <1>t
<1>3. t \in Tasks /\ Exists(t)
  BY DEF NextRunnable, OldestOf, Runnable, Exists
<1>4. a \in Agents
  BY LifecycleAssumption DEF PickAssignee, PreferManager
<1>5. tasks[t] \in Row  BY <1>3, TypeUse
<1> DEFINE x == [IdleTurn EXCEPT !.pc = "picked", !.task = t, !.agent = a,
                                 !.wf = tasks[t].wf, !.stage = tasks[t].stage,
                                 !.worktree = tasks[t].worktree]
<1>6. x \in Turn /\ x.pc = "picked" /\ x.task = t
  BY <1>3, <1>4, <1>5, IdleTurnType DEF Turn, Row
<1>7. turn' = [turn EXCEPT ![d] = x]
  BY <1>2
<1>8. UNCHANGED <<merger, req>> /\ ops' \in Nat
  BY TypeUse DEF Pick
<1> QED  BY <1>1, <1>3, <1>6, <1>7, <1>8, TurnMoves

(* The claim is the only step that makes a holder.                         *)
LEMMA ClaimStep ==
  ASSUME IInv, NEW d \in Daemons, Claim(d)
  PROVE  TableStep /\ ActorStep
<1> DEFINE t == turn[d].task
           row == ClaimTask(tasks[t], turn[d].agent)
           x == [turn[d] EXCEPT !.pc = "claimed"]
<1>1. t \in Tasks /\ Exists(t) /\ tasks[t].status = "todo" /\ tasks[t] \in Row
  BY TypeUse DEF IInv, InFlight, Claim
<1>2. turn[d] \in Turn /\ turn[d].agent \in Agents \cup {NoAgent}
  BY TypeUse DEF Turn
<1>3. /\ row \in Row /\ row.status = "in_progress"
      /\ tasks[t].dri # NoAgent => row.dri = tasks[t].dri
  BY <1>1, <1>2 DEF ClaimTask, Row, Statuses
<1>4. TableStep /\ tasks'[t] = row
  <2>1. Execute(t, row)  BY DEF Claim
  <2> QED  BY <1>1, <1>3, <2>1, ExecuteStep DEF IInv
<1>5. x \in Turn /\ x.pc = "claimed" /\ x.task = t /\ x.writes = turn[d].writes
  BY <1>2 DEF Turn
<1>6. turn' = [turn EXCEPT ![d] = x] /\ UNCHANGED <<merger, req, ops>>
  BY DEF Claim
<1>7. ActorsOK'
  BY <1>5, <1>6 DEF IInv, TypeOK, ActorsOK
<1>8. InFlight'
  <2>1. \A e \in Daemons : \A i \in 1..Len(merger[e].queue) :
          merger[e].queue[i].task \in Tasks
    BY QueueTasks, TypeUse
  <2> QED  BY <1>1, <1>4, <1>5, <1>6, <2>1 DEF IInv, TypeOK, InFlight, TableStep, Exists
<1>9. HolderStep
  BY <1>1, <1>3, <1>4, <1>5, <1>6 DEF IInv, TypeOK, HolderStep, Holds
<1> QED  BY <1>4, <1>7, <1>8, <1>9 DEF ActorStep

LEMMA ClaimLostStep ==
  ASSUME IInv, NEW d \in Daemons, ClaimLost(d)
  PROVE  TableStep /\ ActorStep
<1>1. TableStep  BY TableUnchanged DEF ClaimLost, IInv, tableVars
<1>2. IdleTurn.pc = "idle"  BY DEF IdleTurn
<1>3. turn' = [turn EXCEPT ![d] = IdleTurn] /\ UNCHANGED <<merger, req>> /\ ops' \in Nat
  BY TypeUse DEF ClaimLost
<1> QED  BY <1>1, <1>2, <1>3, IdleTurnType, TurnMoves

(* The engine has decided what to write.                                   *)
LEMMA StartWritingStep ==
  ASSUME IInv, TableStep, NEW d \in Daemons, turn[d].pc = "claimed",
         NEW writes \in Seq(Stmt), writes # <<>>, StartWriting(d, writes),
         UNCHANGED <<merger, req>>, ops' \in Nat
  PROVE  ActorStep
<1> DEFINE x == [turn[d] EXCEPT !.pc = "writing", !.writes = writes]
<1>1. turn[d] \in Turn /\ turn[d].task \in Tasks /\ Exists(turn[d].task)
  BY TypeUse DEF IInv, InFlight
<1>2. x \in Turn /\ x.task = turn[d].task /\ x.writes = writes
  BY <1>1 DEF Turn
<1>3. turn' = [turn EXCEPT ![d] = x]
  BY DEF StartWriting
<1>4. Holds(d, x.task)  BY <1>2 DEF Holds
<1> QED  BY <1>1, <1>2, <1>3, <1>4, TurnMoves

LEMMA EndTurnStep ==
  ASSUME IInv, NEW d \in Daemons, turn[d].pc = "claimed",
         NEW writes \in Seq(Stmt), writes # <<>>, EndTurn(d, writes)
  PROVE  TableStep /\ ActorStep
<1>1. TableStep  BY TableUnchanged DEF EndTurn, IInv, tableVars
<1>2. StartWriting(d, writes) /\ UNCHANGED <<merger, req>> /\ ops' \in Nat
  BY TypeUse DEF EndTurn
<1> QED  BY <1>1, <1>2, StartWritingStep

LEMMA EnterInitialStageStep ==
  ASSUME IInv, NEW d \in Daemons, EnterInitialStage(d)
  PROVE  TableStep /\ ActorStep
<1> DEFINE t == turn[d].task
           row == UpdateTaskStage(tasks[t], InitialStage)
           x == [turn[d] EXCEPT !.stage = InitialStage]
<1>1. t \in Tasks /\ Exists(t) /\ tasks[t] \in Row /\ turn[d] \in Turn
  BY TypeUse DEF IInv, InFlight, EnterInitialStage
<1>2. row \in Row /\ row.status = tasks[t].status /\ row.dri = tasks[t].dri
  BY <1>1, InitialStageType DEF UpdateTaskStage, Row
<1>3. Execute(t, row)  BY DEF EnterInitialStage
<1>4. TableStep
  BY <1>1, <1>2, <1>3, ExecuteStep DEF IInv, Exists
<1>5. /\ x \in Turn /\ x.task = t /\ x.pc = "claimed"
  BY <1>1, InitialStageType DEF Turn, EnterInitialStage
<1>6. turn' = [turn EXCEPT ![d] = x] /\ UNCHANGED <<merger, req>> /\ ops' \in Nat
  BY TypeUse DEF EnterInitialStage
<1>7. Holds(d, x.task)  BY <1>5 DEF Holds, EnterInitialStage
<1> QED  BY <1>1, <1>4, <1>5, <1>6, <1>7, TurnMoves

LEMMA FailTypes ==
  /\ <<Plain("fail")>> \in Seq(Stmt) /\ <<Plain("fail")>> # <<>>
  /\ <<Plain("fail"), Plain("fail")>> \in Seq(Stmt)
  /\ <<Plain("fail"), Plain("fail")>> # <<>>
  /\ <<Done>> \in Seq(Stmt) /\ <<Done>> # <<>>
<1>1. Plain("fail") \in Stmt /\ Done \in Stmt  BY StmtType DEF StmtOps
<1> QED  BY <1>1

(* Whatever the engine decides, its list of statements is well formed.     *)
LEMMA EngineStep ==
  ASSUME IInv, NEW d \in Daemons,
         \/ LegacyTurn(d) \/ AgentTurn(d) \/ TerminalTurn(d)
         \/ AutoTurn(d) \/ MergeTurn(d) \/ WaitingTurn(d)
  PROVE  TableStep /\ ActorStep
<1> SUFFICES \E writes \in Seq(Stmt) : writes # <<>> /\ EndTurn(d, writes)
  <2>1. turn[d].pc = "claimed"
    BY DEF LegacyTurn, AgentTurn, TerminalTurn, AutoTurn, MergeTurn, WaitingTurn,
           InStageOfType
  <2> QED  BY <2>1, EndTurnStep
<1>1. \A s \in StageNames \cup {NoStage} :
        Handled(MoveTo(s)) \in Seq(Stmt) /\ Handled(MoveTo(s)) # <<>>
  BY MoveToType, HandledType
<1>2. CASE LegacyTurn(d)    BY <1>2, FailTypes DEF LegacyTurn
<1>3. CASE AgentTurn(d)     BY <1>1, <1>3, NextStageType, FailTypes DEF AgentTurn
<1>4. CASE TerminalTurn(d)  BY <1>4, FailTypes, HandledType DEF TerminalTurn
<1>5. CASE AutoTurn(d)      BY <1>1, <1>5, NextStageType DEF AutoTurn
<1>6. CASE MergeTurn(d)     BY <1>1, <1>6, NextStageType, FailTypes DEF MergeTurn
<1>7. CASE WaitingTurn(d)   BY <1>7, EmptyStmts, HandledType DEF WaitingTurn
<1> QED  BY <1>2, <1>3, <1>4, <1>5, <1>6, <1>7

(* The next statement of a list, for whichever actor executes it.          *)
LEMMA StatementStep1 ==
  ASSUME IInv, NEW t \in Tasks, Exists(t), NEW w \in Stmt,
         Execute(t, Apply(tasks[t], w))
  PROVE  TableStep
<1>1. tasks[t] \in Row /\ tasks[t].status # "absent"  BY TypeUse DEF Exists
<1> QED  BY <1>1, ApplyRow, ExecuteStep DEF IInv

LEMMA PickReviewerType ==
  ASSUME NEW r \in Row
  PROVE  PickReviewer(r) \subseteq Agents
BY LifecycleAssumption DEF PickReviewer

(* A turn goes on with the statements it has left.                         *)
LEMMA TurnGoesOnStep ==
  ASSUME IInv, TableStep, NEW d \in Daemons, turn[d].pc = "writing",
         NEW ws \in Seq(Stmt), TurnGoesOn(d, ws),
         UNCHANGED <<merger, req>>, ops' \in Nat
  PROVE  ActorStep
<1> DEFINE t == turn[d].task
           x == IF ws = <<>> THEN IdleTurn ELSE [turn[d] EXCEPT !.writes = ws]
<1>1. t \in Tasks /\ Exists(t) /\ turn[d] \in Turn
  BY TypeUse DEF IInv, InFlight
<1>2. /\ x \in Turn
      /\ x.pc # "idle" => x.task = t
      /\ x.pc = "writing" => x.writes # <<>>
  <2>1. CASE ws = <<>>  BY <2>1, IdleTurnType DEF IdleTurn
  <2>2. CASE ws # <<>>  BY <2>2, <1>1 DEF Turn
  <2> QED  BY <2>1, <2>2
<1>3. turn' = [turn EXCEPT ![d] = x]  BY DEF TurnGoesOn
<1>4. Holds(d, t)  BY DEF Holds
<1> QED  BY <1>1, <1>2, <1>3, <1>4, TurnMoves

LEMMA TurnWriteStep ==
  ASSUME IInv, NEW d \in Daemons, TurnWrite(d)
  PROVE  TableStep /\ ActorStep
<1> DEFINE t == turn[d].task
           w == Head(turn[d].writes)
<1>1. /\ t \in Tasks /\ Exists(t) /\ tasks[t] \in Row
      /\ turn[d] \in Turn /\ turn[d].pc = "writing"
      /\ turn[d].writes \in Seq(Stmt) /\ turn[d].writes # <<>>
  BY TypeUse DEF IInv, InFlight, TurnWrite, Turn
<1>2. w \in Stmt /\ Tail(turn[d].writes) \in Seq(Stmt)
  BY <1>1, HeadTailProperties
<1>3. PICK ws \in Seq(Stmt) : TurnGoesOn(d, ws)
  <2>1. \A a \in PickReviewer(tasks[t]) : <<AssignTo(a)>> \in Seq(Stmt)
    BY <1>1, PickReviewerType, StmtType
  <2> QED  BY <1>2, <2>1 DEF TurnWrite
<1>4. TableStep
  <2>1. CASE w.op = "pick_reviewer_if_in_review"
    BY <2>1, TableUnchanged DEF TurnWrite, IInv, tableVars
  <2>2. CASE w.op # "pick_reviewer_if_in_review"
    BY <2>2, <1>1, <1>2, StatementStep1 DEF TurnWrite
  <2> QED  BY <2>1, <2>2
<1>5. UNCHANGED <<merger, req>> /\ ops' \in Nat
  BY TypeUse DEF TurnWrite
<1> QED  BY <1>1, <1>3, <1>4, <1>5, TurnGoesOnStep

-----------------------------------------------------------------------------
(* The merge worker's actions.                                             *)

(* A row listed for merging exists.                                        *)
LEMMA ListedTasks ==
  ASSUME NEW s, NEW limit \in Nat, NEW q \in ListTasksInStage(s, limit)
  PROVE  \E n \in Nat : q \in [1..n -> InStage(s)]
<1>1. Cardinality(InStage(s)) \in Nat
  <2>1. InStage(s) \subseteq Tasks  BY DEF InStage
  <2>2. IsFiniteSet(InStage(s))  BY <2>1, TableAssumption, FS_Subset
  <2> QED  BY <2>2, FS_CardinalityType
<1> QED  BY <1>1 DEF ListTasksInStage

LEMMA ListMergingStep ==
  ASSUME IInv, NEW d \in Daemons, ListMerging(d)
  PROVE  TableStep /\ ActorStep
<1>1. TableStep  BY TableUnchanged DEF ListMerging, IInv, tableVars
<1> DEFINE batch(q) == [i \in DOMAIN q |->
                          [task |-> q[i], wf |-> tasks[q[i]].wf,
                           worktree |-> tasks[q[i]].worktree]]
<1>2. PICK q \in ListTasksInStage("Merging", MergeBatch) :
        merger' = [merger EXCEPT ![d].queue = batch(q)]
  BY DEF ListMerging
<1>3. PICK n \in Nat : q \in [1..n -> InStage("Merging")]
  BY LifecycleAssumption, ListedTasks
<1>4. \A i \in 1..n : q[i] \in Tasks /\ Exists(q[i]) /\ tasks[q[i]] \in Row
  BY <1>3, TypeUse DEF InStage
<1>5. batch(q) \in [1..n -> MergeItem]
  BY <1>3, <1>4 DEF MergeItem, Row
<1>6. batch(q) \in Seq(MergeItem) /\ Len(batch(q)) = n
  BY <1>5
<1> DEFINE x == [merger[d] EXCEPT !.queue = batch(q)]
<1>7. merger[d] \in Merger  BY TypeUse
<1>8. x \in Merger /\ x.queue = batch(q) /\ x.writes = <<>>
  BY <1>6, <1>7 DEF Merger, ListMerging
<1>9. \A i \in 1..Len(x.queue) : Exists(x.queue[i].task)
  BY <1>3, <1>4, <1>6, <1>8
<1>10. merger' = [merger EXCEPT ![d] = x] /\ UNCHANGED <<turn, req>> /\ ops' \in Nat
  BY <1>2, TypeUse DEF ListMerging
<1> QED  BY <1>1, <1>8, <1>9, <1>10, MergerMoves

(* processTask takes the head of the batch.                                *)
LEMMA ProcessStep ==
  ASSUME IInv, NEW d \in Daemons, NEW writes \in Seq(Stmt), Process(d, writes)
  PROVE  TableStep /\ ActorStep
<1> DEFINE q == merger[d].queue
           x == [queue |-> Tail(q), task |-> Head(q).task, writes |-> writes]
<1>1. TableStep  BY TableUnchanged DEF Process, IInv, tableVars
<1>2. q \in Seq(MergeItem) /\ q # <<>>
  BY TypeUse DEF Process, Merger
<1>3. /\ Head(q) \in MergeItem /\ Head(q) = q[1] /\ 1 \in 1..Len(q)
      /\ Tail(q) \in Seq(MergeItem) /\ Len(Tail(q)) = Len(q) - 1
      /\ \A i \in 1..Len(Tail(q)) : Tail(q)[i] = q[i + 1] /\ i + 1 \in 1..Len(q)
  BY <1>2, HeadTailProperties, LenProperties, EmptySeq
<1>4. \A i \in 1..Len(q) : Exists(q[i].task)
  BY DEF IInv, InFlight
<1>5. x \in Merger /\ x.task \in Tasks /\ Exists(x.task)
  BY <1>3, <1>4 DEF Merger, MergeItem
<1>6. \A i \in 1..Len(x.queue) : Exists(x.queue[i].task)
  BY <1>3, <1>4
<1>7. merger' = [merger EXCEPT ![d] = x] /\ UNCHANGED <<turn, req>> /\ ops' \in Nat
  BY TypeUse DEF Process
<1> QED  BY <1>1, <1>5, <1>6, <1>7, MergerMoves

LEMMA MergeTurnStep ==
  ASSUME IInv, NEW d \in Daemons, MergeSkip(d) \/ MergeOk(d) \/ MergeFail(d)
  PROVE  TableStep /\ ActorStep
<1>1. CASE MergeSkip(d)  BY <1>1, EmptyStmts, ProcessStep DEF MergeSkip
<1>2. CASE MergeOk(d)
  <2>1. StageTo("Done") \in Stmt /\ Done \in Stmt /\ Plain("clear_git") \in Stmt
    BY StmtType, TableAssumption DEF StmtOps
  <2>2. <<StageTo("Done"), Done, Plain("clear_git")>> \in Seq(Stmt)
    BY <2>1
  <2> QED  BY <1>2, <2>2, ProcessStep DEF MergeOk
<1>3. CASE MergeFail(d)  BY <1>3, FailTypes, ProcessStep DEF MergeFail
<1> QED  BY <1>1, <1>2, <1>3

LEMMA MergerGoesOnStep ==
  ASSUME IInv, TableStep, NEW d \in Daemons, merger[d].writes # <<>>,
         merger' = [merger EXCEPT ![d].writes = Tail(@)],
         UNCHANGED <<turn, req>>, ops' \in Nat
  PROVE  ActorStep
<1> DEFINE t == merger[d].task
           x == [merger[d] EXCEPT !.writes = Tail(merger[d].writes)]
<1>1. /\ merger[d] \in Merger /\ merger[d].writes \in Seq(Stmt)
      /\ t \in Tasks /\ Exists(t)
  BY TypeUse DEF IInv, InFlight, Merger
<1>2. Tail(merger[d].writes) \in Seq(Stmt)
  BY <1>1, HeadTailProperties
<1>3. x \in Merger /\ x.task = t /\ x.queue = merger[d].queue
  BY <1>1, <1>2 DEF Merger
<1>4. \A i \in 1..Len(x.queue) : Exists(x.queue[i].task)
  BY <1>3 DEF IInv, InFlight
<1>5. merger' = [merger EXCEPT ![d] = x]
  OBVIOUS
<1> QED  BY <1>1, <1>3, <1>4, <1>5, MergerMoves

LEMMA MergeWriteStep ==
  ASSUME IInv, NEW d \in Daemons, MergeWrite(d)
  PROVE  TableStep /\ ActorStep
<1> DEFINE t == merger[d].task
<1>1. /\ merger[d].writes \in Seq(Stmt)
      /\ merger[d].writes # <<>> /\ t \in Tasks /\ Exists(t)
  BY TypeUse DEF IInv, InFlight, MergeWrite, Merger
<1>2. Head(merger[d].writes) \in Stmt
  BY <1>1, HeadTailProperties
<1>3. TableStep  BY <1>1, <1>2, StatementStep1 DEF MergeWrite
<1>4. /\ merger' = [merger EXCEPT ![d].writes = Tail(@)]
      /\ UNCHANGED <<turn, req>> /\ ops' \in Nat
  BY TypeUse DEF MergeWrite
<1> QED  BY <1>1, <1>3, <1>4, MergerGoesOnStep

-----------------------------------------------------------------------------
(* Requests.                                                               *)

LEMMA IdleRequestType == IdleRequest \in Request /\ IdleRequest.op = "none"
BY EmptyStmts DEF IdleRequest, Request

(* A request is accepted for a row that exists.                            *)
LEMMA ServeStep ==
  ASSUME IInv, TableStep, NEW c \in Clients, NEW op \in AllOps,
         NEW t \in Tasks, Exists(t)', NEW writes \in Seq(Stmt),
         Serve(c, op, t, writes)
  PROVE  ActorStep
<1> DEFINE x == IF writes = <<>> THEN IdleRequest
                ELSE [op |-> op, task |-> t, writes |-> writes]
<1>1. x \in Request
  BY IdleRequestType DEF Request
<1>2. x.op # "none" => x.task \in Tasks /\ Exists(x.task)' /\ x.writes # <<>>
  BY IdleRequestType
<1>3. req' = [req EXCEPT ![c] = x] /\ UNCHANGED <<turn, merger>> /\ ops' \in Nat
  BY TypeUse DEF Serve
<1> QED  BY <1>1, <1>2, <1>3, RequestMoves

(* A handler that has read a row and written nothing yet.                  *)
LEMMA AcceptStep ==
  ASSUME IInv, NEW c \in Clients, NEW op \in AllOps, NEW t \in Tasks, Exists(t),
         NEW writes \in Seq(Stmt), Serve(c, op, t, writes), UNCHANGED tableVars
  PROVE  TableStep /\ ActorStep
<1>1. TableStep  BY TableUnchanged DEF IInv
<1>2. Exists(t)'  BY <1>1 DEF TableStep
<1> QED  BY <1>1, <1>2, ServeStep

LEMMA ApproveStep ==
  ASSUME IInv, NEW c \in Clients, Approve(c)
  PROVE  TableStep /\ ActorStep
<1>1. PICK t \in Tasks, o \in Verdicts :
        Exists(t) /\ Serve(c, "approve", t, MoveTo(NextStage(tasks[t].stage, o)))
  BY DEF Approve
<1>2. MoveTo(NextStage(tasks[t].stage, o)) \in Seq(Stmt)
  BY NextStageType, MoveToType
<1>3. "approve" \in AllOps /\ UNCHANGED tableVars  BY DEF AllOps, Approve
<1> QED  BY <1>1, <1>2, <1>3, AcceptStep

LEMMA SubmitReviewStep ==
  ASSUME IInv, NEW c \in Clients, SubmitReview(c)
  PROVE  TableStep /\ ActorStep
<1> DEFINE next(t, o) == NextStage(tasks[t].stage, o)
           return(t, o) == IF o = "changes_requested" /\ tasks[t].dri # NoAgent
                           THEN <<StatusTo("in_progress", tasks[t].dri)>> ELSE <<>>
           end(t, o) == IF IsTerminalStage(next(t, o)) THEN <<Done>> ELSE <<>>
<1>1. PICK t \in Tasks, o \in Verdicts :
        /\ Exists(t)
        /\ Serve(c, "submit_review", t,
                 <<StageTo(next(t, o))>> \o return(t, o) \o end(t, o))
  BY DEF SubmitReview
<1>2. <<StageTo(next(t, o))>> \in Seq(Stmt)
  <2>1. StageTo(next(t, o)) \in Stmt  BY NextStageType, StmtType
  <2> QED  BY <2>1
<1>3. return(t, o) \in Seq(Stmt)
  <2>1. tasks[t].dri \in Agents \cup {NoAgent}  BY TypeUse DEF Row
  <2>2. StatusTo("in_progress", tasks[t].dri) \in Stmt
    BY <2>1, StmtType DEF Statuses
  <2> QED  BY <2>2, EmptyStmts
<1>4. end(t, o) \in Seq(Stmt)  BY FailTypes, EmptyStmts
<1>5. <<StageTo(next(t, o))>> \o return(t, o) \o end(t, o) \in Seq(Stmt)
  BY <1>2, <1>3, <1>4, ConcatProperties
<1>6. "submit_review" \in AllOps /\ UNCHANGED tableVars  BY DEF AllOps, SubmitReview
<1> QED  BY <1>1, <1>5, <1>6, AcceptStep

LEMMA RequestReviewStep ==
  ASSUME IInv, NEW c \in Clients, RequestReview(c)
  PROVE  TableStep /\ ActorStep
<1> DEFINE next(t) == NextStage(tasks[t].stage, "submit_for_review")
           writes(t) == IF next(t) = "InReview"
                        THEN <<StageTo(next(t)), Plain("pick_reviewer")>>
                        ELSE <<StageTo(next(t))>>
<1>1. PICK t \in Tasks : Exists(t) /\ Serve(c, "request_review", t, writes(t))
  BY DEF RequestReview
<1>2. StageTo(next(t)) \in Stmt /\ Plain("pick_reviewer") \in Stmt
  BY NextStageType, StmtType DEF StmtOps
<1>3. writes(t) \in Seq(Stmt)  BY <1>2
<1>4. "request_review" \in AllOps /\ UNCHANGED tableVars  BY DEF AllOps, RequestReview
<1> QED  BY <1>1, <1>3, <1>4, AcceptStep

LEMMA CancelTaskStep ==
  ASSUME IInv, NEW c \in Clients, CancelTask(c)
  PROVE  TableStep /\ ActorStep
<1> DEFINE writes(t) == IF tasks[t].worktree THEN <<Plain("clear_git"), Plain("cancel")>>
                        ELSE <<Plain("cancel")>>
<1>1. PICK t \in Tasks : Exists(t) /\ Serve(c, "cancel", t, writes(t))
  BY DEF CancelTask
<1>2. Plain("clear_git") \in Stmt /\ Plain("cancel") \in Stmt  BY StmtType DEF StmtOps
<1>3. writes(t) \in Seq(Stmt)  BY <1>2
<1>4. "cancel" \in AllOps /\ UNCHANGED tableVars  BY DEF AllOps, CancelTask
<1> QED  BY <1>1, <1>3, <1>4, AcceptStep

LEMMA RewindStep ==
  ASSUME IInv, NEW c \in Clients, Rewind(c)
  PROVE  TableStep /\ ActorStep
<1> DEFINE writes(t) == <<RewindTo(IF tasks[t].wf THEN InitialStage ELSE NoStage)>>
<1>1. PICK t \in Tasks : Exists(t) /\ Serve(c, "rewind", t, writes(t))
  BY DEF Rewind
<1>2. RewindTo(InitialStage) \in Stmt /\ RewindTo(NoStage) \in Stmt
  BY InitialStageType, StmtType
<1>3. writes(t) \in Seq(Stmt)  BY <1>2
<1>4. "rewind" \in AllOps /\ UNCHANGED tableVars  BY DEF AllOps, Rewind
<1> QED  BY <1>1, <1>3, <1>4, AcceptStep

(* The INSERT of a row that did not exist.                                 *)
LEMMA InsertStep ==
  ASSUME IInv, NEW t \in Tasks, ~Exists(t), NEW status \in Statuses,
         tasks' = [tasks EXCEPT ![t] = NewRow(status)], Touch(t),
         UNCHANGED <<reopened, unmoved, misread>>
  PROVE  TableStep /\ Exists(t)'
<1>1. NewRow(status) \in Row /\ NewRow(status).status # "absent"
  BY DEF NewRow, Row, Statuses
<1>2. tasks[t].dri = NoAgent /\ tasks[t].status = "absent"
  BY DEF IInv, InFlight, Exists
<1>3. /\ tasks' \in [Tasks -> Row] /\ tasks'[t] = NewRow(status)
      /\ \A u \in Tasks \ {t} : tasks'[u] = tasks[u]
  BY <1>1, TypeUse
<1>4. /\ older' \subseteq Tasks \X Tasks /\ reopened' \subseteq Tasks
      /\ unmoved' \subseteq Tasks /\ misread' \subseteq Tasks /\ reopened' = reopened
  BY DEF Touch, IInv, TypeOK, TableTypeOK
<1>5. TableTypeOK'  BY <1>3, <1>4 DEF TableTypeOK
<1> QED  BY <1>1, <1>2, <1>3, <1>4, <1>5 DEF TableStep, IInv, InFlight, Exists

LEMMA CreateTaskStep ==
  ASSUME IInv, NEW c \in Clients, CreateTask(c) \/ CreateTaskMCP(c)
  PROVE  TableStep /\ ActorStep
<1> DEFINE attach == IF CreateWithWorkflow /\ InitialStage # NoStage
                     THEN <<Plain("attach")>> ELSE <<>>
<1>1. PICK t \in Tasks, status \in Statuses, op \in {"create", "create_mcp"},
           writes \in {<<>>, attach} :
        /\ ~Exists(t) /\ Touch(t)
        /\ tasks' = [tasks EXCEPT ![t] = NewRow(status)]
        /\ Serve(c, op, t, writes)
  BY DEF CreateTask, CreateTaskMCP, Statuses
<1>2. TableStep /\ Exists(t)'
  BY <1>1, InsertStep DEF CreateTask, CreateTaskMCP
<1>3. writes \in Seq(Stmt)
  <2>1. Plain("attach") \in Stmt  BY StmtType DEF StmtOps
  <2>2. <<Plain("attach")>> \in Seq(Stmt)  BY <2>1
  <2> QED  BY <2>2, EmptyStmts
<1>4. op \in AllOps  BY DEF AllOps
<1> QED  BY <1>1, <1>2, <1>3, <1>4, ServeStep

(* The UPDATE that attaches the workflow keeps the place in the order.     *)
LEMMA AttachStep ==
  ASSUME IInv, NEW t \in Tasks, Exists(t),
         tasks' = [tasks EXCEPT ![t] = AttachWorkflow(@)],
         UNCHANGED <<older, reopened, unmoved, misread>>
  PROVE  TableStep
<1> DEFINE row == AttachWorkflow(tasks[t])
<1>1. row \in Row /\ row.dri = tasks[t].dri /\ row.status = tasks[t].status
  BY TypeUse, InitialStageType DEF AttachWorkflow, Row
<1>2. /\ tasks' \in [Tasks -> Row] /\ tasks'[t] = row
      /\ \A u \in Tasks \ {t} : tasks'[u] = tasks[u]
  BY <1>1, TypeUse
<1> QED  BY <1>1, <1>2 DEF TableStep, TableTypeOK, IInv, TypeOK, InFlight, Exists

LEMMA RequestGoesOnStep ==
  ASSUME IInv, TableStep, NEW c \in Clients, req[c].op # "none",
         NEW ws \in Seq(Stmt), RequestGoesOn(c, ws),
         UNCHANGED <<turn, merger>>, ops' \in Nat
  PROVE  ActorStep
<1> DEFINE t == req[c].task
           x == IF ws = <<>> THEN IdleRequest ELSE [req[c] EXCEPT !.writes = ws]
<1>1. t \in Tasks /\ Exists(t) /\ req[c] \in Request
  BY TypeUse DEF IInv, InFlight
<1>2. x \in Request /\ (x.op # "none" => x.task = t /\ x.writes # <<>>)
  <2>1. CASE ws = <<>>  BY <2>1, IdleRequestType
  <2>2. CASE ws # <<>>  BY <2>2, <1>1 DEF Request
  <2> QED  BY <2>1, <2>2
<1>3. tasks'[t].status # "absent"  BY <1>1 DEF TableStep, Exists
<1>4. req' = [req EXCEPT ![c] = x]  BY DEF RequestGoesOn
<1> QED  BY <1>1, <1>2, <1>3, <1>4, RequestMoves DEF Exists

LEMMA ReqWriteStep ==
  ASSUME IInv, NEW c \in Clients, ReqWrite(c)
  PROVE  TableStep /\ ActorStep
<1> DEFINE t == req[c].task
           w == Head(req[c].writes)
<1>1. /\ t \in Tasks /\ Exists(t) /\ tasks[t] \in Row
      /\ req[c] \in Request /\ req[c].writes \in Seq(Stmt) /\ req[c].writes # <<>>
  BY TypeUse DEF IInv, InFlight, ReqWrite, Request
<1>2. w \in Stmt /\ Tail(req[c].writes) \in Seq(Stmt)
  BY <1>1, HeadTailProperties
<1>3. PICK ws \in Seq(Stmt) : RequestGoesOn(c, ws)
  <2>1. \A a \in PickReviewer(tasks[t]) : <<AssignTo(a)>> \in Seq(Stmt)
    BY <1>1, PickReviewerType, StmtType
  <2> QED  BY <1>2, <2>1 DEF ReqWrite
<1>4. TableStep
  <2>1. CASE w.op = "pick_reviewer"
    BY <2>1, TableUnchanged DEF ReqWrite, IInv
  <2>2. CASE w.op = "attach"
    BY <2>2, <1>1, AttachStep DEF ReqWrite
  <2>3. CASE w.op \notin {"pick_reviewer", "attach"}
    BY <2>3, <1>1, <1>2, StatementStep1 DEF ReqWrite
  <2> QED  BY <2>1, <2>2, <2>3
<1>5. req[c].op # "none" /\ UNCHANGED <<turn, merger>> /\ ops' \in Nat
  BY TypeUse DEF ReqWrite
<1> QED  BY <1>3, <1>4, <1>5, RequestGoesOnStep

LEMMA DisconnectStep ==
  ASSUME IInv, NEW c \in Clients, Disconnect(c)
  PROVE  TableStep /\ ActorStep
<1>1. TableStep  BY TableUnchanged DEF Disconnect, IInv, tableVars
<1>2. req' = [req EXCEPT ![c] = IdleRequest] /\ UNCHANGED <<turn, merger>> /\ ops' \in Nat
  BY TypeUse DEF Disconnect
<1> QED  BY <1>1, <1>2, IdleRequestType, RequestMoves

(* A request that is one statement, and a daemon that dies.                *)
LEMMA UpdateStep ==
  ASSUME IInv, NEW op, NEW t \in Tasks, NEW row \in Row, row.status # "absent",
         tasks[t].dri # NoAgent => row.dri = tasks[t].dri, Update(op, t, row)
  PROVE  TableStep /\ ActorStep
<1>1. TableStep  BY ExecuteStep DEF Update, IInv
<1>2. UNCHANGED <<turn, merger, req>> /\ ops' \in Nat
  BY TypeUse DEF Update
<1>3. ActorsOK'  BY <1>2 DEF IInv, TypeOK, ActorsOK
<1>4. InFlight'
  <2>1. \A d \in Daemons : \A i \in 1..Len(merger[d].queue) :
          merger[d].queue[i].task \in Tasks
    BY QueueTasks, TypeUse
  <2> QED  BY <1>1, <1>2, <2>1 DEF IInv, InFlight, TableStep, Exists
<1>5. HolderStep  BY <1>2 DEF HolderStep, Holds
<1> QED  BY <1>1, <1>3, <1>4, <1>5 DEF ActorStep

LEMMA StatementStepStep ==
  ASSUME IInv, NEW t \in Tasks, StatementStep(t)
  PROVE  TableStep /\ ActorStep
<1>0. tasks[t] \in Row  BY TypeUse
<1>1. CASE SetStatus(t)
  <2>1. PICK s \in Statuses, a \in Agents \cup {NoAgent} :
          Update("status", t, UpdateTask(tasks[t], s, a))
    BY <1>1 DEF SetStatus
  <2>2. /\ UpdateTask(tasks[t], s, a) \in Row
        /\ UpdateTask(tasks[t], s, a).status # "absent"
        /\ UpdateTask(tasks[t], s, a).dri = tasks[t].dri
    BY <1>0 DEF UpdateTask, Row, Statuses
  <2> QED  BY <2>1, <2>2, UpdateStep
<1>2. CASE Assign(t)
  <2>1. PICK a \in Agents \cup {NoAgent} : Update("assign", t, AssignTask(tasks[t], a))
    BY <1>2 DEF Assign
  <2>2. /\ AssignTask(tasks[t], a) \in Row
        /\ AssignTask(tasks[t], a).status = tasks[t].status
        /\ AssignTask(tasks[t], a).dri = tasks[t].dri
    BY <1>0 DEF AssignTask, Row
  <2>3. tasks[t].status # "absent"  BY <2>1 DEF Update, Exists
  <2> QED  BY <2>1, <2>2, <2>3, UpdateStep
<1>3. CASE Requeue(t)
  <2>1. /\ RequeueTask(tasks[t]) \in Row /\ RequeueTask(tasks[t]).status = "todo"
        /\ RequeueTask(tasks[t]).dri = tasks[t].dri
    BY <1>0 DEF RequeueTask, Row, Statuses
  <2> QED  BY <1>3, <2>1, UpdateStep DEF Requeue
<1>4. CASE ForceTransition(t)
  <2>1. PICK s \in StageNames :
          Update("force_transition", t, UpdateTaskStage(tasks[t], s))
    BY <1>4 DEF ForceTransition
  <2>2. /\ UpdateTaskStage(tasks[t], s) \in Row
        /\ UpdateTaskStage(tasks[t], s).status = tasks[t].status
        /\ UpdateTaskStage(tasks[t], s).dri = tasks[t].dri
    BY <1>0 DEF UpdateTaskStage, Row
  <2>3. tasks[t].status # "absent"  BY <2>1 DEF Update, Exists
  <2> QED  BY <2>1, <2>2, <2>3, UpdateStep
<1> QED  BY <1>1, <1>2, <1>3, <1>4 DEF StatementStep

LEMMA CrashStep ==
  ASSUME IInv, NEW d \in Daemons, Crash(d)
  PROVE  TableStep /\ ActorStep
<1>1. TableStep  BY TableUnchanged DEF Crash, IInv, tableVars
<1>2. /\ IdleMerger \in Merger /\ IdleMerger.writes = <<>> /\ IdleMerger.queue = <<>>
      /\ IdleTurn.pc = "idle"
  BY EmptyStmts, EmptySeq DEF IdleMerger, Merger, IdleTurn
<1>3. /\ turn' = [turn EXCEPT ![d] = IdleTurn]
      /\ merger' = [merger EXCEPT ![d] = IdleMerger]
      /\ UNCHANGED req /\ ops' \in Nat
  BY TypeUse DEF Crash
<1>4. ActorsOK'
  BY <1>2, <1>3, IdleTurnType DEF IInv, TypeOK, ActorsOK
<1>5. InFlight'
  <2>1. \A e \in Daemons : \A i \in 1..Len(merger[e].queue) :
          merger[e].queue[i].task \in Tasks
    BY QueueTasks, TypeUse
  <2>2. Len(IdleMerger.queue) = 0  BY <1>2, EmptySeq
  <2> QED  BY <1>1, <1>2, <1>3, <2>1, <2>2 DEF IInv, TypeOK, InFlight, TableStep, Exists
<1>6. HolderStep
  BY <1>2, <1>3 DEF IInv, TypeOK, HolderStep, Holds
<1> QED  BY <1>1, <1>4, <1>5, <1>6 DEF ActorStep

(* A statement that fails: nothing is written, its actor goes on or stops. *)
LEMMA TurnFaultStep ==
  ASSUME IInv, NEW d \in Daemons, ClaimFails(d) \/ ReadFails(d) \/ TurnWriteFails(d)
  PROVE  TableStep /\ ActorStep
<1>0. /\ ops' \in Nat /\ UNCHANGED <<merger, req>>
      /\ turn[d] \in Turn /\ turn[d].task \in Tasks
      /\ unmoved \subseteq Tasks /\ misread \subseteq Tasks
  BY TypeUse DEF ClaimFails, ReadFails, TurnWriteFails, Fault, IInv, InFlight, TypeOK,
                 TableTypeOK
<1>1. TableStep
  BY <1>0, TableNoted
     DEF ClaimFails, ReadFails, TurnWriteFails, Lost, tableVars, IInv
<1>2. CASE ClaimFails(d)
  <2>1. IdleTurn.pc = "idle"  BY DEF IdleTurn
  <2>2. turn' = [turn EXCEPT ![d] = IdleTurn]  BY <1>2 DEF ClaimFails
  <2> QED  BY <1>0, <1>1, <2>1, <2>2, IdleTurnType, TurnMoves
<1>3. CASE ReadFails(d)
  <2>1. PICK writes \in {<<Plain("fail")>>, Handled(<<>>)} : StartWriting(d, writes)
    BY <1>3 DEF ReadFails
  <2>2. writes \in Seq(Stmt) /\ writes # <<>>
    BY FailTypes, EmptyStmts, HandledType
  <2>3. turn[d].pc = "claimed"  BY <1>3 DEF ReadFails
  <2> QED  BY <1>0, <1>1, <2>1, <2>2, <2>3, StartWritingStep
<1>4. CASE TurnWriteFails(d)
  <2>1. turn[d].pc = "writing" /\ TurnGoesOn(d, Tail(turn[d].writes))
    BY <1>4 DEF TurnWriteFails
  <2>2. turn[d].writes \in Seq(Stmt) /\ turn[d].writes # <<>>
    BY <1>0, <2>1 DEF Turn, IInv, InFlight
  <2>3. Tail(turn[d].writes) \in Seq(Stmt)
    BY <2>2, HeadTailProperties
  <2> QED  BY <1>0, <1>1, <2>1, <2>3, TurnGoesOnStep
<1> QED  BY <1>1, <1>2, <1>3, <1>4

LEMMA MergeWriteFailsStep ==
  ASSUME IInv, NEW d \in Daemons, MergeWriteFails(d)
  PROVE  TableStep /\ ActorStep
<1>1. /\ ops' \in Nat /\ merger[d].writes # <<>> /\ merger[d].task \in Tasks
      /\ merger' = [merger EXCEPT ![d].writes = Tail(@)] /\ UNCHANGED <<turn, req>>
  BY TypeUse DEF MergeWriteFails, Fault, IInv, InFlight
<1>2. TableStep
  BY <1>1, TableNoted DEF MergeWriteFails, Lost, IInv, TypeOK, TableTypeOK
<1> QED  BY <1>1, <1>2, MergerGoesOnStep

LEMMA ReqWriteFailsStep ==
  ASSUME IInv, NEW c \in Clients, ReqWriteFails(c)
  PROVE  TableStep /\ ActorStep
<1>1. /\ ops' \in Nat /\ req[c].op # "none" /\ UNCHANGED <<turn, merger>>
      /\ req[c].writes \in Seq(Stmt) /\ req[c].writes # <<>>
  BY TypeUse DEF ReqWriteFails, Fault, IInv, InFlight, Request
<1>2. TableStep  BY TableUnchanged DEF ReqWriteFails, IInv
<1>3. PICK ws \in {Tail(req[c].writes), <<>>} : RequestGoesOn(c, ws)
  BY DEF ReqWriteFails
<1>4. ws \in Seq(Stmt)  BY <1>1, HeadTailProperties, EmptyStmts
<1> QED  BY <1>1, <1>2, <1>3, <1>4, RequestGoesOnStep

-----------------------------------------------------------------------------
(* The invariant.                                                          *)

LEMMA InitIInv == Init => IInv
<1> SUFFICES ASSUME Init PROVE IInv
  OBVIOUS
<1>1. tasks \in [Tasks -> Row]
  BY LifecycleAssumption DEF Init
<1>2. /\ IdleTurn \in Turn /\ IdleTurn.pc = "idle"
      /\ IdleMerger \in Merger /\ IdleMerger.writes = <<>> /\ Len(IdleMerger.queue) = 0
      /\ IdleRequest \in Request /\ IdleRequest.op = "none"
  BY IdleTurnType, IdleRequestType, EmptyStmts, EmptySeq DEF IdleTurn, IdleMerger, Merger
<1>3. TypeOK
  BY <1>1, <1>2 DEF Init, TypeOK, TableTypeOK
<1>4. InFlight
  <2>1. \A t \in Tasks : ~Exists(t) => tasks[t].dri = NoAgent
    BY LifecycleAssumption DEF Init, Exists, NewRow
  <2> QED  BY <1>2, <2>1 DEF Init, InFlight
<1>5. OneTurnPerTask
  BY <1>2 DEF Init, OneTurnPerTask, Holds
<1> QED  BY <1>3, <1>4, <1>5 DEF IInv

(* Each action is a step of the table and of one actor.                    *)
LEMMA EveryStep ==
  ASSUME IInv, [Next]_vars
  PROVE  TableStep /\ ActorStep
<1>1. ASSUME NEW d \in Daemons, SchedulerStep(d)
      PROVE  TableStep /\ ActorStep
  BY <1>1, PickStep, ClaimStep, ClaimLostStep, EnterInitialStageStep, EngineStep,
     TurnWriteStep DEF SchedulerStep
<1>2. ASSUME NEW d \in Daemons, MergerStep(d)
      PROVE  TableStep /\ ActorStep
  BY <1>2, ListMergingStep, MergeTurnStep, MergeWriteStep DEF MergerStep
<1>3. ASSUME NEW d \in Daemons, FaultStep(d)
      PROVE  TableStep /\ ActorStep
  BY <1>3, CrashStep, TurnFaultStep, MergeWriteFailsStep DEF FaultStep
<1>4. ASSUME NEW c \in Clients, RequestStep(c)
      PROVE  TableStep /\ ActorStep
  BY <1>4, ApproveStep, SubmitReviewStep, RequestReviewStep, CancelTaskStep, RewindStep,
     CreateTaskStep, ReqWriteStep, DisconnectStep, ReqWriteFailsStep DEF RequestStep
<1>5. ASSUME NEW t \in Tasks, StatementStep(t)
      PROVE  TableStep /\ ActorStep
  BY <1>5, StatementStepStep
<1>6. ASSUME UNCHANGED vars
      PROVE  TableStep /\ ActorStep
  <2>1. TableStep  BY <1>6, TableUnchanged DEF vars, tableVars, IInv
  <2>2. ActorsOK'  BY <1>6 DEF vars, IInv, TypeOK, ActorsOK
  <2>3. InFlight'  BY <1>6 DEF vars, IInv, InFlight, Exists
  <2>4. HolderStep  BY <1>6 DEF vars, HolderStep, Holds
  <2> QED  BY <2>1, <2>2, <2>3, <2>4 DEF ActorStep
<1> QED  BY <1>1, <1>2, <1>3, <1>4, <1>5, <1>6 DEF Next

(* A task that is held is not todo and was not put back, so the step that  *)
(* makes a holder, the claim of a todo task, finds no holder.              *)
LEMMA OneTurnStep ==
  ASSUME IInv, TableStep, ActorStep
  PROVE  OneTurnPerTask'
<1> SUFFICES ASSUME NEW t \in Tasks, t \notin reopened'
             PROVE  /\ \A d, e \in Daemons : Holds(d, t)' /\ Holds(e, t)' => d = e
                    /\ tasks'[t].status = "todo" => \A d \in Daemons : ~Holds(d, t)'
  BY DEF OneTurnPerTask, Holds
<1>1. t \notin reopened  BY DEF TableStep
<1>2. tasks[t].status \in {"todo", "absent"} => \A d \in Daemons : ~Holds(d, t)
  <2>1. \A d \in Daemons : Holds(d, t) => Exists(t)
    BY DEF IInv, InFlight, Holds
  <2> QED  BY <1>1, <2>1 DEF IInv, OneTurnPerTask, Exists
<1>3. \A d, e \in Daemons : Holds(d, t) /\ Holds(e, t) => d = e
  BY <1>1 DEF IInv, OneTurnPerTask
<1>4. \A d, e \in Daemons : Holds(d, t)' /\ Holds(e, t)' => d = e
  BY <1>2, <1>3 DEF ActorStep, HolderStep
<1>5. ASSUME tasks'[t].status = "todo", NEW d \in Daemons, Holds(d, t)'
      PROVE  FALSE
  <2>1. tasks[t].status \in {"todo", "absent"}  BY <1>5 DEF TableStep
  <2>2. ~Holds(d, t)  BY <1>2, <2>1
  <2> QED  BY <1>5, <2>2 DEF ActorStep, HolderStep
<1> QED  BY <1>4, <1>5

LEMMA Invariant == Spec => []IInv
<1>1. IInv /\ [Next]_vars => IInv'
  <2> SUFFICES ASSUME IInv, [Next]_vars PROVE IInv'
    OBVIOUS
  <2>1. TableStep /\ ActorStep  BY EveryStep
  <2>2. OneTurnPerTask'  BY <2>1, OneTurnStep
  <2> QED  BY <2>1, <2>2 DEF IInv, TypeOK, TableStep, ActorStep, ActorsOK
<1> QED  BY InitIInv, <1>1, PTL DEF Spec

-----------------------------------------------------------------------------
(* Theorems.                                                               *)

(* Every row, and everything an actor has in hand, stays well formed: no   *)
(* statement of any actor writes a status, a stage or an agent that is not *)
(* one, whichever stale row it was decided from.                           *)
THEOREM TypeCorrect == Spec => []TypeOK
BY Invariant, PTL DEF IInv

(* The claim prevents double processing, with any number of schedulers on  *)
(* one store, for every task nobody has put back to todo.                  *)
THEOREM ClaimIsExclusive == Spec => []OneTurnPerTask
BY Invariant, PTL DEF IInv

(* The author of a task, once set, is never replaced, by any actor.        *)
THEOREM DriNeverChanges == Spec => DriPermanent
<1>1. IInv /\ [Next]_vars =>
        [\A t \in Tasks : tasks[t].dri # NoAgent => tasks'[t].dri = tasks[t].dri]_vars
  BY EveryStep DEF TableStep
<1> QED  BY Invariant, <1>1, PTL DEF Spec, DriPermanent

-----------------------------------------------------------------------------
(* Authors and reviewers.  A task in a turn has an author, and an author   *)
(* is permanent, so what an actor decided from the author it read is still *)
(* right when the statement runs.                                          *)

(* The statements that may be pending for a task of this author.           *)
AssignsOther(dri) ==
  {w \in Stmt : w.op = "assign" => w.agent # dri \/ Agents \subseteq {dri}}

ReturnsTo(dri) ==
  {w \in Stmt : w.op = "status" => w = Done \/ (w.agent # NoAgent /\ w.agent = dri)}

TurnAuthor(d) ==
  LET dri == tasks[turn[d].task].dri
  IN /\ turn[d].pc # "idle" => turn[d].agent \in Agents
     /\ turn[d].pc \in {"claimed", "writing"} => dri # NoAgent
     /\ turn[d].pc = "writing" => turn[d].writes \in Seq(AssignsOther(dri))

RequestAuthor(c) ==
  req[c].op = "submit_review" =>
    req[c].writes \in Seq(ReturnsTo(tasks[req[c].task].dri))

AuthorInv == /\ \A d \in Daemons : TurnAuthor(d)
             /\ \A c \in Clients : RequestAuthor(c)

LEMMA TurnAuthorKept ==
  ASSUME IInv, TableStep, NEW d \in Daemons, TurnAuthor(d), turn'[d] = turn[d]
  PROVE  TurnAuthor(d)'
<1>1. CASE turn[d].pc = "idle"  BY <1>1 DEF TurnAuthor
<1>2. CASE turn[d].pc # "idle"
  <2>1. turn[d].task \in Tasks  BY <1>2 DEF IInv, InFlight
  <2>2. turn[d].pc \in {"claimed", "writing"} =>
          tasks'[turn[d].task].dri = tasks[turn[d].task].dri
    BY <2>1 DEF TurnAuthor, TableStep
  <2> QED  BY <2>2 DEF TurnAuthor, AssignsOther
<1> QED  BY <1>1, <1>2

LEMMA RequestAuthorKept ==
  ASSUME IInv, TableStep, NEW c \in Clients, RequestAuthor(c), req'[c] = req[c]
  PROVE  RequestAuthor(c)'
<1> SUFFICES ASSUME req[c].op = "submit_review"  PROVE RequestAuthor(c)'
  BY DEF RequestAuthor
<1> DEFINE t == req[c].task
<1>1. t \in Tasks  BY DEF IInv, InFlight
<1>2. ReturnsTo(tasks[t].dri) \subseteq ReturnsTo(tasks'[t].dri)
  BY <1>1 DEF TableStep, ReturnsTo
<1>3. req[c].writes \in Seq(ReturnsTo(tasks[t].dri))
  BY DEF RequestAuthor
<1>4. req[c].writes \in Seq(ReturnsTo(tasks'[t].dri))
  BY <1>2, <1>3, SeqMonotonic
<1> QED  BY <1>4 DEF RequestAuthor

(* A step of one daemon's turn, of one request, or of neither.             *)
LEMMA TurnAuthorStep ==
  ASSUME IInv, AuthorInv, TableStep, UNCHANGED req, NEW d \in Daemons,
         \A e \in Daemons \ {d} : turn'[e] = turn[e], TurnAuthor(d)'
  PROVE  AuthorInv'
<1>1. \A e \in Daemons : TurnAuthor(e)'
  BY TurnAuthorKept DEF AuthorInv
<1>2. \A c \in Clients : RequestAuthor(c)'
  BY RequestAuthorKept DEF AuthorInv
<1> QED  BY <1>1, <1>2 DEF AuthorInv

LEMMA RequestAuthorStep ==
  ASSUME IInv, AuthorInv, TableStep, UNCHANGED turn, NEW c \in Clients,
         \A b \in Clients \ {c} : req'[b] = req[b], RequestAuthor(c)'
  PROVE  AuthorInv'
<1>1. \A e \in Daemons : TurnAuthor(e)'
  BY TurnAuthorKept DEF AuthorInv
<1>2. \A b \in Clients : RequestAuthor(b)'
  BY RequestAuthorKept DEF AuthorInv
<1> QED  BY <1>1, <1>2 DEF AuthorInv

LEMMA OthersAuthorStep ==
  ASSUME IInv, AuthorInv, TableStep, UNCHANGED <<turn, req>>
  PROVE  AuthorInv'
BY TurnAuthorKept, RequestAuthorKept DEF AuthorInv

-----------------------------------------------------------------------------
(* Lists of statements by what they contain.                               *)

(* The engine's lists assign nobody: any set of statements that has the    *)
(* engine's own contains its lists.                                        *)
LEMMA MoveToIn ==
  ASSUME NEW S, Done \in S, NEW s, s # NoStage => StageTo(s) \in S
  PROVE  MoveTo(s) \in Seq(S)
<1>1. <<>> \in Seq(S)  BY EmptySeq
<1> QED  BY <1>1 DEF MoveTo

LEMMA HandledIn ==
  ASSUME NEW S, Plain("pick_reviewer_if_in_review") \in S, NEW ws \in Seq(S)
  PROVE  Handled(ws) \in Seq(S)
BY AppendProperties DEF Handled

LEMMA EngineLists ==
  ASSUME NEW dri
  PROVE  /\ \A s \in StageNames \cup {NoStage} : Handled(MoveTo(s)) \in Seq(AssignsOther(dri))
         /\ Handled(<<Done>>) \in Seq(AssignsOther(dri))
         /\ Handled(<<>>) \in Seq(AssignsOther(dri))
         /\ <<Done>> \in Seq(AssignsOther(dri))
         /\ <<Plain("fail")>> \in Seq(AssignsOther(dri))
         /\ <<Plain("fail"), Plain("fail")>> \in Seq(AssignsOther(dri))
<1> DEFINE S == AssignsOther(dri)
<1>1. /\ Done \in S /\ Plain("fail") \in S /\ Plain("pick_reviewer_if_in_review") \in S
      /\ \A s \in StageNames \cup {NoStage} : StageTo(s) \in S
  BY StmtType DEF AssignsOther, Done, StatusTo, StageTo, Plain, StmtOps
<1> HIDE DEF S
<1>2. \A s \in StageNames \cup {NoStage} : MoveTo(s) \in Seq(S)
  BY <1>1, MoveToIn
<1>3. /\ <<Done>> \in Seq(S) /\ <<>> \in Seq(S) /\ <<Plain("fail")>> \in Seq(S)
      /\ <<Plain("fail"), Plain("fail")>> \in Seq(S)
  BY <1>1, EmptySeq
<1>4. \A ws \in Seq(S) : Handled(ws) \in Seq(S)
  BY <1>1, HandledIn
<1> QED  BY <1>2, <1>3, <1>4 DEF S

-----------------------------------------------------------------------------
(* The actions.                                                            *)

LEMMA StartWritingAuthor ==
  ASSUME IInv, AuthorInv, TableStep, UNCHANGED <<tasks, req>>,
         NEW d \in Daemons, turn[d].pc = "claimed",
         NEW writes \in Seq(AssignsOther(tasks[turn[d].task].dri)),
         StartWriting(d, writes)
  PROVE  AuthorInv'
<1>1. turn \in [Daemons -> Turn]  BY DEF IInv, TypeOK
<1>2. /\ turn'[d].pc = "writing" /\ turn'[d].agent = turn[d].agent
      /\ turn'[d].task = turn[d].task /\ turn'[d].writes = writes
      /\ \A e \in Daemons \ {d} : turn'[e] = turn[e]
  BY <1>1 DEF StartWriting, Turn
<1>3. TurnAuthor(d)'
  BY <1>2 DEF AuthorInv, TurnAuthor, AssignsOther
<1> QED  BY <1>2, <1>3, TurnAuthorStep

LEMMA TurnGoesOnAuthor ==
  ASSUME IInv, AuthorInv, TableStep, UNCHANGED req,
         NEW d \in Daemons, turn[d].pc = "writing",
         NEW rest \in Seq(AssignsOther(tasks[turn[d].task].dri)), TurnGoesOn(d, rest)
  PROVE  AuthorInv'
<1> DEFINE t == turn[d].task
           dri == tasks[t].dri
<1>1. turn \in [Daemons -> Turn] /\ t \in Tasks
  BY DEF IInv, TypeOK, InFlight
<1>2. TurnAuthor(d) /\ dri # NoAgent /\ turn[d].agent \in Agents
  BY DEF AuthorInv, TurnAuthor
<1>3. tasks'[t].dri = dri  BY <1>1, <1>2 DEF TableStep
<1>4. \A e \in Daemons \ {d} : turn'[e] = turn[e]
  BY <1>1 DEF TurnGoesOn
<1>5. TurnAuthor(d)'
  <2>1. CASE rest = <<>>
    <3>1. turn'[d].pc = "idle"  BY <1>1, <2>1 DEF TurnGoesOn, IdleTurn
    <3> QED  BY <3>1 DEF TurnAuthor
  <2>2. CASE rest # <<>>
    <3>1. /\ turn'[d].pc = "writing" /\ turn'[d].agent = turn[d].agent
          /\ turn'[d].task = t /\ turn'[d].writes = rest
      BY <1>1, <2>2 DEF TurnGoesOn, Turn
    <3> QED  BY <1>2, <1>3, <3>1 DEF TurnAuthor, AssignsOther
  <2> QED  BY <2>1, <2>2
<1> QED  BY <1>4, <1>5, TurnAuthorStep

LEMMA RequestGoesOnAuthor ==
  ASSUME IInv, AuthorInv, TableStep, UNCHANGED turn,
         NEW c \in Clients, req[c].op # "none", NEW rest,
         req[c].op = "submit_review" => rest \in Seq(ReturnsTo(tasks[req[c].task].dri)),
         RequestGoesOn(c, rest)
  PROVE  AuthorInv'
<1> DEFINE t == req[c].task
<1>1. req \in [Clients -> Request] /\ t \in Tasks
  BY DEF IInv, TypeOK, InFlight
<1>2. ReturnsTo(tasks[t].dri) \subseteq ReturnsTo(tasks'[t].dri)
  BY <1>1 DEF TableStep, ReturnsTo
<1>3. \A b \in Clients \ {c} : req'[b] = req[b]
  BY <1>1 DEF RequestGoesOn
<1>4. RequestAuthor(c)'
  <2>1. req'[c].op # "none" =>
          /\ req'[c].op = req[c].op /\ req'[c].task = t /\ req'[c].writes = rest
    BY <1>1 DEF RequestGoesOn, Request, IdleRequest
  <2>2. req'[c].op = "submit_review" => rest \in Seq(ReturnsTo(tasks'[t].dri))
    BY <1>2, <2>1, SeqMonotonic
  <2> QED  BY <2>1, <2>2 DEF RequestAuthor
<1> QED  BY <1>3, <1>4, RequestAuthorStep

LEMMA SchedulerAuthor ==
  ASSUME IInv, AuthorInv, NEW d \in Daemons, SchedulerStep(d), TableStep
  PROVE  AuthorInv'
<1> DEFINE t == turn[d].task
<1>0. turn \in [Daemons -> Turn] /\ turn[d] \in Turn /\ tasks \in [Tasks -> Row]
  BY TypeUse DEF IInv, TypeOK
<1>u. TurnAuthor(d)  BY DEF AuthorInv
<1>1. CASE Pick(d)
  <2>1. PICK u \in NextRunnable : \E a \in PickAssignee(tasks[u]) :
          turn' = [turn EXCEPT ![d] =
                    [IdleTurn EXCEPT !.pc = "picked", !.task = u, !.agent = a,
                                     !.wf = tasks[u].wf, !.stage = tasks[u].stage,
                                     !.worktree = tasks[u].worktree]]
    BY <1>1 DEF Pick
  <2>2. \A a \in PickAssignee(tasks[u]) : a \in Agents
    BY LifecycleAssumption DEF PickAssignee, PreferManager
  <2>3. turn'[d].pc = "picked" /\ turn'[d].agent \in Agents
    BY <1>0, <2>1, <2>2, IdleTurnType DEF Turn
  <2>4. \A e \in Daemons \ {d} : turn'[e] = turn[e]
    BY <1>0, <2>1
  <2>5. TurnAuthor(d)'  BY <2>3 DEF TurnAuthor
  <2>6. UNCHANGED req  BY <1>1 DEF Pick
  <2> QED  BY <2>4, <2>5, <2>6, TurnAuthorStep
<1>2. CASE Claim(d)
  <2>1. t \in Tasks  BY <1>2 DEF IInv, InFlight, Claim
  <2>2. tasks'[t] = ClaimTask(tasks[t], turn[d].agent)
    BY <1>0, <1>2, <2>1 DEF Claim, Execute
  <2>3. turn[d].agent \in Agents /\ turn[d].agent # NoAgent
    BY <1>2, <1>u, TableAssumption DEF TurnAuthor, Claim
  <2>4. tasks'[t].dri # NoAgent
    BY <1>0, <2>1, <2>2, <2>3 DEF ClaimTask, Row
  <2>5. /\ turn'[d].pc = "claimed" /\ turn'[d].agent = turn[d].agent /\ turn'[d].task = t
        /\ \A e \in Daemons \ {d} : turn'[e] = turn[e]
        /\ UNCHANGED req
    BY <1>0, <1>2 DEF Claim, Turn
  <2>6. TurnAuthor(d)'  BY <2>3, <2>4, <2>5 DEF TurnAuthor
  <2> QED  BY <2>5, <2>6, TurnAuthorStep
<1>3. CASE ClaimLost(d)
  <2>1. /\ turn'[d].pc = "idle" /\ UNCHANGED req
        /\ \A e \in Daemons \ {d} : turn'[e] = turn[e]
    BY <1>0, <1>3 DEF ClaimLost, IdleTurn
  <2>2. TurnAuthor(d)'  BY <2>1 DEF TurnAuthor
  <2> QED  BY <2>1, <2>2, TurnAuthorStep
<1>4. CASE EnterInitialStage(d)
  <2>1. /\ turn'[d].pc = "claimed" /\ turn'[d].agent = turn[d].agent /\ turn'[d].task = t
        /\ \A e \in Daemons \ {d} : turn'[e] = turn[e]
        /\ UNCHANGED req
    BY <1>0, <1>4 DEF EnterInitialStage, Turn
  <2>2. t \in Tasks  BY <1>4 DEF IInv, InFlight, EnterInitialStage
  <2>3. turn[d].pc = "claimed"  BY <1>4 DEF EnterInitialStage
  <2>4. TurnAuthor(d)'  BY <1>u, <2>1, <2>2, <2>3 DEF TurnAuthor, TableStep
  <2> QED  BY <2>1, <2>4, TurnAuthorStep
<1>5. CASE \/ LegacyTurn(d) \/ AgentTurn(d) \/ TerminalTurn(d)
           \/ AutoTurn(d) \/ MergeTurn(d) \/ WaitingTurn(d)
  <2>1. \E writes \in Seq(AssignsOther(tasks[t].dri)) : EndTurn(d, writes)
    BY <1>5, EngineLists, NextStageType
       DEF LegacyTurn, AgentTurn, TerminalTurn, AutoTurn, MergeTurn, WaitingTurn
  <2>2. PICK writes \in Seq(AssignsOther(tasks[t].dri)) : EndTurn(d, writes)
    BY <2>1
  <2>3. turn[d].pc = "claimed"
    BY <1>5 DEF LegacyTurn, AgentTurn, TerminalTurn, AutoTurn, MergeTurn, WaitingTurn,
                InStageOfType
  <2>4. StartWriting(d, writes) /\ UNCHANGED <<tasks, req>>
    BY <2>2 DEF EndTurn, tableVars
  <2> QED  BY <2>3, <2>4, StartWritingAuthor
<1>6. CASE TurnWrite(d)
  <2> DEFINE dri == tasks[t].dri
             S == AssignsOther(dri)
             ws == turn[d].writes
  <2>1. /\ turn[d].pc = "writing" /\ t \in Tasks /\ tasks[t] \in Row /\ dri # NoAgent
        /\ ws \in Seq(S) /\ ws # <<>> /\ turn[d].agent \in Agents
    BY <1>0, <1>6, <1>u DEF IInv, InFlight, TurnWrite, TurnAuthor
  <2>2. Tail(ws) \in Seq(S)
    <3> HIDE DEF S, ws
    <3> QED  BY <2>1, HeadTailProperties
  <2>3. \A a \in PickReviewer(tasks[t]) : <<AssignTo(a)>> \in Seq(S)
    <3>1. \A a \in PickReviewer(tasks[t]) : a \in Agents /\ (a # dri \/ Agents \subseteq {dri})
      BY <2>1, LifecycleAssumption DEF PickReviewer
    <3>2. \A a \in Agents : AssignTo(a) \in Stmt /\ AssignTo(a).agent = a
      BY StmtType DEF AssignTo, Plain
    <3>3. \A a \in PickReviewer(tasks[t]) : AssignTo(a) \in S
      BY <3>1, <3>2 DEF AssignsOther
    <3> HIDE DEF S
    <3> QED  BY <3>3
  <2>4. PICK rest \in Seq(S) : TurnGoesOn(d, rest)
    BY <1>6, <2>2, <2>3 DEF TurnWrite
  <2>5. UNCHANGED req  BY <1>6 DEF TurnWrite
  <2> QED  BY <2>1, <2>4, <2>5, TurnGoesOnAuthor
<1> QED  BY <1>1, <1>2, <1>3, <1>4, <1>5, <1>6 DEF SchedulerStep

(* What is left of a list when a statement fails names nobody else.        *)
LEMMA FaultAuthor ==
  ASSUME IInv, AuthorInv, NEW d \in Daemons, FaultStep(d), TableStep
  PROVE  AuthorInv'
<1> DEFINE t == turn[d].task
<1>0. turn \in [Daemons -> Turn] /\ TurnAuthor(d)
  BY DEF IInv, TypeOK, AuthorInv
<1>1. CASE ClaimFails(d) \/ Crash(d)
  <2>1. /\ turn'[d].pc = "idle" /\ UNCHANGED req
        /\ \A e \in Daemons \ {d} : turn'[e] = turn[e]
    BY <1>0, <1>1 DEF ClaimFails, Crash, IdleTurn
  <2>2. TurnAuthor(d)'  BY <2>1 DEF TurnAuthor
  <2> QED  BY <2>1, <2>2, TurnAuthorStep
<1>2. CASE ReadFails(d)
  <2>1. PICK writes \in Seq(AssignsOther(tasks[t].dri)) : StartWriting(d, writes)
    BY <1>2, EngineLists DEF ReadFails
  <2>2. turn[d].pc = "claimed" /\ UNCHANGED <<tasks, req>>
    BY <1>2 DEF ReadFails
  <2> QED  BY <2>1, <2>2, StartWritingAuthor
<1>3. CASE TurnWriteFails(d)
  <2> DEFINE S == AssignsOther(tasks[t].dri)
             ws == turn[d].writes
  <2>1. turn[d].pc = "writing" /\ TurnGoesOn(d, Tail(ws)) /\ UNCHANGED req
    BY <1>3 DEF TurnWriteFails
  <2>2. ws \in Seq(S) /\ ws # <<>>
    BY <1>0, <2>1 DEF IInv, InFlight, TurnAuthor
  <2>3. Tail(ws) \in Seq(S)
    <3> HIDE DEF S, ws
    <3> QED  BY <2>2, HeadTailProperties
  <2> QED  BY <2>1, <2>3, TurnGoesOnAuthor
<1>4. CASE MergeWriteFails(d)
  <2>1. UNCHANGED <<turn, req>>  BY <1>4 DEF MergeWriteFails
  <2> QED  BY <2>1, OthersAuthorStep
<1> QED  BY <1>1, <1>2, <1>3, <1>4 DEF FaultStep

(* The handler read the author before it wrote the stage.                  *)
LEMMA RequestAuthors ==
  ASSUME IInv, AuthorInv, NEW c \in Clients, RequestStep(c), TableStep
  PROVE  AuthorInv'
<1>0. req \in [Clients -> Request] /\ req[c] \in Request /\ tasks \in [Tasks -> Row]
  BY TypeUse DEF IInv, TypeOK
<1>u. RequestAuthor(c)  BY DEF AuthorInv
<1>1. ASSUME NEW op \in AllOps, op # "submit_review", NEW t, NEW writes,
             Serve(c, op, t, writes)
      PROVE  AuthorInv'
  <2>1. /\ \A b \in Clients \ {c} : req'[b] = req[b]
        /\ UNCHANGED turn /\ req'[c].op # "submit_review"
    BY <1>0, <1>1 DEF Serve, IdleRequest
  <2>2. RequestAuthor(c)'  BY <2>1 DEF RequestAuthor
  <2> QED  BY <2>1, <2>2, RequestAuthorStep
<1>2. CASE Approve(c) \/ RequestReview(c) \/ CancelTask(c) \/ Rewind(c)
  <2>1. \E op \in AllOps \ {"submit_review"} : \E t, writes : Serve(c, op, t, writes)
    <3>1. {"approve", "request_review", "cancel", "rewind"} \subseteq AllOps \ {"submit_review"}
      BY DEF AllOps
    <3> QED  BY <1>2, <3>1 DEF Approve, RequestReview, CancelTask, Rewind
  <2> QED  BY <1>1, <2>1
<1>3. CASE CreateTask(c) \/ CreateTaskMCP(c)
  <2>1. \E op \in AllOps \ {"submit_review"} : \E t, writes : Serve(c, op, t, writes)
    <3>1. {"create", "create_mcp"} \subseteq AllOps \ {"submit_review"}
      BY DEF AllOps
    <3> QED  BY <1>3, <3>1 DEF CreateTask, CreateTaskMCP
  <2> QED  BY <1>1, <2>1
<1>4. CASE SubmitReview(c)
  <2> DEFINE next(t, o) == NextStage(tasks[t].stage, o)
             return(t, o) == IF o = "changes_requested" /\ tasks[t].dri # NoAgent
                             THEN <<StatusTo("in_progress", tasks[t].dri)>> ELSE <<>>
             end(t, o) == IF IsTerminalStage(next(t, o)) THEN <<Done>> ELSE <<>>
             list(t, o) == <<StageTo(next(t, o))>> \o return(t, o) \o end(t, o)
  <2>1. PICK t \in Tasks, o \in Verdicts : Serve(c, "submit_review", t, list(t, o))
    BY <1>4 DEF SubmitReview
  <2> DEFINE S == ReturnsTo(tasks[t].dri)
  <2>2. tasks[t].dri \in Agents \cup {NoAgent}  BY <1>0 DEF Row
  <2>3. /\ StageTo(next(t, o)) \in S /\ Done \in S
        /\ tasks[t].dri # NoAgent => StatusTo("in_progress", tasks[t].dri) \in S
    <3>1. /\ StageTo(next(t, o)) \in Stmt /\ StageTo(next(t, o)).op = "stage"
          /\ Done \in Stmt /\ StatusTo("in_progress", tasks[t].dri) \in Stmt
          /\ StatusTo("in_progress", tasks[t].dri).agent = tasks[t].dri
      BY <2>2, NextStageType, StmtType DEF StageTo, StatusTo, Plain, Statuses
    <3> QED  BY <3>1 DEF ReturnsTo
  <2> HIDE DEF S
  <2>4. <<>> \in Seq(S)  BY EmptySeq
  <2>5. <<StageTo(next(t, o))>> \in Seq(S) /\ return(t, o) \in Seq(S) /\ end(t, o) \in Seq(S)
    BY <2>3, <2>4
  <2>6. list(t, o) \in Seq(S)
    <3> HIDE DEF return, end, next
    <3> QED  BY <2>5, ConcatProperties
  <2>7. /\ \A b \in Clients \ {c} : req'[b] = req[b]
        /\ UNCHANGED <<turn, tasks>>
        /\ req'[c].op = "submit_review" => req'[c].task = t /\ req'[c].writes = list(t, o)
    <3> HIDE DEF list
    <3> QED  BY <1>0, <1>4, <2>1 DEF Serve, IdleRequest, SubmitReview, tableVars
  <2>8. RequestAuthor(c)'
    <3> HIDE DEF list
    <3> QED  BY <2>6, <2>7 DEF RequestAuthor, S, ReturnsTo
  <2> QED  BY <2>7, <2>8, RequestAuthorStep
<1>5. CASE ReqWrite(c)
  <2> DEFINE t == req[c].task
             ws == req[c].writes
  <2>1. t \in Tasks /\ ws # <<>> /\ ws \in Seq(Stmt) /\ tasks[t] \in Row
    BY <1>0, <1>5 DEF IInv, InFlight, ReqWrite, Request
  <2> DEFINE S == ReturnsTo(tasks[t].dri)
  <2>2. ws \in Seq(S) \/ req[c].op # "submit_review"
    BY <1>u DEF RequestAuthor
  <2>3. \A a \in PickReviewer(tasks[t]) : AssignTo(a) \in S
    <3>1. \A a \in Agents : AssignTo(a) \in Stmt /\ AssignTo(a).op = "assign"
      BY StmtType DEF AssignTo, Plain
    <3> QED  BY <2>1, <3>1, PickReviewerType DEF ReturnsTo
  <2>4. PICK rest :
          /\ RequestGoesOn(c, rest)
          /\ rest = Tail(ws) \/ \E a \in PickReviewer(tasks[t]) : rest = <<AssignTo(a)>>
    BY <1>5 DEF ReqWrite
  <2>5. req[c].op = "submit_review" => rest \in Seq(S)
    <3> HIDE DEF S, ws
    <3>1. \A a \in PickReviewer(tasks[t]) : <<AssignTo(a)>> \in Seq(S)
      BY <2>3
    <3>2. ws \in Seq(S) => Tail(ws) \in Seq(S)
      BY <2>1, HeadTailProperties
    <3> QED  BY <2>2, <2>4, <3>1, <3>2
  <2>6. req[c].op # "none" /\ UNCHANGED turn
    BY <1>5 DEF ReqWrite
  <2> QED  BY <2>4, <2>5, <2>6, RequestGoesOnAuthor
<1>6. CASE Disconnect(c)
  <2>1. /\ \A b \in Clients \ {c} : req'[b] = req[b]
        /\ UNCHANGED turn /\ req'[c].op # "submit_review"
    BY <1>0, <1>6 DEF Disconnect, IdleRequest
  <2>2. RequestAuthor(c)'  BY <2>1 DEF RequestAuthor
  <2> QED  BY <2>1, <2>2, RequestAuthorStep
<1>7. CASE ReqWriteFails(c)
  <2> DEFINE S == ReturnsTo(tasks[req[c].task].dri)
             ws == req[c].writes
  <2>1. /\ req[c].op # "none" /\ ws \in Seq(Stmt) /\ ws # <<>>
        /\ UNCHANGED turn
    BY <1>0, <1>7 DEF IInv, InFlight, ReqWriteFails, Request
  <2>2. PICK rest \in {Tail(ws), <<>>} : RequestGoesOn(c, rest)
    BY <1>7 DEF ReqWriteFails
  <2>3. req[c].op = "submit_review" => rest \in Seq(S)
    <3>1. req[c].op = "submit_review" => ws \in Seq(S)  BY <1>u DEF RequestAuthor
    <3> HIDE DEF S, ws
    <3> QED  BY <2>1, <2>2, <3>1, HeadTailProperties, EmptySeq
  <2> QED  BY <2>1, <2>2, <2>3, RequestGoesOnAuthor
<1> QED  BY <1>2, <1>3, <1>4, <1>5, <1>6, <1>7 DEF RequestStep

LEMMA InitAuthorInv == Init => AuthorInv
BY DEF Init, AuthorInv, TurnAuthor, RequestAuthor, IdleTurn, IdleRequest

LEMMA AuthorInvariant == Spec => []AuthorInv
<1>1. IInv /\ AuthorInv /\ [Next]_vars => AuthorInv'
  <2> SUFFICES ASSUME IInv, AuthorInv, [Next]_vars PROVE AuthorInv'
    OBVIOUS
  <2>0. TableStep  BY EveryStep
  <2>1. ASSUME NEW d \in Daemons, SchedulerStep(d) PROVE AuthorInv'
    BY <2>0, <2>1, SchedulerAuthor
  <2>2. ASSUME NEW d \in Daemons, MergerStep(d) PROVE AuthorInv'
    <3>1. UNCHANGED <<turn, req>>
      BY <2>2 DEF MergerStep, ListMerging, MergeSkip, MergeOk, MergeFail, Process, MergeWrite
    <3> QED  BY <2>0, <3>1, OthersAuthorStep
  <2>3. ASSUME NEW d \in Daemons, FaultStep(d) PROVE AuthorInv'
    BY <2>0, <2>3, FaultAuthor
  <2>4. ASSUME NEW c \in Clients, RequestStep(c) PROVE AuthorInv'
    BY <2>0, <2>4, RequestAuthors
  <2>5. ASSUME NEW t \in Tasks, StatementStep(t) PROVE AuthorInv'
    <3>1. UNCHANGED <<turn, req>>
      BY <2>5 DEF StatementStep, SetStatus, Assign, Requeue, ForceTransition, Update
    <3> QED  BY <2>0, <3>1, OthersAuthorStep
  <2>6. CASE UNCHANGED vars
    BY <2>0, <2>6, OthersAuthorStep DEF vars
  <2> QED  BY <2>1, <2>2, <2>3, <2>4, <2>5, <2>6 DEF Next
<1> QED  BY InitAuthorInv, Invariant, <1>1, PTL DEF Spec

(* A reviewer picked by the scheduler from a row it read earlier is not    *)
(* the author when the assignment runs, unless there is nobody else: the   *)
(* claim gave the task an author before it was asked who may review it.    *)
THEOREM ReviewerIsAnother == Spec => []ReviewerIsNotAuthor
<1>1. IInv /\ AuthorInv => ReviewerIsNotAuthor
  <2> SUFFICES ASSUME IInv, AuthorInv, NEW d \in Daemons, turn[d].pc = "writing",
                      Head(turn[d].writes).op = "assign"
               PROVE  LET dri == tasks[turn[d].task].dri
                      IN Head(turn[d].writes).agent # dri \/ Agents \subseteq {dri}
    BY DEF ReviewerIsNotAuthor
  <2>1. /\ turn[d].writes \in Seq(AssignsOther(tasks[turn[d].task].dri))
        /\ turn[d].writes # <<>>
    BY DEF IInv, InFlight, AuthorInv, TurnAuthor
  <2>2. Head(turn[d].writes) \in AssignsOther(tasks[turn[d].task].dri)
    BY <2>1, HeadTailProperties
  <2> QED  BY <2>2 DEF AssignsOther
<1> QED  BY Invariant, AuthorInvariant, <1>1, PTL

(* The agent that submit-review hands a task back to, read before the      *)
(* stage was written, is its author when the statement runs.               *)
THEOREM ReviewReturns == Spec => []ReviewReturnsToAuthor
<1>1. IInv /\ AuthorInv => ReviewReturnsToAuthor
  <2> SUFFICES ASSUME IInv, AuthorInv, NEW c \in Clients, req[c].op = "submit_review",
                      Head(req[c].writes).op = "status"
               PROVE  \/ Head(req[c].writes) = Done
                      \/ Head(req[c].writes).agent = tasks[req[c].task].dri
    BY DEF ReviewReturnsToAuthor
  <2>1. /\ req[c].writes \in Seq(ReturnsTo(tasks[req[c].task].dri))
        /\ req[c].writes # <<>>
    BY DEF IInv, InFlight, AuthorInv, RequestAuthor
  <2>2. Head(req[c].writes) \in ReturnsTo(tasks[req[c].task].dri)
    BY <2>1, HeadTailProperties
  <2> QED  BY <2>2 DEF ReturnsTo
<1> QED  BY Invariant, AuthorInvariant, <1>1, PTL

-----------------------------------------------------------------------------
(* The pipeline.  Under PipelineOnly each stage has one writer: the engine *)
(* writes the stage of a task in a stage of its own, an approval that of a *)
(* task in a human stage, the merge worker that of a task in Merging, and  *)
(* nobody that of a task in a terminal stage.  A pending statement says in *)
(* which of these the task is, so no other actor's step can disturb it.    *)

HumanStage(s) == s \in Stages /\ StageType[s] = "human"
EngineStage(s) ==
  s \in Stages /\ StageType[s] \notin {"human", "terminal"} /\ s # "Merging"

(* A move is lost where somebody moves tasks, by the engine or the merge   *)
(* worker, and such a task may be done where it is.                        *)
RowOK(t, r, lost) ==
  /\ r.wf => r.stage # NoStage
  /\ r.wf /\ r.status = "done" => IsTerminalStage(r.stage) \/ t \in lost
  /\ t \in lost => r.wf /\ (EngineStage(r.stage) \/ r.stage = "Merging")

PickOnly == {w \in Stmt : w.op \in {"assign", "pick_reviewer_if_in_review"}}

(* What a turn may be about to write for task t, by its row as it is now,  *)
(* the tasks whose move was lost and those whose workflow was unreadable.  *)
TurnWrites(ws, t, r, lost, blind) ==
  \/ ws \in Seq(PickOnly)
  \/ ws = <<Done>> /\ ~r.wf
  \/ ws = Handled(<<Done>>) /\ r.wf /\ IsTerminalStage(r.stage)
  \/ ws = Handled(<<Done>>) /\ r.wf /\ EngineStage(r.stage) /\ t \in lost
  \/ /\ ws \in {<<Plain("fail")>>, <<Plain("fail"), Plain("fail")>>}
     /\ ~r.wf \/ EngineStage(r.stage) \/ t \in blind
  \/ /\ r.wf /\ EngineStage(r.stage) /\ r.status # "done"
     /\ \E e \in Edges : e[1] = r.stage /\ ws = Handled(MoveTo(e[3]))

(* The copy of the row is right about the workflow, and about the stage    *)
(* unless it is one the turn will leave alone.                             *)
TurnPlan(d) ==
  LET r == tasks[turn[d].task]
  IN turn[d].pc # "idle" =>
       /\ turn[d].wf = r.wf
       /\ ~r.wf => /\ r.stage # "Merging"
                   /\ turn[d].pc # "picked" => r.status # "done"
       /\ r.wf => /\ turn[d].stage \notin {NoStage, "Merging"}
                  /\ turn[d].pc # "writing" =>
                       HumanStage(turn[d].stage) \/ r.stage = turn[d].stage
       /\ turn[d].pc = "claimed" /\ r.wf /\ EngineStage(r.stage) => r.status # "done"
       /\ turn[d].pc = "writing" =>
            TurnWrites(turn[d].writes, turn[d].task, r, unmoved, misread)

(* An approval's statements.                                               *)
RequestPlan(c) ==
  LET r == tasks[req[c].task]
  IN req[c].op # "none" =>
       /\ r.wf
       /\ \/ /\ HumanStage(r.stage)
             /\ \E e \in Edges : e[1] = r.stage /\ req[c].writes = MoveTo(e[3])
          \/ req[c].writes = <<Done>> /\ IsTerminalStage(r.stage)

(* The batch lists each task once, and what was listed is still so.        *)
Listed(d, i) == merger[d].queue[i]

MergerPlan(d) ==
  LET r == tasks[merger[d].task]
      ws == merger[d].writes
  IN /\ \A i \in 1..Len(merger[d].queue) :
          /\ tasks[Listed(d, i).task].stage = "Merging"
          /\ Listed(d, i).wf = tasks[Listed(d, i).task].wf
          /\ \A j \in 1..Len(merger[d].queue) :
               Listed(d, i).task = Listed(d, j).task => i = j
     /\ \/ ws \in {<<>>, <<Plain("clear_git")>>}
        \/ ws = <<Done, Plain("clear_git")>> /\ r.wf /\ IsTerminalStage(r.stage)
        \/ /\ ws = <<Done, Plain("clear_git")>> /\ r.wf
           /\ r.stage = "Merging" /\ merger[d].task \in unmoved
        \/ /\ ws \in {<<Plain("fail")>>, <<StageTo("Done"), Done, Plain("clear_git")>>}
           /\ r.wf /\ r.stage = "Merging"
           /\ \A i \in 1..Len(merger[d].queue) : Listed(d, i).task # merger[d].task

PlanInv ==
  /\ \A t \in Tasks : RowOK(t, tasks[t], unmoved)
  /\ \A d \in Daemons : TurnPlan(d) /\ MergerPlan(d)
  /\ \A c \in Clients : RequestPlan(c)

-----------------------------------------------------------------------------
(* What a statement does to a row: by each kind of actor, and then as a    *)
(* step of the abstract pipeline.                                          *)

Stays(t, r, q) ==
  /\ q.wf = r.wf /\ q.stage = r.stage
  /\ \/ q.status = r.status
     \/ q.status = "todo"
     \/ q.status = "failed" /\ (r.status # "done" \/ t \in unmoved \cup misread)
     \/ q.status = "done" /\ r.wf /\ IsTerminalStage(r.stage)

Claims(r, q) ==
  /\ q.wf = r.wf /\ q.stage = r.stage
  /\ r.status = "todo" /\ q.status = "in_progress"

EndsLegacy(r, q) ==
  ~r.wf /\ q.wf = r.wf /\ q.stage = r.stage /\ q.status = "done"

EndsUnmoved(t, r, q) ==
  t \in unmoved /\ q.wf = r.wf /\ q.stage = r.stage /\ q.status = "done"

Moves(r, q) ==
  /\ r.wf /\ q.wf = r.wf /\ q.status = r.status
  /\ \E e \in Edges : e[1] = r.stage /\ q.stage = e[3]

TurnRow(t, r, q) ==
  \/ Stays(t, r, q) \/ Claims(r, q) \/ EndsLegacy(r, q)
  \/ EngineStage(r.stage) /\ EndsUnmoved(t, r, q)
  \/ EngineStage(r.stage) /\ r.status # "done" /\ Moves(r, q)

RequestRow(t, r, q) == Stays(t, r, q) \/ (HumanStage(r.stage) /\ Moves(r, q))

MergerRow(t, r, q) ==
  \/ Stays(t, r, q)
  \/ r.stage = "Merging" /\ EndsUnmoved(t, r, q)
  \/ r.stage = "Merging" /\ q.stage = "Done" /\ Moves(r, q)

(* What a statement does to the history: see Execute.                      *)
Writes(t, q) ==
  /\ tasks' = [tasks EXCEPT ![t] = q]
  /\ unmoved' = IF q.stage # tasks[t].stage THEN unmoved \ {t} ELSE unmoved
  /\ misread' = IF tasks[t].status = "todo" /\ q.status = "in_progress"
                THEN misread \ {t} ELSE misread

(* A loss is forgotten only when the task moves.                           *)
LossKept ==
  \A u \in Tasks : u \in unmoved /\ tasks'[u].stage = tasks[u].stage => u \in unmoved'

LEMMA StageKinds ==
  ASSUME PipelineOnly
  PROVE  /\ \A s : ~(HumanStage(s) /\ EngineStage(s))
         /\ \A s : ~(HumanStage(s) /\ IsTerminalStage(s))
         /\ \A s : ~(EngineStage(s) /\ IsTerminalStage(s))
         /\ ~HumanStage("Merging") /\ ~EngineStage("Merging")
         /\ ~IsTerminalStage("Merging") /\ IsTerminalStage("Done")
BY DEF PipelineOnly, HumanStage, EngineStage, IsTerminalStage

LEMMA EdgeTo == \A e \in Edges : e[3] \in StageNames /\ e[3] # NoStage
BY WorkflowAssumption

LEMMA RowKept ==
  ASSUME PipelineOnly, NEW t, NEW r, NEW q, NEW lost, RowOK(t, r, unmoved),
         TurnRow(t, r, q) \/ RequestRow(t, r, q) \/ MergerRow(t, r, q),
         t \in lost <=> t \in unmoved /\ q.stage = r.stage
  PROVE  RowOK(t, q, lost)
<1>1. CASE Stays(t, r, q)        BY <1>1 DEF Stays, RowOK
<1>2. CASE EndsLegacy(r, q)      BY <1>2 DEF EndsLegacy, RowOK
<1>3. CASE Claims(r, q)          BY <1>3 DEF Claims, RowOK
<1>4. CASE EndsUnmoved(t, r, q)  BY <1>4 DEF EndsUnmoved, RowOK
<1>5. CASE Moves(r, q) /\ (r.status # "done" \/ q.stage = "Done")
  <2>1. q.stage # NoStage /\ q.wf = r.wf /\ r.wf /\ q.status = r.status
    BY <1>5, EdgeTo DEF Moves
  <2> QED  BY <1>5, <2>1, StageKinds DEF RowOK
<1>6. CASE Moves(r, q) /\ HumanStage(r.stage)
  <2>1. r.status # "done"
    BY <1>6, StageKinds DEF RowOK, Moves
  <2> QED  BY <1>5, <1>6, <2>1
<1> QED  BY <1>1, <1>2, <1>3, <1>4, <1>5, <1>6 DEF TurnRow, RequestRow, MergerRow

(* A statement on one row leaves the others as they were.                  *)
LEMMA WritesUse ==
  ASSUME IInv, NEW t \in Tasks, NEW q, Writes(t, q)
  PROVE  /\ tasks'[t] = q
         /\ \A u \in Tasks \ {t} : tasks'[u] = tasks[u]
         /\ \A u \in Tasks :
              u \in unmoved' <=> u \in unmoved /\ tasks'[u].stage = tasks[u].stage
         /\ LossKept
         /\ q.status # "in_progress" \/ q.status = tasks[t].status
              => misread' = misread
<1>1. tasks \in [Tasks -> Row]  BY TypeUse
<1>2. /\ tasks'[t] = q
      /\ \A u \in Tasks \ {t} : tasks'[u] = tasks[u]
  BY <1>1 DEF Writes
<1>3. \A u \in Tasks :
        u \in unmoved' <=> u \in unmoved /\ tasks'[u].stage = tasks[u].stage
  BY <1>2 DEF Writes
<1>4. LossKept  BY <1>3 DEF LossKept
<1>5. q.status # "in_progress" \/ q.status = tasks[t].status => misread' = misread
  BY DEF Writes
<1> QED  BY <1>2, <1>3, <1>4, <1>5

LEMMA PipelineRow ==
  ASSUME IInv, NEW t \in Tasks, NEW q,
         Writes(t, q),
         \/ TurnRow(t, tasks[t], q) \/ RequestRow(t, tasks[t], q)
         \/ MergerRow(t, tasks[t], q)
  PROVE  [Pipeline!Next]_Pipeline!vars
<1> DEFINE r == tasks[t]
<1>0. tasks \in [Tasks -> Row] /\ tasks' = [tasks EXCEPT ![t] = q]
  BY TypeUse DEF Writes
<1>h. /\ q.stage = r.stage => unmoved' = unmoved
      /\ q.stage # r.stage => unmoved' = unmoved \ {t}
      /\ q.status # "in_progress" \/ q.status = r.status => misread' = misread
      /\ r.status = "todo" /\ q.status = "in_progress" => misread' = misread \ {t}
  BY DEF Writes
<1>1. /\ [u \in Tasks |-> tasks[u].status]' =
           [[u \in Tasks |-> tasks[u].status] EXCEPT ![t] = q.status]
      /\ [u \in Tasks |-> tasks[u].stage]' =
           [[u \in Tasks |-> tasks[u].stage] EXCEPT ![t] = q.stage]
      /\ [u \in Tasks |-> tasks[u].wf]' =
           [[u \in Tasks |-> tasks[u].wf] EXCEPT ![t] = q.wf]
  BY <1>0
<1>2. q.status = r.status =>
        [u \in Tasks |-> tasks[u].status]' = [u \in Tasks |-> tasks[u].status]
  BY <1>0
<1>3. q.stage = r.stage =>
        [u \in Tasks |-> tasks[u].stage]' = [u \in Tasks |-> tasks[u].stage]
  BY <1>0
<1>4. q.wf = r.wf => [u \in Tasks |-> tasks[u].wf]' = [u \in Tasks |-> tasks[u].wf]
  BY <1>0
<1>5. CASE Stays(t, r, q)
  <2>1. CASE q.status = r.status
    BY <1>2, <1>3, <1>4, <1>5, <1>h, <2>1 DEF Stays, Pipeline!vars
  <2>2. CASE q.status = "todo"
    <3>1. Pipeline!Requeue(t)
      BY <1>1, <1>3, <1>4, <1>5, <1>h, <2>2 DEF Stays, Pipeline!Requeue
    <3> QED  BY <3>1 DEF Pipeline!Next
  <2>3. CASE q.status = "failed" /\ (r.status # "done" \/ t \in unmoved \cup misread)
    <3>1. Pipeline!Fail(t)
      BY <1>1, <1>3, <1>4, <1>5, <1>h, <2>3 DEF Stays, Pipeline!Fail
    <3> QED  BY <3>1 DEF Pipeline!Next
  <2>4. CASE q.status = "done" /\ r.wf /\ IsTerminalStage(r.stage)
    <3>1. Pipeline!Finish(t)
      BY <1>1, <1>3, <1>4, <1>5, <1>h, <2>4
         DEF Stays, Pipeline!Finish, Pipeline!Finished, Pipeline!IsTerminalStage, IsTerminalStage
    <3> QED  BY <3>1 DEF Pipeline!Next
  <2> QED  BY <1>5, <2>1, <2>2, <2>3, <2>4 DEF Stays
<1>6. CASE EndsLegacy(r, q)
  <2>1. Pipeline!Finish(t)
    BY <1>1, <1>3, <1>4, <1>6, <1>h DEF EndsLegacy, Pipeline!Finish, Pipeline!Finished
  <2> QED  BY <2>1 DEF Pipeline!Next
<1>7. CASE EndsUnmoved(t, r, q)
  <2>1. Pipeline!Finish(t)
    BY <1>1, <1>3, <1>4, <1>7, <1>h DEF EndsUnmoved, Pipeline!Finish
  <2> QED  BY <2>1 DEF Pipeline!Next
<1>8. CASE Claims(r, q)
  <2>1. Pipeline!Claim(t)
    BY <1>1, <1>3, <1>4, <1>8, <1>h DEF Claims, Pipeline!Claim
  <2> QED  BY <2>1 DEF Pipeline!Next
<1>9. CASE Moves(r, q)
  <2>1. CASE q.stage = r.stage
    BY <1>2, <1>3, <1>4, <1>9, <1>h, <2>1 DEF Moves, Pipeline!vars
  <2>2. CASE q.stage # r.stage
    <3>1. misread' = misread /\ unmoved' = unmoved \ {t}
      BY <1>9, <1>h, <2>2 DEF Moves
    <3>2. PICK e \in Edges : e[1] = r.stage /\ q.stage = e[3]
      BY <1>9 DEF Moves
    <3>3. r.wf /\ q.wf = r.wf /\ q.status = r.status
      BY <1>9 DEF Moves
    <3> HIDE DEF r
    <3>4. /\ [u \in Tasks |-> tasks[u].stage][t] = r.stage
          /\ [u \in Tasks |-> tasks[u].wf][t] = r.wf
      BY DEF r
    <3>5. /\ [u \in Tasks |-> tasks[u].wf][t]
          /\ \E f \in Edges :
               /\ f[1] = [u \in Tasks |-> tasks[u].stage][t]
               /\ [u \in Tasks |-> tasks[u].stage]' =
                    [[u \in Tasks |-> tasks[u].stage] EXCEPT ![t] = f[3]]
      <4>1. [u \in Tasks |-> tasks[u].wf][t]  BY <3>3, <3>4
      <4>2. e[1] = [u \in Tasks |-> tasks[u].stage][t]  BY <3>2, <3>4
      <4>3. [u \in Tasks |-> tasks[u].stage]' =
              [[u \in Tasks |-> tasks[u].stage] EXCEPT ![t] = e[3]]
        BY <1>1, <3>2
      <4> QED  BY <4>1, <4>2, <4>3
    <3>6. /\ [u \in Tasks |-> tasks[u].status]' = [u \in Tasks |-> tasks[u].status]
          /\ [u \in Tasks |-> tasks[u].wf]' = [u \in Tasks |-> tasks[u].wf]
      BY <1>2, <1>4, <3>3
    <3>7. Pipeline!Advance(t)  BY <3>1, <3>5, <3>6 DEF Pipeline!Advance
    <3> QED  BY <3>7 DEF Pipeline!Next
  <2> QED  BY <2>1, <2>2
<1> QED  BY <1>5, <1>6, <1>7, <1>8, <1>9 DEF TurnRow, RequestRow, MergerRow

-----------------------------------------------------------------------------
(* Nobody disturbs another actor's plan.                                   *)

LEMMA TurnPlanKept ==
  ASSUME PipelineOnly, IInv, NEW d \in Daemons, TurnPlan(d), turn'[d] = turn[d],
         \A u \in Tasks : RowOK(u, tasks[u], unmoved),
         LossKept, misread \subseteq misread',
         \A u \in Tasks : \/ RequestRow(u, tasks[u], tasks'[u])
                          \/ MergerRow(u, tasks[u], tasks'[u])
  PROVE  TurnPlan(d)'
<1> SUFFICES ASSUME turn[d].pc # "idle"  PROVE TurnPlan(d)'
  BY DEF TurnPlan
<1> DEFINE t == turn[d].task
           r == tasks[t]
           q == tasks'[t]
           ws == turn[d].writes
<1>1. t \in Tasks  BY DEF IInv, InFlight
<1>2. RequestRow(t, r, q) \/ MergerRow(t, r, q)  BY <1>1
<1>3. RowOK(t, r, unmoved) /\ (q.stage = r.stage /\ t \in unmoved => t \in unmoved')
  BY <1>1 DEF LossKept
<1>4. /\ TurnPlan(d)
      /\ turn[d].pc = "writing" => TurnWrites(ws, t, r, unmoved, misread)
  BY DEF TurnPlan
<1>5. CASE Stays(t, r, q)
  <2>1. q.stage = r.stage /\ q.wf = r.wf
    BY <1>5 DEF Stays
  <2>2. q.status = "done" => r.status = "done" \/ (r.wf /\ IsTerminalStage(r.stage))
    <3> SUFFICES ASSUME q.status = "done", r.status # "done"
                 PROVE  r.wf /\ IsTerminalStage(r.stage)
      OBVIOUS
    <3> QED  BY <1>5 DEF Stays
  <2>3. turn[d].pc = "writing" => TurnWrites(ws, t, q, unmoved', misread')
    BY <1>3, <1>4, <2>1, <2>2, StageKinds DEF TurnWrites
  <2> QED  BY <1>4, <2>1, <2>2, <2>3, StageKinds DEF TurnPlan
<1>6. CASE Moves(r, q) /\ (HumanStage(r.stage) \/ (r.stage = "Merging" /\ q.stage = "Done"))
  <2>1. turn[d].pc = "writing" => TurnWrites(ws, t, q, unmoved', misread')
    BY <1>4, <1>6, StageKinds DEF Moves, TurnWrites, TurnPlan
  <2>2. turn[d].pc # "writing" => HumanStage(turn[d].stage) \/ q.stage = turn[d].stage
    BY <1>4, <1>6 DEF Moves, TurnPlan
  <2>3. EngineStage(q.stage) => q.status # "done"
    BY <1>3, <1>6, StageKinds DEF Moves, RowOK
  <2> QED  BY <1>4, <1>6, <2>1, <2>2, <2>3 DEF Moves, TurnPlan
<1>7. CASE r.stage = "Merging" /\ EndsUnmoved(t, r, q)
  <2>1. q.stage = r.stage /\ q.wf = r.wf /\ r.wf
    BY <1>3, <1>7 DEF EndsUnmoved, RowOK
  <2>2. turn[d].pc = "writing" => TurnWrites(ws, t, q, unmoved', misread')
    BY <1>4, <1>7, <2>1, StageKinds DEF TurnWrites
  <2> QED  BY <1>4, <1>7, <2>1, <2>2, StageKinds DEF TurnPlan
<1> QED  BY <1>2, <1>5, <1>6, <1>7 DEF RequestRow, MergerRow

LEMMA RequestPlanKept ==
  ASSUME PipelineOnly, IInv, NEW c \in Clients, RequestPlan(c), req'[c] = req[c],
         \A u \in Tasks : \/ TurnRow(u, tasks[u], tasks'[u])
                          \/ MergerRow(u, tasks[u], tasks'[u])
  PROVE  RequestPlan(c)'
<1> SUFFICES ASSUME req[c].op # "none"  PROVE RequestPlan(c)'
  BY DEF RequestPlan
<1> DEFINE t == req[c].task
           r == tasks[t]
           q == tasks'[t]
<1>1. t \in Tasks  BY DEF IInv, InFlight
<1>2. r.wf /\ (HumanStage(r.stage) \/ IsTerminalStage(r.stage))
  BY DEF RequestPlan
<1>3. q.wf = r.wf /\ q.stage = r.stage
  <2>1. TurnRow(t, r, q) \/ MergerRow(t, r, q)  BY <1>1
  <2> QED  BY <1>2, <2>1, StageKinds DEF TurnRow, MergerRow, EndsLegacy, Stays, Claims
<1> QED  BY <1>3 DEF RequestPlan

LEMMA MergerPlanKept ==
  ASSUME PipelineOnly, IInv, NEW d \in Daemons, MergerPlan(d), merger'[d] = merger[d],
         LossKept,
         \A u \in Tasks : \/ TurnRow(u, tasks[u], tasks'[u])
                          \/ RequestRow(u, tasks[u], tasks'[u])
  PROVE  MergerPlan(d)'
<1> DEFINE t == merger[d].task
           Safe(u) == /\ tasks'[u].stage = tasks[u].stage
                      /\ tasks'[u].wf = tasks[u].wf
<1>1. ASSUME NEW u \in Tasks, tasks[u].stage = "Merging" \/ IsTerminalStage(tasks[u].stage)
      PROVE  Safe(u)
  BY <1>1, StageKinds DEF TurnRow, RequestRow, Stays, Claims, EndsLegacy
<1>2. \A i \in 1..Len(merger[d].queue) : Listed(d, i).task \in Tasks
  BY QueueTasks, TypeUse DEF Listed
<1>3. \A i \in 1..Len(merger[d].queue) :
        /\ tasks'[Listed(d, i).task].stage = "Merging"
        /\ Listed(d, i).wf = tasks'[Listed(d, i).task].wf
  BY <1>1, <1>2 DEF MergerPlan
<1>4. merger[d].writes # <<>> => t \in Tasks  BY DEF IInv, InFlight
<1>5. CASE merger[d].writes \in {<<>>, <<Plain("clear_git")>>}
  BY <1>3, <1>5 DEF MergerPlan, Listed
<1>6. CASE merger[d].writes \notin {<<>>, <<Plain("clear_git")>>}
  <2>1. Safe(t)
    BY <1>1, <1>4, <1>6 DEF MergerPlan
  <2> HIDE DEF Safe
  <2>2. tasks'[t].stage = tasks[t].stage /\ tasks'[t].wf = tasks[t].wf
    BY <2>1 DEF Safe
  <2>3. t \in unmoved => t \in unmoved'
    BY <1>4, <1>6, <2>2 DEF LossKept
  <2>4. \A i, j \in 1..Len(merger[d].queue) : Listed(d, i).task = Listed(d, j).task => i = j
    BY DEF MergerPlan
  <2> DEFINE ws == merger[d].writes
             r == tasks[t]
             q == tasks'[t]
             Fresh == \A i \in 1..Len(merger[d].queue) : Listed(d, i).task # t
  <2>5. \/ ws = <<Done, Plain("clear_git")>> /\ r.wf /\ IsTerminalStage(r.stage)
        \/ ws = <<Done, Plain("clear_git")>> /\ r.wf /\ r.stage = "Merging" /\ t \in unmoved
        \/ /\ ws \in {<<Plain("fail")>>, <<StageTo("Done"), Done, Plain("clear_git")>>}
           /\ r.wf /\ r.stage = "Merging" /\ Fresh
    BY <1>6 DEF MergerPlan
  <2>6. q.stage = r.stage /\ q.wf = r.wf  BY <2>2
  <2> HIDE DEF ws, r, q, Fresh
  <2>7. \/ ws = <<Done, Plain("clear_git")>> /\ q.wf /\ IsTerminalStage(q.stage)
        \/ ws = <<Done, Plain("clear_git")>> /\ q.wf /\ q.stage = "Merging" /\ t \in unmoved'
        \/ /\ ws \in {<<Plain("fail")>>, <<StageTo("Done"), Done, Plain("clear_git")>>}
           /\ q.wf /\ q.stage = "Merging" /\ Fresh
    BY <2>3, <2>5, <2>6
  <2>8. /\ merger'[d].task = t /\ merger'[d].writes = ws
        /\ merger'[d].queue = merger[d].queue
    BY DEF ws
  <2>9. MergerPlan(d)' <=>
          /\ \A i \in 1..Len(merger'[d].queue) :
               /\ tasks'[merger'[d].queue[i].task].stage = "Merging"
               /\ merger'[d].queue[i].wf = tasks'[merger'[d].queue[i].task].wf
               /\ \A j \in 1..Len(merger'[d].queue) :
                    merger'[d].queue[i].task = merger'[d].queue[j].task => i = j
          /\ \/ ws \in {<<>>, <<Plain("clear_git")>>}
             \/ ws = <<Done, Plain("clear_git")>> /\ q.wf /\ IsTerminalStage(q.stage)
             \/ ws = <<Done, Plain("clear_git")>> /\ q.wf /\ q.stage = "Merging" /\ t \in unmoved'
             \/ /\ ws \in {<<Plain("fail")>>, <<StageTo("Done"), Done, Plain("clear_git")>>}
                /\ q.wf /\ q.stage = "Merging"
                /\ \A i \in 1..Len(merger'[d].queue) : merger'[d].queue[i].task # t
    BY <2>8 DEF MergerPlan, Listed, q
  <2> QED  BY <1>3, <2>4, <2>7, <2>8, <2>9 DEF Listed, Fresh
<1> QED  BY <1>5, <1>6

-----------------------------------------------------------------------------
(* One actor moves.                                                        *)

PipelineStep == PlanInv' /\ [Pipeline!Next]_Pipeline!vars

LEMMA TurnActs ==
  ASSUME PipelineOnly, IInv, PlanInv, UNCHANGED <<merger, req>>,
         NEW d \in Daemons, TurnPlan(d)',
         NEW t \in Tasks, NEW q, Writes(t, q), TurnRow(t, tasks[t], q)
  PROVE  PipelineStep
<1>1. /\ tasks'[t] = q /\ \A u \in Tasks \ {t} : tasks'[u] = tasks[u]
      /\ \A u \in Tasks :
           u \in unmoved' <=> u \in unmoved /\ tasks'[u].stage = tasks[u].stage
      /\ LossKept
  BY WritesUse
<1>2. \A u \in Tasks : TurnRow(u, tasks[u], tasks'[u])
  BY <1>1 DEF TurnRow, Stays
<1>3. \A u \in Tasks : RowOK(u, tasks'[u], unmoved')
  BY <1>1, <1>2, RowKept DEF PlanInv
<1>4. \A e \in Daemons : TurnPlan(e)'  BY DEF PipelineOnly
<1>5. \A e \in Daemons : MergerPlan(e)'  BY <1>1, <1>2, MergerPlanKept DEF PlanInv
<1>6. \A c \in Clients : RequestPlan(c)'  BY <1>2, RequestPlanKept DEF PlanInv
<1>7. PlanInv'  BY <1>3, <1>4, <1>5, <1>6 DEF PlanInv
<1>8. [Pipeline!Next]_Pipeline!vars  BY PipelineRow
<1> QED  BY <1>7, <1>8 DEF PipelineStep

LEMMA RequestActs ==
  ASSUME PipelineOnly, IInv, PlanInv, UNCHANGED <<turn, merger>>,
         NEW c \in Clients, RequestPlan(c)',
         NEW t \in Tasks, NEW q, Writes(t, q), RequestRow(t, tasks[t], q)
  PROVE  PipelineStep
<1>1. /\ tasks'[t] = q /\ \A u \in Tasks \ {t} : tasks'[u] = tasks[u]
      /\ \A u \in Tasks :
           u \in unmoved' <=> u \in unmoved /\ tasks'[u].stage = tasks[u].stage
      /\ LossKept
  BY WritesUse
<1>h. misread' = misread
  BY WritesUse DEF RequestRow, Stays, Moves
<1>2. \A u \in Tasks : RequestRow(u, tasks[u], tasks'[u])
  BY <1>1 DEF RequestRow, Stays
<1>3. \A u \in Tasks : RowOK(u, tasks'[u], unmoved')
  BY <1>1, <1>2, RowKept DEF PlanInv
<1>4. \A e \in Daemons : TurnPlan(e)'  BY <1>1, <1>2, <1>h, TurnPlanKept DEF PlanInv
<1>5. \A e \in Daemons : MergerPlan(e)'  BY <1>1, <1>2, MergerPlanKept DEF PlanInv
<1>6. \A b \in Clients : RequestPlan(b)'  BY DEF PipelineOnly
<1>7. PlanInv'  BY <1>3, <1>4, <1>5, <1>6 DEF PlanInv
<1>8. [Pipeline!Next]_Pipeline!vars  BY PipelineRow
<1> QED  BY <1>7, <1>8 DEF PipelineStep

LEMMA MergerActs ==
  ASSUME PipelineOnly, IInv, PlanInv, UNCHANGED <<turn, req>>,
         NEW d \in Daemons, MergerPlan(d)',
         NEW t \in Tasks, NEW q, Writes(t, q), MergerRow(t, tasks[t], q)
  PROVE  PipelineStep
<1>1. /\ tasks'[t] = q /\ \A u \in Tasks \ {t} : tasks'[u] = tasks[u]
      /\ \A u \in Tasks :
           u \in unmoved' <=> u \in unmoved /\ tasks'[u].stage = tasks[u].stage
      /\ LossKept
  BY WritesUse
<1>h. misread' = misread
  BY WritesUse DEF MergerRow, Stays, Moves, EndsUnmoved
<1>2. \A u \in Tasks : MergerRow(u, tasks[u], tasks'[u])
  BY <1>1 DEF MergerRow, Stays
<1>3. \A u \in Tasks : RowOK(u, tasks'[u], unmoved')
  BY <1>1, <1>2, RowKept DEF PlanInv
<1>4. \A e \in Daemons : TurnPlan(e)'  BY <1>1, <1>2, <1>h, TurnPlanKept DEF PlanInv
<1>5. \A e \in Daemons : MergerPlan(e)'  BY DEF PipelineOnly
<1>6. \A c \in Clients : RequestPlan(c)'  BY <1>2, RequestPlanKept DEF PlanInv
<1>7. PlanInv'  BY <1>3, <1>4, <1>5, <1>6 DEF PlanInv
<1>8. [Pipeline!Next]_Pipeline!vars  BY PipelineRow
<1> QED  BY <1>7, <1>8 DEF PipelineStep

LEMMA SameRow ==
  ASSUME IInv, NEW t \in Tasks, UNCHANGED <<tasks, unmoved, misread>>
  PROVE  /\ Writes(t, tasks[t]) /\ TurnRow(t, tasks[t], tasks[t])
         /\ RequestRow(t, tasks[t], tasks[t]) /\ MergerRow(t, tasks[t], tasks[t])
<1>1. tasks \in [Tasks -> Row] /\ tasks' = tasks  BY TypeUse
<1>2. tasks' = [tasks EXCEPT ![t] = tasks[t]]  BY <1>1
<1>3. Writes(t, tasks[t])  BY <1>2 DEF Writes
<1> QED  BY <1>3 DEF TurnRow, RequestRow, MergerRow, Stays

(* A statement fails: the rows stay, and the history remembers it.         *)
LEMMA NobodyActs ==
  ASSUME PipelineOnly, IInv, PlanInv, UNCHANGED tasks, unmoved \subseteq unmoved',
         misread \subseteq misread', NEW t \in Tasks,
         \/ unmoved' = unmoved
         \/ /\ unmoved' = unmoved \cup {t} /\ misread' = misread /\ tasks[t].wf
            /\ EngineStage(tasks[t].stage) \/ tasks[t].stage = "Merging"
            /\ \E e \in Edges : e[1] = tasks[t].stage,
         \/ misread' = misread
         \/ misread' = misread \cup {t} /\ tasks[t].wf,
         \A d \in Daemons : turn'[d] = turn[d] \/ TurnPlan(d)',
         \A d \in Daemons : merger'[d] = merger[d] \/ MergerPlan(d)',
         \A c \in Clients : req'[c] = req[c] \/ RequestPlan(c)'
  PROVE  PipelineStep
<1>1. \A u \in Tasks : /\ TurnRow(u, tasks[u], tasks'[u])
                       /\ RequestRow(u, tasks[u], tasks'[u])
                       /\ MergerRow(u, tasks[u], tasks'[u])
  BY DEF TurnRow, RequestRow, MergerRow, Stays
<1>2. LossKept  BY DEF LossKept
<1>3. \A u \in Tasks : RowOK(u, tasks'[u], unmoved')
  BY DEF PlanInv, RowOK
<1>4. \A e \in Daemons : TurnPlan(e)'  BY <1>1, <1>2, TurnPlanKept DEF PlanInv
<1>5. \A e \in Daemons : MergerPlan(e)'  BY <1>1, <1>2, MergerPlanKept DEF PlanInv
<1>6. \A c \in Clients : RequestPlan(c)'  BY <1>1, RequestPlanKept DEF PlanInv
<1>7. [Pipeline!Next]_Pipeline!vars
  <2>1. CASE unmoved' = unmoved /\ misread' = misread
    BY <2>1 DEF Pipeline!vars
  <2>2. CASE unmoved' # unmoved
    <3>1. Pipeline!LoseMove(t)  BY <2>2 DEF Pipeline!LoseMove
    <3> QED  BY <3>1 DEF Pipeline!Next
  <2>3. CASE unmoved' = unmoved /\ misread' # misread
    <3>1. misread' = misread \cup {t} /\ tasks[t].wf  BY <2>3
    <3>2. Pipeline!Misread(t)  BY <2>3, <3>1 DEF Pipeline!Misread
    <3> QED  BY <3>2 DEF Pipeline!Next
  <2> QED  BY <2>1, <2>2, <2>3
<1> QED  BY <1>3, <1>4, <1>5, <1>6, <1>7 DEF PipelineStep, PlanInv

-----------------------------------------------------------------------------
(* The lists of statements, spelt out.                                     *)

Pick1 == Plain("pick_reviewer_if_in_review")

LEMMA AppendLiteral ==
  ASSUME NEW a, NEW b, NEW c
  PROVE  /\ Append(<<>>, b) = <<b>>
         /\ Append(<<a>>, b) = <<a, b>>
         /\ Append(<<a, c>>, b) = <<a, c, b>>
<1> DEFINE S == {a, b, c}
<1>1. /\ <<a>> \in Seq(S) /\ <<a, b>> \in Seq(S) /\ <<a, c>> \in Seq(S)
      /\ <<a, c, b>> \in Seq(S) /\ b \in S
  OBVIOUS
<1> HIDE DEF S
<1>2. Append(<<a>>, b) = <<a, b>>
  <2>1. /\ Append(<<a>>, b) \in Seq(S) /\ Len(Append(<<a>>, b)) = 2
        /\ Append(<<a>>, b)[1] = a /\ Append(<<a>>, b)[2] = b
    <3>1. Len(<<a>>) = 1 /\ <<a>>[1] = a  OBVIOUS
    <3> QED  BY <1>1, <3>1, AppendProperties
  <2>2. Len(<<a, b>>) = 2 /\ <<a, b>>[1] = a /\ <<a, b>>[2] = b  OBVIOUS
  <2>3. \A i \in 1..Len(Append(<<a>>, b)) : Append(<<a>>, b)[i] = <<a, b>>[i]
    BY <2>1, <2>2
  <2> QED  BY <1>1, <2>1, <2>2, <2>3, SeqEqual
<1>3. Append(<<a, c>>, b) = <<a, c, b>>
  <2>1. /\ Append(<<a, c>>, b) \in Seq(S) /\ Len(Append(<<a, c>>, b)) = 3
        /\ Append(<<a, c>>, b)[1] = a /\ Append(<<a, c>>, b)[2] = c
        /\ Append(<<a, c>>, b)[3] = b
    <3>1. Len(<<a, c>>) = 2 /\ <<a, c>>[1] = a /\ <<a, c>>[2] = c  OBVIOUS
    <3> QED  BY <1>1, <3>1, AppendProperties
  <2>2. /\ Len(<<a, c, b>>) = 3 /\ <<a, c, b>>[1] = a /\ <<a, c, b>>[2] = c
        /\ <<a, c, b>>[3] = b
    OBVIOUS
  <2>3. \A i \in 1..Len(Append(<<a, c>>, b)) : Append(<<a, c>>, b)[i] = <<a, c, b>>[i]
    BY <2>1, <2>2
  <2> QED  BY <1>1, <2>1, <2>2, <2>3, SeqEqual
<1> QED  BY <1>2, <1>3

LEMMA Lists ==
  /\ Handled(<<>>) = <<Pick1>> /\ Handled(<<Done>>) = <<Done, Pick1>>
  /\ <<Pick1>> \in Seq(PickOnly)
  /\ \A s : s # NoStage =>
       /\ MoveTo(s) = IF IsTerminalStage(s) THEN <<StageTo(s), Done>> ELSE <<StageTo(s)>>
       /\ Handled(MoveTo(s)) = IF IsTerminalStage(s) THEN <<StageTo(s), Done, Pick1>>
                               ELSE <<StageTo(s), Pick1>>
  /\ MoveTo(NoStage) = <<>>
<1>1. Pick1 \in PickOnly
  BY StmtType DEF Pick1, PickOnly, Plain, StmtOps
<1>2. <<Pick1>> \in Seq(PickOnly)  BY <1>1
<1>3. \A a, b, c : /\ Append(<<>>, b) = <<b>> /\ Append(<<a>>, b) = <<a, b>>
                   /\ Append(<<a, c>>, b) = <<a, c, b>>
  BY AppendLiteral
<1>4. \A ws : Handled(ws) = Append(ws, Pick1)  BY DEF Handled, Pick1
<1>5. \A s : s # NoStage =>
        MoveTo(s) = IF IsTerminalStage(s) THEN <<StageTo(s), Done>> ELSE <<StageTo(s)>>
  BY DEF MoveTo
<1>6. MoveTo(NoStage) = <<>>  BY DEF MoveTo
<1> QED  BY <1>2, <1>3, <1>4, <1>5, <1>6

LEMMA Ops1 ==
  /\ Done.op = "status" /\ Done.status = "done" /\ Done.agent = NoAgent
  /\ \A s : StageTo(s).op = "stage" /\ StageTo(s).stage = s
  /\ \A op : Plain(op).op = op
  /\ Pick1.op = "pick_reviewer_if_in_review"
  /\ \A a : AssignTo(a).op = "assign"
BY DEF Done, StatusTo, StageTo, Plain, Pick1, AssignTo

LEMMA NextEdge ==
  ASSUME NEW s, NEW o, NextStage(s, o) # NoStage
  PROVE  \E e \in Edges : e[1] = s /\ e[2] = o /\ e[3] = NextStage(s, o)
BY DEF NextStage

(* What each statement does to what the pipeline sees of a row.            *)
LEMMA RowKinds ==
  ASSUME NEW r \in Row, NEW w,
         w.op \in {"stage", "status", "assign", "fail", "clear_git"}
  PROVE  /\ Apply(r, w).wf = r.wf
         /\ w.op = "stage" => Apply(r, w).stage = w.stage /\ Apply(r, w).status = r.status
         /\ w.op # "stage" => Apply(r, w).stage = r.stage
         /\ w.op = "status" => Apply(r, w).status = w.status
         /\ w.op = "fail" => Apply(r, w).status = "failed"
         /\ w.op \in {"assign", "clear_git"} => Apply(r, w).status = r.status
<1> USE DEF Row
<1>1. CASE w.op = "stage"      BY <1>1 DEF Apply, UpdateTaskStage
<1>2. CASE w.op = "status"     BY <1>2 DEF Apply, UpdateTask
<1>3. CASE w.op = "assign"     BY <1>3 DEF Apply, AssignTask
<1>4. CASE w.op = "fail"       BY <1>4 DEF Apply, SetTaskFailed
<1>5. CASE w.op = "clear_git"  BY <1>5 DEF Apply, ClearTaskGitFields
<1> QED  BY <1>1, <1>2, <1>3, <1>4, <1>5

-----------------------------------------------------------------------------
(* The scheduler.                                                          *)

(* A turn of another daemon does not exist.  d's turn becomes x.           *)
LEMMA PlanPick ==
  ASSUME PipelineOnly, IInv, PlanInv, NEW d \in Daemons, Pick(d)
  PROVE  PipelineStep
<1>1. PICK u \in NextRunnable : \E a \in PickAssignee(tasks[u]) :
        turn' = [turn EXCEPT ![d] =
                  [IdleTurn EXCEPT !.pc = "picked", !.task = u, !.agent = a,
                                   !.wf = tasks[u].wf, !.stage = tasks[u].stage,
                                   !.worktree = tasks[u].worktree]]
  BY DEF Pick
<1>2. u \in Tasks /\ tasks[u].stage # "Merging"
  BY DEF NextRunnable, OldestOf, Runnable
<1>0. turn \in [Daemons -> Turn] /\ tasks \in [Tasks -> Row]
  BY TypeUse DEF IInv, TypeOK
<1>3. /\ turn'[d].pc = "picked" /\ turn'[d].task = u /\ turn'[d].wf = tasks[u].wf
      /\ turn'[d].stage = tasks[u].stage
  BY <1>0, <1>1, IdleTurnType DEF Turn
<1>4. UNCHANGED <<tasks, unmoved, misread, merger, req>>  BY DEF Pick, tableVars
<1>5. TurnPlan(d)'
  BY <1>2, <1>3, <1>4 DEF TurnPlan, PlanInv, RowOK
<1> QED  BY <1>2, <1>4, <1>5, SameRow, TurnActs

LEMMA PlanClaim ==
  ASSUME PipelineOnly, IInv, PlanInv, NEW d \in Daemons, Claim(d)
  PROVE  PipelineStep
<1> DEFINE t == turn[d].task
           q == ClaimTask(tasks[t], turn[d].agent)
<1>0. /\ turn \in [Daemons -> Turn] /\ tasks \in [Tasks -> Row]
      /\ t \in Tasks /\ tasks[t].status = "todo"
  BY TypeUse DEF IInv, TypeOK, InFlight, Claim
<1>1. q.status = "in_progress" /\ q.stage = tasks[t].stage /\ q.wf = tasks[t].wf
  BY <1>0 DEF ClaimTask, Row
<1>2. Writes(t, q) /\ UNCHANGED <<merger, req>>
  BY DEF Claim, Execute, Writes
<1>3. /\ turn'[d].pc = "claimed" /\ turn'[d].task = t /\ turn'[d].wf = turn[d].wf
      /\ turn'[d].stage = turn[d].stage /\ turn[d].pc = "picked"
  BY <1>0 DEF Claim, Turn
<1>4. TurnRow(t, tasks[t], q)  BY <1>0, <1>1 DEF TurnRow, Claims
<1>5. TurnPlan(d)'
  <2>1. tasks'[t] = q  BY <1>0, <1>2 DEF Writes
  <2>2. TurnPlan(d)  BY DEF PlanInv
  <2> HIDE DEF q
  <2> QED  BY <1>1, <1>3, <2>1, <2>2 DEF TurnPlan
<1> QED  BY <1>0, <1>2, <1>4, <1>5, TurnActs

LEMMA PlanClaimLost ==
  ASSUME PipelineOnly, IInv, PlanInv, NEW d \in Daemons, ClaimLost(d)
  PROVE  PipelineStep
<1> DEFINE t == turn[d].task
<1>0. turn \in [Daemons -> Turn] /\ tasks \in [Tasks -> Row] /\ t \in Tasks
  BY TypeUse DEF IInv, TypeOK, InFlight, ClaimLost
<1>1. UNCHANGED <<tasks, unmoved, misread, merger, req>> /\ turn'[d].pc = "idle"
  BY <1>0 DEF ClaimLost, IdleTurn, tableVars
<1>2. TurnPlan(d)'  BY <1>1 DEF TurnPlan
<1> QED  BY <1>0, <1>1, <1>2, SameRow, TurnActs

LEMMA PlanEndTurn ==
  ASSUME PipelineOnly, IInv, PlanInv, NEW d \in Daemons, turn[d].pc = "claimed",
         NEW writes,
         TurnWrites(writes, turn[d].task, tasks[turn[d].task], unmoved, misread),
         EndTurn(d, writes)
  PROVE  PipelineStep
<1> DEFINE t == turn[d].task
<1>0. turn \in [Daemons -> Turn] /\ tasks \in [Tasks -> Row] /\ t \in Tasks
  BY TypeUse DEF IInv, TypeOK, InFlight
<1>1. UNCHANGED <<tasks, unmoved, misread, merger, req>>  BY DEF EndTurn, tableVars
<1>2. /\ turn'[d].pc = "writing" /\ turn'[d].task = t /\ turn'[d].wf = turn[d].wf
      /\ turn'[d].stage = turn[d].stage /\ turn'[d].writes = writes
  BY <1>0 DEF EndTurn, StartWriting, Turn
<1>3. TurnPlan(d)  BY DEF PlanInv
<1>4. TurnPlan(d)'  BY <1>1, <1>2, <1>3 DEF TurnPlan, TurnWrites
<1> QED  BY <1>0, <1>1, <1>4, SameRow, TurnActs

(* What the engine decides from the copy fits the row as it is now.        *)
LEMMA PlanEngine ==
  ASSUME PipelineOnly, IInv, PlanInv, NEW d \in Daemons,
         \/ LegacyTurn(d) \/ AgentTurn(d) \/ TerminalTurn(d)
         \/ AutoTurn(d) \/ MergeTurn(d) \/ WaitingTurn(d)
  PROVE  PipelineStep
<1> DEFINE t == turn[d].task
           r == tasks[t]
           s == turn[d].stage
           Fits(writes) == TurnWrites(writes, t, r, unmoved, misread)
<1>0. turn[d].pc = "claimed"
  BY DEF LegacyTurn, AgentTurn, TerminalTurn, AutoTurn, MergeTurn, WaitingTurn,
         InStageOfType
<1> SUFFICES \E writes : Fits(writes) /\ EndTurn(d, writes)
  BY <1>0, PlanEndTurn
<1>1. /\ turn[d].wf = r.wf
      /\ r.wf => s \notin {NoStage, "Merging"} /\ (HumanStage(s) \/ r.stage = s)
      /\ r.wf /\ EngineStage(r.stage) => r.status # "done"
  BY <1>0 DEF PlanInv, TurnPlan
<1>2. Fits(Handled(<<>>))  BY Lists DEF TurnWrites
<1>3. ASSUME r.wf, EngineStage(s), r.stage = s, NEW o
      PROVE  Fits(Handled(MoveTo(NextStage(s, o))))
  <2>1. CASE NextStage(s, o) = NoStage
    BY <1>2, <2>1, Lists
  <2>2. CASE NextStage(s, o) # NoStage
    BY <1>1, <1>3, <2>2, NextEdge DEF TurnWrites
  <2> QED  BY <2>1, <2>2
<1>4. CASE LegacyTurn(d)
  BY <1>1, <1>4 DEF LegacyTurn, TurnWrites
<1>5. ASSUME InStageOfType(d, "agent") \/ InStageOfType(d, "auto") \/ InStageOfType(d, "merge")
      PROVE  r.wf /\ EngineStage(s) /\ r.stage = s
  BY <1>1, <1>5 DEF InStageOfType, EngineStage, HumanStage
<1>6. CASE AgentTurn(d)
  <2>1. r.wf /\ EngineStage(s) /\ r.stage = s  BY <1>5, <1>6 DEF AgentTurn
  <2>2. Fits(<<Plain("fail"), Plain("fail")>>)  BY <2>1 DEF TurnWrites
  <2> QED  BY <1>3, <1>6, <2>1, <2>2 DEF AgentTurn
<1>7. CASE TerminalTurn(d)
  <2>1. r.wf /\ IsTerminalStage(r.stage)
    BY <1>1, <1>7 DEF TerminalTurn, InStageOfType, HumanStage, IsTerminalStage
  <2>2. Fits(Handled(<<Done>>))  BY <2>1 DEF TurnWrites
  <2> QED  BY <1>7, <2>2 DEF TerminalTurn
<1>8. CASE AutoTurn(d)
  <2>1. r.wf /\ EngineStage(s) /\ r.stage = s  BY <1>5, <1>8 DEF AutoTurn
  <2> QED  BY <1>3, <1>8, <2>1 DEF AutoTurn
<1>9. CASE MergeTurn(d)
  <2>1. r.wf /\ EngineStage(s) /\ r.stage = s  BY <1>5, <1>9 DEF MergeTurn
  <2>2. /\ Fits(<<Plain("fail"), Plain("fail")>>)
        /\ Fits(<<Plain("fail")>>)
    BY <2>1 DEF TurnWrites
  <2>3. \/ EndTurn(d, Handled(MoveTo(NextStage(s, "done"))))
        \/ EndTurn(d, <<Plain("fail"), Plain("fail")>>)
        \/ EndTurn(d, <<Plain("fail")>>)
    BY <1>9 DEF MergeTurn
  <2> QED  BY <1>3, <2>1, <2>2, <2>3
<1>10. CASE WaitingTurn(d)  BY <1>2, <1>10 DEF WaitingTurn
<1> QED  BY <1>4, <1>6, <1>7, <1>8, <1>9, <1>10

(* A turn executes its next statement and keeps the rest.                  *)
LEMMA PlanTurnGoesOn ==
  ASSUME PipelineOnly, IInv, PlanInv, NEW d \in Daemons, TurnWrite(d),
         NEW rest, TurnGoesOn(d, rest),
         rest # <<>> => TurnWrites(rest, turn[d].task, tasks'[turn[d].task],
                                   unmoved', misread'),
         NEW q, Writes(turn[d].task, q),
         TurnRow(turn[d].task, tasks[turn[d].task], q),
         rest # <<>> => q.status # "done" \/ q.wf
  PROVE  PipelineStep
<1> DEFINE t == turn[d].task
<1>0. /\ turn \in [Daemons -> Turn] /\ tasks \in [Tasks -> Row] /\ t \in Tasks
      /\ turn[d].pc = "writing"
  BY TypeUse DEF IInv, TypeOK, InFlight, TurnWrite
<1>1. UNCHANGED <<merger, req>>  BY DEF TurnWrite
<1>2. tasks'[t] = q  BY <1>0 DEF Writes
<1>3. TurnPlan(d)'
  <2>1. CASE rest = <<>>
    <3>1. turn'[d].pc = "idle"  BY <1>0, <2>1 DEF IdleTurn, TurnGoesOn
    <3> QED  BY <3>1 DEF TurnPlan
  <2>2. CASE rest # <<>>
    <3>1. /\ turn'[d].pc = "writing" /\ turn'[d].task = t /\ turn'[d].wf = turn[d].wf
          /\ turn'[d].stage = turn[d].stage /\ turn'[d].writes = rest
      BY <1>0, <2>2 DEF Turn, TurnGoesOn
    <3>2. q.wf = tasks[t].wf /\ (q.stage = tasks[t].stage \/ q.wf)
      BY DEF TurnRow, Stays, Claims, EndsLegacy, EndsUnmoved, Moves
    <3>3. TurnPlan(d)  BY DEF PlanInv
    <3> QED  BY <1>0, <1>2, <2>2, <3>1, <3>2, <3>3 DEF TurnPlan
  <2> QED  BY <2>1, <2>2
<1> QED  BY <1>0, <1>1, <1>3, TurnActs

LEMMA PlanTurnWrite ==
  ASSUME PipelineOnly, IInv, PlanInv, NEW d \in Daemons, TurnWrite(d)
  PROVE  PipelineStep
<1> DEFINE t == turn[d].task
           r == tasks[t]
           ws == turn[d].writes
           w == Head(ws)
           q == Apply(r, w)
<1>0. /\ t \in Tasks /\ r \in Row /\ turn[d].pc = "writing" /\ ws # <<>>
  BY TypeUse DEF IInv, InFlight, TurnWrite
<1>u. /\ TurnWrites(ws, t, r, unmoved, misread) /\ turn[d].wf = r.wf
      /\ ~r.wf => r.status # "done"
      /\ RowOK(t, r, unmoved)
  BY <1>0 DEF PlanInv, TurnPlan
<1>1. ASSUME w.op # "pick_reviewer_if_in_review"
      PROVE  /\ Writes(t, q) /\ tasks'[t] = q
             /\ TurnGoesOn(d, Tail(ws))
             /\ q.stage = r.stage => unmoved' = unmoved
             /\ q.status # "in_progress" \/ q.status = r.status => misread' = misread
  BY <1>0, <1>1, TypeUse DEF TurnWrite, Execute, Writes
<1>2. ASSUME w.op # "pick_reviewer_if_in_review", TurnRow(t, r, q),
             Tail(ws) # <<>> => /\ TurnWrites(Tail(ws), t, q, unmoved', misread')
                                /\ q.status # "done" \/ q.wf
      PROVE  PipelineStep
  <2> HIDE DEF q, ws
  <2> QED  BY <1>1, <1>2, PlanTurnGoesOn
<1>3. CASE ws \in Seq(PickOnly)
  <2>1. w \in PickOnly /\ Tail(ws) \in Seq(PickOnly)
    <3> HIDE DEF ws
    <3> QED  BY <1>0, <1>3, HeadTailProperties
  <2>2. CASE w.op = "pick_reviewer_if_in_review"
    <3>1. PICK rest :
            /\ rest = Tail(ws) \/ \E a \in PickReviewer(r) : rest = <<AssignTo(a)>>
            /\ TurnGoesOn(d, rest)
      BY <2>2 DEF TurnWrite
    <3>2. \A a \in PickReviewer(r) : <<AssignTo(a)>> \in Seq(PickOnly)
      <4>1. \A a \in PickReviewer(r) : AssignTo(a) \in PickOnly
        BY <1>0, PickReviewerType, StmtType, Ops1 DEF PickOnly
      <4> HIDE DEF PickOnly
      <4> QED  BY <4>1
    <3>3. rest \in Seq(PickOnly)  BY <2>1, <3>1, <3>2
    <3>4. UNCHANGED <<tasks, unmoved, misread>>  BY <2>2 DEF TurnWrite, tableVars
    <3>5. Writes(t, r) /\ TurnRow(t, r, r)  BY <1>0, <3>4, SameRow
    <3>6. TurnWrites(rest, t, tasks'[t], unmoved', misread')  BY <3>3 DEF TurnWrites
    <3>7. r.status # "done" \/ r.wf  BY <1>u
    <3> HIDE DEF r
    <3> QED  BY <3>1, <3>5, <3>6, <3>7, PlanTurnGoesOn DEF r
  <2>3. CASE w.op = "assign"
    <3>1. q.wf = r.wf /\ q.stage = r.stage /\ q.status = r.status
      BY <1>0, <2>3, RowKinds
    <3>2. TurnRow(t, r, q)  BY <3>1 DEF TurnRow, Stays
    <3>3. TurnWrites(Tail(ws), t, q, unmoved', misread')  BY <2>1 DEF TurnWrites
    <3> QED  BY <1>2, <1>u, <2>3, <3>1, <3>2, <3>3
  <2> QED  BY <2>1, <2>2, <2>3 DEF PickOnly
<1>4. CASE ws = <<Done>> /\ ~r.wf
  <2>1. w = Done /\ Tail(ws) = <<>>  BY <1>4
  <2>2. q.wf = r.wf /\ q.stage = r.stage /\ q.status = "done"
    BY <1>0, <2>1, Ops1, RowKinds
  <2>3. TurnRow(t, r, q)  BY <1>4, <2>2 DEF TurnRow, EndsLegacy
  <2> QED  BY <1>2, <2>1, <2>3, Ops1
<1>5. CASE ws = Handled(<<Done>>) /\ r.wf /\ IsTerminalStage(r.stage)
  <2>0. ws = <<Done, Pick1>>  BY <1>5, Lists
  <2>1. w = Done /\ Tail(ws) = <<Pick1>>  BY <2>0
  <2>2. q.wf = r.wf /\ q.stage = r.stage /\ q.status = "done"
    BY <1>0, <2>1, Ops1, RowKinds
  <2>3. TurnRow(t, r, q)  BY <1>5, <2>2 DEF TurnRow, Stays
  <2>4. TurnWrites(Tail(ws), t, q, unmoved', misread')  BY <2>1, Lists DEF TurnWrites
  <2> QED  BY <1>2, <1>5, <2>1, <2>2, <2>3, <2>4, Ops1
<1>6. CASE /\ ws \in {<<Plain("fail")>>, <<Plain("fail"), Plain("fail")>>}
           /\ ~r.wf \/ EngineStage(r.stage) \/ t \in misread
  <2>1. w = Plain("fail") /\ Tail(ws) \in {<<>>, <<Plain("fail")>>}
    <3>1. CASE ws = <<Plain("fail")>>  BY <3>1
    <3>2. CASE ws = <<Plain("fail"), Plain("fail")>>  BY <3>2
    <3> QED  BY <1>6, <3>1, <3>2
  <2>2. q.wf = r.wf /\ q.stage = r.stage /\ q.status = "failed"
    BY <1>0, <2>1, Ops1, RowKinds
  <2>3. r.status # "done" \/ t \in unmoved \cup misread
    BY <1>6, <1>u, StageKinds DEF RowOK
  <2>r. misread' = misread  BY <1>1, <2>1, <2>2, Ops1
  <2>4. TurnRow(t, r, q)  BY <2>2, <2>3 DEF TurnRow, Stays
  <2>5. Tail(ws) # <<>> => TurnWrites(Tail(ws), t, q, unmoved', misread')
    BY <1>6, <2>1, <2>2, <2>r DEF TurnWrites
  <2> QED  BY <1>2, <2>1, <2>2, <2>4, <2>5, Ops1
<1>7. CASE /\ r.wf /\ EngineStage(r.stage) /\ r.status # "done"
           /\ \E e \in Edges : e[1] = r.stage /\ ws = Handled(MoveTo(e[3]))
  <2>1. PICK e \in Edges : e[1] = r.stage /\ ws = Handled(MoveTo(e[3]))
    BY <1>7
  <2>2. e[3] # NoStage  BY EdgeTo
  <2>3. ws = IF IsTerminalStage(e[3]) THEN <<StageTo(e[3]), Done, Pick1>>
             ELSE <<StageTo(e[3]), Pick1>>
    BY <2>1, <2>2, Lists
  <2>4. /\ w = StageTo(e[3])
        /\ IsTerminalStage(e[3]) => Tail(ws) = <<Done, Pick1>>
        /\ ~IsTerminalStage(e[3]) => Tail(ws) = <<Pick1>>
    BY <2>3
  <2>5. q.wf = r.wf /\ q.stage = e[3] /\ q.status = r.status
    BY <1>0, <2>4, Ops1, RowKinds
  <2>6. TurnRow(t, r, q)  BY <1>7, <2>1, <2>5 DEF TurnRow, Moves
  <2>7. TurnWrites(Tail(ws), t, q, unmoved', misread')
    <3>1. CASE IsTerminalStage(e[3])
      BY <1>7, <2>4, <2>5, <3>1, Lists DEF TurnWrites
    <3>2. CASE ~IsTerminalStage(e[3])
      BY <2>4, <3>2, Lists DEF TurnWrites
    <3> QED  BY <3>1, <3>2
  <2> QED  BY <1>2, <1>7, <2>4, <2>5, <2>6, <2>7, Ops1
<1>8. CASE ws = Handled(<<Done>>) /\ r.wf /\ EngineStage(r.stage) /\ t \in unmoved
  <2>0. ws = <<Done, Pick1>>  BY <1>8, Lists
  <2>1. w = Done /\ Tail(ws) = <<Pick1>>  BY <2>0
  <2>2. q.wf = r.wf /\ q.stage = r.stage /\ q.status = "done"
    BY <1>0, <2>1, Ops1, RowKinds
  <2>3. TurnRow(t, r, q)  BY <1>8, <2>2 DEF TurnRow, EndsUnmoved
  <2>4. TurnWrites(Tail(ws), t, q, unmoved', misread')  BY <2>1, Lists DEF TurnWrites
  <2> QED  BY <1>2, <1>8, <2>1, <2>2, <2>3, <2>4, Ops1
<1> QED  BY <1>3, <1>4, <1>5, <1>6, <1>7, <1>8, <1>u DEF TurnWrites

-----------------------------------------------------------------------------
(* The merge worker.                                                       *)

LEMMA PlanList ==
  ASSUME PipelineOnly, IInv, PlanInv, NEW d \in Daemons, ListMerging(d)
  PROVE  PipelineStep
<1> DEFINE S == InStage("Merging")
           batch(q) == [i \in DOMAIN q |->
                          [task |-> q[i], wf |-> tasks[q[i]].wf,
                           worktree |-> tasks[q[i]].worktree]]
<1>0. /\ merger \in [Daemons -> Merger] /\ tasks \in [Tasks -> Row]
      /\ merger[d].writes = <<>> /\ UNCHANGED <<tasks, unmoved, misread, turn, req>>
  BY TypeUse DEF IInv, TypeOK, ListMerging, tableVars
<1>1. PICK q \in ListTasksInStage("Merging", MergeBatch) :
        q # <<>> /\ merger' = [merger EXCEPT ![d].queue = batch(q)]
  BY DEF ListMerging
<1>2. PICK n \in Nat : q \in [1..n -> S]
  BY LifecycleAssumption, ListedTasks
<1>3. \A i \in 1..n : q[i] \in Tasks /\ tasks[q[i]].stage = "Merging"
  BY <1>2 DEF InStage
<1>4. \A i, j \in 1..n : q[i] = q[j] => i = j
  <2>1. DOMAIN q = 1..n  BY <1>2
  <2>2. \A i \in 1..n : q[i] \notin {q[j] : j \in 1..(i - 1)}
    <3>1. PICK m : /\ q \in [1..m -> S]
                   /\ \A i \in 1..m : q[i] \in OldestOf(S \ {q[j] : j \in 1..(i - 1)})
      BY DEF ListTasksInStage
    <3>2. 1..m = 1..n  BY <1>2, <3>1
    <3> QED  BY <3>1, <3>2 DEF OldestOf
  <2>3. ASSUME NEW i \in 1..n, NEW j \in 1..n, q[i] = q[j], j < i  PROVE FALSE
    <3>1. j \in 1..(i - 1)  BY <2>3
    <3> QED  BY <2>2, <2>3, <3>1
  <2> QED  BY <2>3
<1>5. /\ DOMAIN batch(q) = 1..n /\ Len(batch(q)) = n
      /\ \A i \in 1..n : batch(q)[i].task = q[i] /\ batch(q)[i].wf = tasks[q[i]].wf
  BY <1>2
<1>6. merger'[d].queue = batch(q) /\ merger'[d].writes = <<>>
  BY <1>0, <1>1 DEF Merger
<1>7. MergerPlan(d)'
  <2> HIDE DEF batch
  <2> QED  BY <1>0, <1>3, <1>4, <1>5, <1>6 DEF MergerPlan, Listed
<1>8. PICK t \in Tasks : TRUE
  <2>1. n # 0  BY <1>1, <1>2
  <2>2. 1 \in 1..n  BY <2>1
  <2> QED  BY <1>3, <2>2
<1> QED  BY <1>0, <1>7, <1>8, SameRow, MergerActs

LEMMA PlanProcess ==
  ASSUME PipelineOnly, IInv, PlanInv, NEW d \in Daemons,
         NEW writes \in {<<>>, <<Plain("fail")>>,
                         <<StageTo("Done"), Done, Plain("clear_git")>>},
         Process(d, writes), writes # <<>> => Head(merger[d].queue).wf
  PROVE  PipelineStep
<1> DEFINE q == merger[d].queue
           t == Head(q).task
<1>0. /\ merger \in [Daemons -> Merger] /\ tasks \in [Tasks -> Row]
      /\ UNCHANGED <<tasks, unmoved, misread, turn, req>>
      /\ q \in Seq(MergeItem) /\ q # <<>>
  BY TypeUse DEF IInv, TypeOK, Process, Merger, tableVars
<1>1. /\ Head(q) \in MergeItem /\ Head(q) = q[1] /\ 1 \in 1..Len(q)
      /\ Len(Tail(q)) = Len(q) - 1
      /\ \A i \in 1..Len(Tail(q)) : Tail(q)[i] = q[i + 1] /\ i + 1 \in 1..Len(q)
  BY <1>0, HeadTailProperties, LenProperties, EmptySeq
<1>2. /\ merger'[d].queue = Tail(q) /\ merger'[d].task = t /\ merger'[d].writes = writes
  BY <1>0 DEF Process
<1>3. /\ \A i \in 1..Len(q) : /\ tasks[q[i].task].stage = "Merging"
                              /\ q[i].wf = tasks[q[i].task].wf
                              /\ \A j \in 1..Len(q) : q[i].task = q[j].task => i = j
  BY DEF PlanInv, MergerPlan, Listed
<1>4. Len(q) \in Nat  BY <1>0, LenProperties
<1> HIDE DEF q
<1>5. \A i \in 1..Len(Tail(q)) :
        /\ tasks[Tail(q)[i].task].stage = "Merging"
        /\ Tail(q)[i].wf = tasks[Tail(q)[i].task].wf
        /\ \A j \in 1..Len(Tail(q)) : Tail(q)[i].task = Tail(q)[j].task => i = j
        /\ Tail(q)[i].task # t
  BY <1>1, <1>3, <1>4
<1>6. t \in Tasks /\ tasks[t].stage = "Merging" /\ Head(q).wf = tasks[t].wf
  BY <1>1, <1>3 DEF MergeItem
<1>7. MergerPlan(d)'
  BY <1>0, <1>2, <1>5, <1>6 DEF MergerPlan, Listed, q
<1> QED  BY <1>0, <1>6, <1>7, SameRow, MergerActs

LEMMA PlanMergeTurn ==
  ASSUME PipelineOnly, IInv, PlanInv, NEW d \in Daemons,
         MergeSkip(d) \/ MergeOk(d) \/ MergeFail(d)
  PROVE  PipelineStep
BY PlanProcess DEF MergeSkip, MergeOk, MergeFail

LEMMA PlanMergeWrite ==
  ASSUME PipelineOnly, IInv, PlanInv, NEW d \in Daemons, MergeWrite(d)
  PROVE  PipelineStep
<1> DEFINE t == merger[d].task
           r == tasks[t]
           ws == merger[d].writes
           w == Head(ws)
           q == Apply(r, w)
           n == Len(merger[d].queue)
           QueueOK ==
             \A i \in 1..Len(merger[d].queue) :
               /\ tasks[Listed(d, i).task].stage = "Merging"
               /\ Listed(d, i).wf = tasks[Listed(d, i).task].wf
               /\ \A j \in 1..Len(merger[d].queue) :
                    Listed(d, i).task = Listed(d, j).task => i = j
<1>0. /\ merger \in [Daemons -> Merger] /\ tasks \in [Tasks -> Row]
      /\ t \in Tasks /\ r \in Row /\ ws # <<>> /\ UNCHANGED <<turn, req>>
  BY TypeUse DEF IInv, TypeOK, InFlight, MergeWrite
<1>1. Writes(t, q) /\ tasks'[t] = q /\ \A u \in Tasks \ {t} : tasks'[u] = tasks[u]
  BY <1>0 DEF MergeWrite, Execute, Writes
<1>2. /\ merger'[d].queue = merger[d].queue /\ merger'[d].task = t
      /\ merger'[d].writes = Tail(ws)
  BY <1>0 DEF MergeWrite, Merger
<1>u. MergerPlan(d) /\ RowOK(t, r, unmoved)  BY <1>0 DEF PlanInv
<1>3. \A i \in 1..n : Listed(d, i).task \in Tasks
  BY QueueTasks, TypeUse DEF Listed
(* What is listed stays so if the task in hand keeps its stage, or is not  *)
(* listed any more.                                                        *)
<1>4. ASSUME q.wf = r.wf, q.stage = r.stage \/ \A i \in 1..n : Listed(d, i).task # t
      PROVE  QueueOK'
  <2> HIDE DEF q
  <2>1. \A i \in 1..n :
          /\ tasks'[Listed(d, i).task].stage = "Merging"
          /\ Listed(d, i).wf = tasks'[Listed(d, i).task].wf
          /\ \A j \in 1..n : Listed(d, i).task = Listed(d, j).task => i = j
    BY <1>1, <1>3, <1>4, <1>u DEF MergerPlan
  <2>2. \A i : Listed(d, i)' = Listed(d, i)  BY <1>2 DEF Listed
  <2> QED  BY <1>2, <2>1, <2>2
<1>5. CASE ws = <<Plain("clear_git")>>
  <2>1. w = Plain("clear_git") /\ Tail(ws) = <<>>  BY <1>5
  <2>2. q.wf = r.wf /\ q.stage = r.stage /\ q.status = r.status
    BY <1>0, <2>1, Ops1, RowKinds
  <2>3. MergerRow(t, r, q)  BY <2>2 DEF MergerRow, Stays
  <2>4. MergerPlan(d)'  BY <1>2, <1>4, <2>1, <2>2 DEF MergerPlan, Listed
  <2> QED  BY <1>0, <1>1, <2>3, <2>4, MergerActs
<1>6. CASE ws = <<Done, Plain("clear_git")>> /\ r.wf /\ IsTerminalStage(r.stage)
  <2>1. w = Done /\ Tail(ws) = <<Plain("clear_git")>>  BY <1>6
  <2>2. q.wf = r.wf /\ q.stage = r.stage /\ q.status = "done"
    BY <1>0, <2>1, Ops1, RowKinds
  <2>3. MergerRow(t, r, q)  BY <1>6, <2>2 DEF MergerRow, Stays
  <2>4. MergerPlan(d)'  BY <1>2, <1>4, <2>1, <2>2 DEF MergerPlan, Listed
  <2> QED  BY <1>0, <1>1, <2>3, <2>4, MergerActs
<1>7. CASE ws = <<Plain("fail")>> /\ r.wf /\ r.stage = "Merging"
  <2>1. w = Plain("fail") /\ Tail(ws) = <<>>  BY <1>7
  <2>2. q.wf = r.wf /\ q.stage = r.stage /\ q.status = "failed"
    BY <1>0, <2>1, Ops1, RowKinds
  <2>3. r.status # "done" \/ t \in unmoved  BY <1>7, <1>u, StageKinds DEF RowOK
  <2>4. MergerRow(t, r, q)  BY <2>2, <2>3 DEF MergerRow, Stays
  <2>5. MergerPlan(d)'  BY <1>2, <1>4, <2>1, <2>2 DEF MergerPlan, Listed
  <2> QED  BY <1>0, <1>1, <2>4, <2>5, MergerActs
<1>8. CASE /\ ws = <<StageTo("Done"), Done, Plain("clear_git")>>
           /\ r.wf /\ r.stage = "Merging"
           /\ \A i \in 1..n : Listed(d, i).task # t
  <2>1. w = StageTo("Done") /\ Tail(ws) = <<Done, Plain("clear_git")>>  BY <1>8
  <2>2. q.wf = r.wf /\ q.stage = "Done" /\ q.status = r.status
    BY <1>0, <2>1, Ops1, RowKinds
  <2>3. MergerRow(t, r, q)
    BY <1>8, <2>2 DEF MergerRow, Moves, PipelineOnly
  <2>4. MergerPlan(d)'
    <3>1. tasks'[t].wf /\ IsTerminalStage(tasks'[t].stage)
      BY <1>1, <1>8, <2>2, StageKinds
    <3>2. QueueOK'  BY <1>4, <1>8, <2>2
    <3> HIDE DEF QueueOK
    <3>3. /\ merger'[d].writes = <<Done, Plain("clear_git")>>
          /\ merger'[d].task = t
      BY <1>2, <2>1
    <3> QED  BY <3>1, <3>2, <3>3 DEF MergerPlan, QueueOK
  <2> QED  BY <1>0, <1>1, <2>3, <2>4, MergerActs
<1>9. CASE /\ ws = <<Done, Plain("clear_git")>>
           /\ r.wf /\ r.stage = "Merging" /\ t \in unmoved
  <2>1. w = Done /\ Tail(ws) = <<Plain("clear_git")>>  BY <1>9
  <2>2. q.wf = r.wf /\ q.stage = r.stage /\ q.status = "done"
    BY <1>0, <2>1, Ops1, RowKinds
  <2>3. MergerRow(t, r, q)  BY <1>9, <2>2 DEF MergerRow, EndsUnmoved
  <2>4. MergerPlan(d)'  BY <1>2, <1>4, <2>1, <2>2 DEF MergerPlan, Listed
  <2> QED  BY <1>0, <1>1, <2>3, <2>4, MergerActs
<1> QED  BY <1>0, <1>5, <1>6, <1>7, <1>8, <1>9, <1>u DEF MergerPlan

-----------------------------------------------------------------------------
(* Requests and faults.                                                    *)

LEMMA PlanApprove ==
  ASSUME PipelineOnly, IInv, PlanInv, NEW c \in Clients, Approve(c)
  PROVE  PipelineStep
<1>0. req \in [Clients -> Request] /\ tasks \in [Tasks -> Row] /\ UNCHANGED <<turn, merger>>
  BY TypeUse DEF IInv, TypeOK, Approve, Serve
<1>1. PICK t \in Tasks, o \in Verdicts :
        /\ tasks[t].wf /\ NextStage(tasks[t].stage, o) # NoStage
        /\ Serve(c, "approve", t, MoveTo(NextStage(tasks[t].stage, o)))
  BY DEF Approve
<1>2. PICK e \in Edges : /\ e[1] = tasks[t].stage /\ e[2] = o
                         /\ e[3] = NextStage(tasks[t].stage, o)
  BY <1>1, NextEdge
<1>3. HumanStage(tasks[t].stage)  BY <1>2 DEF PipelineOnly, HumanStage
<1>4. MoveTo(e[3]) # <<>>
  BY EdgeTo, NextStageType, MoveToType
<1>5. req'[c].task = t /\ req'[c].writes = MoveTo(e[3])
  BY <1>0, <1>1, <1>2, <1>4 DEF Serve
<1>6. UNCHANGED <<tasks, unmoved, misread>>  BY DEF Approve, tableVars
<1>7. RequestPlan(c)'  BY <1>1, <1>2, <1>3, <1>5, <1>6 DEF RequestPlan
<1> QED  BY <1>0, <1>6, <1>7, SameRow, RequestActs

LEMMA PlanReqWrite ==
  ASSUME PipelineOnly, IInv, PlanInv, NEW c \in Clients, ReqWrite(c)
  PROVE  PipelineStep
<1> DEFINE t == req[c].task
           r == tasks[t]
           ws == req[c].writes
           w == Head(ws)
           q == Apply(r, w)
<1>0. /\ req \in [Clients -> Request] /\ tasks \in [Tasks -> Row]
      /\ t \in Tasks /\ r \in Row /\ req[c].op # "none" /\ UNCHANGED <<turn, merger>>
  BY TypeUse DEF IInv, TypeOK, InFlight, ReqWrite
<1>u. RequestPlan(c)  BY DEF PlanInv
<1>1. ASSUME w.op \in {"stage", "status"}
      PROVE  /\ Writes(t, q) /\ tasks'[t] = q
             /\ req' = [req EXCEPT ![c] = IF Tail(ws) = <<>> THEN IdleRequest
                                          ELSE [req[c] EXCEPT !.writes = Tail(ws)]]
  BY <1>0, <1>1 DEF ReqWrite, RequestGoesOn, Execute, Writes
<1>2. ASSUME w.op \in {"stage", "status"}, RequestRow(t, r, q),
             Tail(ws) # <<>> => Tail(ws) = <<Done>> /\ q.wf /\ IsTerminalStage(q.stage)
      PROVE  PipelineStep
  <2>1. RequestPlan(c)'
    <3> HIDE DEF q, ws
    <3>1. CASE Tail(ws) = <<>>
      <4>1. req'[c].op = "none"  BY <1>0, <1>1, <1>2, <3>1, IdleRequestType
      <4> QED  BY <4>1 DEF RequestPlan
    <3>2. CASE Tail(ws) # <<>>
      <4>0. req'[c].task = t /\ req'[c].writes = Tail(ws)
        BY <1>0, <1>1, <1>2, <3>2 DEF Request
      <4>1. req'[c].task = t /\ req'[c].writes = <<Done>>
        BY <1>2, <3>2, <4>0
      <4> QED  BY <1>1, <1>2, <3>2, <4>1 DEF RequestPlan
    <3> QED  BY <3>1, <3>2
  <2> QED  BY <1>0, <1>1, <1>2, <2>1, RequestActs
<1>3. CASE /\ HumanStage(r.stage) /\ r.wf
           /\ \E e \in Edges : e[1] = r.stage /\ ws = MoveTo(e[3])
  <2>1. PICK e \in Edges : e[1] = r.stage /\ ws = MoveTo(e[3])
    BY <1>3
  <2>2. ws = IF IsTerminalStage(e[3]) THEN <<StageTo(e[3]), Done>> ELSE <<StageTo(e[3])>>
    BY <2>1, EdgeTo, Lists
  <2>3. /\ w = StageTo(e[3])
        /\ IsTerminalStage(e[3]) => Tail(ws) = <<Done>>
        /\ ~IsTerminalStage(e[3]) => Tail(ws) = <<>>
    BY <2>2
  <2>4. q.wf = r.wf /\ q.stage = e[3] /\ q.status = r.status
    BY <1>0, <2>3, Ops1, RowKinds
  <2>5. RequestRow(t, r, q)  BY <1>3, <2>1, <2>4 DEF RequestRow, Moves
  <2> QED  BY <1>2, <1>3, <2>3, <2>4, <2>5, Ops1
<1>4. CASE ws = <<Done>> /\ r.wf /\ IsTerminalStage(r.stage)
  <2>1. w = Done /\ Tail(ws) = <<>>  BY <1>4
  <2>2. q.wf = r.wf /\ q.stage = r.stage /\ q.status = "done"
    BY <1>0, <2>1, Ops1, RowKinds
  <2>3. RequestRow(t, r, q)  BY <1>4, <2>2 DEF RequestRow, Stays
  <2> QED  BY <1>2, <2>1, <2>3, Ops1
<1> QED  BY <1>0, <1>3, <1>4, <1>u DEF RequestPlan

(* An approval has nothing left to do after its last write.                *)
LEMMA ApprovalEnds ==
  ASSUME NEW c \in Clients, RequestPlan(c), req[c].op # "none",
         Head(req[c].writes).op \in {"status", "clear_git"}
  PROVE  Tail(req[c].writes) = <<>>
<1> DEFINE ws == req[c].writes
<1>1. ASSUME NEW e \in Edges, ws = MoveTo(e[3])  PROVE FALSE
  <2>1. ws = IF IsTerminalStage(e[3]) THEN <<StageTo(e[3]), Done>> ELSE <<StageTo(e[3])>>
    BY <1>1, EdgeTo, Lists
  <2>2. Head(ws) = StageTo(e[3])  BY <2>1
  <2> QED  BY <2>2, Ops1
<1>2. ws = <<Done>>  BY <1>1 DEF RequestPlan
<1> QED  BY <1>2

LEMMA PlanRequests ==
  ASSUME PipelineOnly, IInv, PlanInv, NEW c \in Clients, RequestStep(c)
  PROVE  PipelineStep
<1>1. ~(\/ SubmitReview(c) \/ RequestReview(c) \/ CancelTask(c)
        \/ Rewind(c) \/ CreateTask(c) \/ CreateTaskMCP(c))
  BY DEF PipelineOnly, Begin, SubmitReview, RequestReview, CancelTask, Rewind,
         CreateTask, CreateTaskMCP
<1>2. CASE Disconnect(c) \/ ReqWriteFails(c)
  <2>1. /\ req \in [Clients -> Request] /\ req[c].op # "none"
        /\ req[c].task \in Tasks /\ UNCHANGED <<tasks, unmoved, misread, turn, merger>>
    BY <1>2 DEF IInv, TypeOK, InFlight, Disconnect, ReqWriteFails, tableVars
  <2>2. CASE Disconnect(c)
    <3>1. req'[c].op = "none"  BY <2>1, <2>2 DEF Disconnect, IdleRequest
    <3> QED  BY <2>1, <3>1, SameRow, RequestActs DEF RequestPlan
  <2>3. CASE ReqWriteFails(c)
    <3>1. Head(req[c].writes).op \in {"status", "clear_git"} => Tail(req[c].writes) = <<>>
      BY <2>1, ApprovalEnds DEF PlanInv
    <3>2. RequestGoesOn(c, <<>>)
      BY <2>3, <3>1 DEF ReqWriteFails
    <3>3. req'[c].op = "none"  BY <2>1, <3>2 DEF RequestGoesOn, IdleRequest
    <3> QED  BY <2>1, <3>3, SameRow, RequestActs DEF RequestPlan
  <2> QED  BY <1>2, <2>2, <2>3
<1> QED  BY <1>1, <1>2, PlanApprove, PlanReqWrite DEF RequestStep

(* A step that moves no actor, or stops one, and changes no stage.         *)
LEMMA PlanIdle ==
  ASSUME PipelineOnly, IInv, PlanInv,
         \A d \in Daemons : turn'[d] = turn[d] \/ turn'[d] = IdleTurn,
         \A d \in Daemons : merger'[d] = merger[d] \/ merger'[d] = IdleMerger,
         UNCHANGED <<req, unmoved, misread>>,
         \A u \in Tasks : Stays(u, tasks[u], tasks'[u])
  PROVE  PlanInv'
<1>1. \A u \in Tasks : /\ TurnRow(u, tasks[u], tasks'[u])
                       /\ RequestRow(u, tasks[u], tasks'[u])
                       /\ MergerRow(u, tasks[u], tasks'[u])
  BY DEF TurnRow, RequestRow, MergerRow
<1>h. LossKept  BY DEF LossKept
<1>2. \A u \in Tasks : RowOK(u, tasks'[u], unmoved')
  BY <1>1, RowKept DEF PlanInv, Stays
<1>3. \A d \in Daemons : TurnPlan(d)'
  <2>1. ASSUME NEW d \in Daemons, turn'[d] = IdleTurn  PROVE TurnPlan(d)'
    BY <2>1 DEF IdleTurn, TurnPlan
  <2> QED  BY <1>1, <1>h, <2>1, TurnPlanKept DEF PlanInv
<1>4. \A d \in Daemons : MergerPlan(d)'
  <2>1. ASSUME NEW d \in Daemons, merger'[d] = IdleMerger  PROVE MergerPlan(d)'
    <3>1. Len(merger'[d].queue) = 0 /\ merger'[d].writes = <<>>
      BY <2>1, EmptySeq DEF IdleMerger
    <3> QED  BY <3>1 DEF MergerPlan
  <2> QED  BY <1>1, <1>h, <2>1, MergerPlanKept DEF PlanInv
<1>5. \A c \in Clients : RequestPlan(c)'  BY <1>1, RequestPlanKept DEF PlanInv
<1> QED  BY <1>2, <1>3, <1>4, <1>5 DEF PlanInv

LEMMA PlanStatement ==
  ASSUME PipelineOnly, IInv, PlanInv, NEW t \in Tasks, StatementStep(t)
  PROVE  PipelineStep
<1>1. ~SetStatus(t) /\ ~ForceTransition(t)
  BY DEF PipelineOnly, SetStatus, ForceTransition, Update
<1>2. PICK q : /\ Writes(t, q) /\ UNCHANGED <<turn, merger, req>>
               /\ Stays(t, tasks[t], q)
  <2>0. tasks[t] \in Row  BY TypeUse
  <2>1. CASE Requeue(t)
    <3>1. Stays(t, tasks[t], RequeueTask(tasks[t]))  BY <2>0 DEF RequeueTask, Stays, Row
    <3> QED  BY <2>1, <3>1 DEF Requeue, Update, Execute, Writes
  <2>2. CASE Assign(t)
    <3>1. \A a : Stays(t, tasks[t], AssignTask(tasks[t], a))  BY <2>0 DEF AssignTask, Stays, Row
    <3> QED  BY <2>2, <3>1 DEF Assign, Update, Execute, Writes
  <2> QED  BY <1>1, <2>1, <2>2 DEF StatementStep
<1>3. \A u \in Tasks : Stays(u, tasks[u], tasks'[u])
  <2>1. /\ tasks'[t] = q
        /\ \A u \in Tasks \ {t} : tasks'[u] = tasks[u]
    BY <1>2, TypeUse DEF Writes
  <2> QED  BY <1>2, <2>1 DEF Stays
<1>h. UNCHANGED <<unmoved, misread>>
  <2>1. q.stage = tasks[t].stage /\ (q.status # "in_progress" \/ q.status = tasks[t].status)
    BY <1>2 DEF Stays
  <2> QED  BY <1>2, <2>1 DEF Writes
<1>4. PlanInv'  BY <1>2, <1>3, <1>h, PlanIdle
<1>5. [Pipeline!Next]_Pipeline!vars
  BY <1>2, PipelineRow DEF Writes, TurnRow
<1> QED  BY <1>4, <1>5 DEF PipelineStep

LEMMA PlanUnchanged ==
  ASSUME PipelineOnly, IInv, PlanInv, UNCHANGED <<tasks, unmoved, misread>>,
         \A d \in Daemons : turn'[d] = turn[d] \/ turn'[d] = IdleTurn,
         \A d \in Daemons : merger'[d] = merger[d] \/ merger'[d] = IdleMerger,
         UNCHANGED req
  PROVE  PipelineStep
<1>1. \A u \in Tasks : Stays(u, tasks[u], tasks'[u])  BY DEF Stays
<1>2. PlanInv'  BY <1>1, PlanIdle
<1>3. UNCHANGED Pipeline!vars  BY DEF Pipeline!vars
<1> QED  BY <1>2, <1>3 DEF PipelineStep

(* A turn goes on with the rest of its list, or is over.                   *)
LEMMA TurnSkips ==
  ASSUME IInv, PlanInv, NEW d \in Daemons, turn[d].pc = "writing", UNCHANGED tasks,
         NEW rest, TurnGoesOn(d, rest),
         rest # <<>> => TurnWrites(rest, turn[d].task, tasks[turn[d].task],
                                   unmoved', misread')
  PROVE  \A e \in Daemons : turn'[e] = turn[e] \/ TurnPlan(e)'
<1>0. turn \in [Daemons -> Turn]  BY DEF IInv, TypeOK
<1>1. \A e \in Daemons \ {d} : turn'[e] = turn[e]  BY <1>0 DEF TurnGoesOn
<1>2. TurnPlan(d)'
  <2>1. CASE rest = <<>>
    <3>1. turn'[d].pc = "idle"  BY <1>0, <2>1 DEF IdleTurn, TurnGoesOn
    <3> QED  BY <3>1 DEF TurnPlan
  <2>2. CASE rest # <<>>
    <3>1. /\ turn'[d].pc = "writing" /\ turn'[d].task = turn[d].task
          /\ turn'[d].wf = turn[d].wf /\ turn'[d].stage = turn[d].stage
          /\ turn'[d].writes = rest
      BY <1>0, <2>2 DEF Turn, TurnGoesOn
    <3>2. TurnPlan(d)  BY DEF PlanInv
    <3> QED  BY <2>2, <3>1, <3>2 DEF TurnPlan
  <2> QED  BY <2>1, <2>2
<1> QED  BY <1>1, <1>2

(* The write of a stage was lost: the task may be done where it is.        *)
LEMMA PlanTurnWriteFails ==
  ASSUME PipelineOnly, IInv, PlanInv, NEW d \in Daemons, TurnWriteFails(d)
  PROVE  PipelineStep
<1> DEFINE t == turn[d].task
           r == tasks[t]
           ws == turn[d].writes
           w == Head(ws)
           lost == unmoved \cup Lost(t, w)
<1>0. /\ t \in Tasks /\ turn[d].pc = "writing" /\ ws # <<>>
      /\ TurnGoesOn(d, Tail(ws)) /\ unmoved' = lost
      /\ UNCHANGED <<tasks, misread, merger, req>>
  BY DEF IInv, InFlight, TurnWriteFails
<1>u. TurnWrites(ws, t, r, unmoved, misread)
  BY <1>0 DEF PlanInv, TurnPlan
<1>1. ASSUME w.op # "stage",
             Tail(ws) # <<>> => TurnWrites(Tail(ws), t, r, unmoved, misread)
      PROVE  PipelineStep
  <2>1. unmoved' = unmoved  BY <1>0, <1>1 DEF Lost
  <2>2. \A e \in Daemons : turn'[e] = turn[e] \/ TurnPlan(e)'
    <3> HIDE DEF ws, r
    <3> QED  BY <1>0, <1>1, <2>1, TurnSkips DEF r
  <2> QED  BY <1>0, <2>1, <2>2, NobodyActs
<1>2. CASE ws \in Seq(PickOnly)
  <2>1. w \in PickOnly /\ Tail(ws) \in Seq(PickOnly)
    <3> HIDE DEF ws
    <3> QED  BY <1>0, <1>2, HeadTailProperties
  <2> QED  BY <1>1, <2>1 DEF PickOnly, TurnWrites
<1>3. CASE ws = <<Done>> /\ ~r.wf
  <2>1. w = Done /\ Tail(ws) = <<>>  BY <1>3
  <2> QED  BY <1>1, <2>1, Ops1
<1>4. CASE ws = Handled(<<Done>>)
  <2>0. ws = <<Done, Pick1>>  BY <1>4, Lists
  <2>1. w = Done /\ Tail(ws) = <<Pick1>>  BY <2>0
  <2> QED  BY <1>1, <2>1, Ops1, Lists DEF TurnWrites
<1>5. CASE /\ ws \in {<<Plain("fail")>>, <<Plain("fail"), Plain("fail")>>}
           /\ ~r.wf \/ EngineStage(r.stage) \/ t \in misread
  <2>1. w = Plain("fail") /\ Tail(ws) \in {<<>>, <<Plain("fail")>>}
    <3>1. CASE ws = <<Plain("fail")>>  BY <3>1
    <3>2. CASE ws = <<Plain("fail"), Plain("fail")>>  BY <3>2
    <3> QED  BY <1>5, <3>1, <3>2
  <2>2. Tail(ws) # <<>> => TurnWrites(Tail(ws), t, r, unmoved, misread)
    BY <1>5, <2>1 DEF TurnWrites
  <2> QED  BY <1>1, <2>1, <2>2, Ops1
<1>6. CASE /\ r.wf /\ EngineStage(r.stage)
           /\ \E e \in Edges : e[1] = r.stage /\ ws = Handled(MoveTo(e[3]))
  <2>1. PICK e \in Edges : e[1] = r.stage /\ ws = Handled(MoveTo(e[3]))
    BY <1>6
  <2>2. e[3] # NoStage  BY EdgeTo
  <2>3. ws = IF IsTerminalStage(e[3]) THEN <<StageTo(e[3]), Done, Pick1>>
             ELSE <<StageTo(e[3]), Pick1>>
    BY <2>1, <2>2, Lists
  <2>4. w = StageTo(e[3]) /\ Tail(ws) \in {<<Done, Pick1>>, <<Pick1>>}
    BY <2>3
  <2>5. unmoved' = unmoved \cup {t}  BY <1>0, <2>4, Ops1 DEF Lost
  <2>6. TurnWrites(Tail(ws), t, r, unmoved', misread')
    <3>1. CASE Tail(ws) = <<Done, Pick1>>
      BY <1>6, <2>5, <3>1, Lists DEF TurnWrites
    <3>2. CASE Tail(ws) = <<Pick1>>
      BY <3>2, Lists DEF TurnWrites
    <3> QED  BY <2>4, <3>1, <3>2
  <2>7. \A f \in Daemons : turn'[f] = turn[f] \/ TurnPlan(f)'
    <3> HIDE DEF ws, r
    <3> QED  BY <1>0, <2>6, TurnSkips DEF r
  <2> QED  BY <1>0, <1>6, <2>1, <2>5, <2>7, NobodyActs
<1> QED  BY <1>2, <1>3, <1>4, <1>5, <1>6, <1>u DEF TurnWrites

(* The workflow was not readable: the task is marked failed, wherever it   *)
(* is, or the stage has nothing to write.                                  *)
LEMMA PlanReadFails ==
  ASSUME PipelineOnly, IInv, PlanInv, NEW d \in Daemons, ReadFails(d)
  PROVE  PipelineStep
<1> DEFINE t == turn[d].task
           r == tasks[t]
<1>0. /\ t \in Tasks /\ turn \in [Daemons -> Turn] /\ turn[d].pc = "claimed"
      /\ turn[d].wf = r.wf /\ r.wf
      /\ UNCHANGED <<tasks, unmoved, merger, req>>
  BY DEF IInv, TypeOK, InFlight, ReadFails, PlanInv, TurnPlan
<1>1. PICK writes : /\ StartWriting(d, writes)
                    /\ \/ writes = <<Plain("fail")>> /\ misread' = misread \cup {t}
                       \/ writes = Handled(<<>>) /\ misread' = misread
  BY DEF ReadFails
<1>2. TurnWrites(writes, t, r, unmoved', misread')
  BY <1>1, Lists DEF TurnWrites
<1>3. /\ turn'[d].pc = "writing" /\ turn'[d].task = t /\ turn'[d].wf = turn[d].wf
      /\ turn'[d].stage = turn[d].stage /\ turn'[d].writes = writes
      /\ \A e \in Daemons \ {d} : turn'[e] = turn[e]
  BY <1>0, <1>1 DEF StartWriting, Turn
<1>4. TurnPlan(d)  BY DEF PlanInv
<1>5. TurnPlan(d)'
  <2> HIDE DEF r
  <2>1. tasks'[turn'[d].task] = r  BY <1>0, <1>3 DEF r
  <2> QED  BY <1>0, <1>2, <1>3, <1>4, <2>1 DEF TurnPlan, r
<1> QED  BY <1>0, <1>1, <1>3, <1>5, NobodyActs

LEMMA PlanMergeWriteFails ==
  ASSUME PipelineOnly, IInv, PlanInv, NEW d \in Daemons, MergeWriteFails(d)
  PROVE  PipelineStep
<1> DEFINE t == merger[d].task
           r == tasks[t]
           ws == merger[d].writes
           w == Head(ws)
<1>0. /\ t \in Tasks /\ ws # <<>> /\ merger \in [Daemons -> Merger]
      /\ unmoved' = unmoved \cup Lost(t, w)
      /\ UNCHANGED <<tasks, misread, turn, req>>
  BY DEF IInv, TypeOK, InFlight, MergeWriteFails
<1>1. /\ merger'[d].queue = merger[d].queue /\ merger'[d].task = t
      /\ merger'[d].writes = Tail(ws)
      /\ \A e \in Daemons \ {d} : merger'[e] = merger[e]
  BY <1>0 DEF MergeWriteFails, Merger
<1>u. MergerPlan(d)  BY DEF PlanInv
<1>2. ASSUME w.op # "stage", Tail(ws) \in {<<>>, <<Plain("clear_git")>>}
      PROVE  PipelineStep
  <2>1. unmoved' = unmoved  BY <1>0, <1>2 DEF Lost
  <2>2. MergerPlan(d)'
    <3> HIDE DEF ws
    <3> QED  BY <1>0, <1>1, <1>2, <1>u DEF MergerPlan, Listed
  <2> QED  BY <1>0, <1>1, <2>1, <2>2, NobodyActs
<1>3. CASE ws = <<Plain("clear_git")>>
  <2>1. w = Plain("clear_git") /\ Tail(ws) = <<>>  BY <1>3
  <2> QED  BY <1>2, <2>1, Ops1
<1>4. CASE ws = <<Done, Plain("clear_git")>>
  <2>1. w = Done /\ Tail(ws) = <<Plain("clear_git")>>  BY <1>4
  <2> QED  BY <1>2, <2>1, Ops1
<1>5. CASE ws = <<Plain("fail")>>
  <2>1. w = Plain("fail") /\ Tail(ws) = <<>>  BY <1>5
  <2> QED  BY <1>2, <2>1, Ops1
<1>6. CASE ws = <<StageTo("Done"), Done, Plain("clear_git")>> /\ r.wf /\ r.stage = "Merging"
  <2>1. w = StageTo("Done") /\ Tail(ws) = <<Done, Plain("clear_git")>>  BY <1>6
  <2>2. unmoved' = unmoved \cup {t}  BY <1>0, <2>1, Ops1 DEF Lost
  <2>3. MergerPlan(d)'
    <3>1. tasks'[t].wf /\ tasks'[t].stage = "Merging" /\ t \in unmoved'
      BY <1>0, <1>6, <2>2
    <3> QED  BY <1>0, <1>1, <1>u, <2>1, <3>1 DEF MergerPlan, Listed
  <2>4. \E e \in Edges : e[1] = r.stage  BY <1>6 DEF PipelineOnly
  <2> QED  BY <1>0, <1>1, <1>6, <2>2, <2>3, <2>4, NobodyActs
<1> QED  BY <1>0, <1>3, <1>4, <1>5, <1>6, <1>u DEF MergerPlan

LEMMA PlanFault ==
  ASSUME PipelineOnly, IInv, PlanInv, NEW d \in Daemons, FaultStep(d)
  PROVE  PipelineStep
<1>1. ASSUME Crash(d) \/ ClaimFails(d)  PROVE PipelineStep
  <2>1. turn \in [Daemons -> Turn] /\ merger \in [Daemons -> Merger]
    BY DEF IInv, TypeOK
  <2>2. /\ \A e \in Daemons : turn'[e] = turn[e] \/ turn'[e] = IdleTurn
        /\ \A e \in Daemons : merger'[e] = merger[e] \/ merger'[e] = IdleMerger
        /\ UNCHANGED <<tasks, unmoved, misread, req>>
    BY <1>1, <2>1 DEF Crash, ClaimFails, tableVars
  <2> QED  BY <2>2, PlanUnchanged
<1> QED  BY <1>1, PlanReadFails, PlanTurnWriteFails, PlanMergeWriteFails DEF FaultStep

LEMMA EveryPlan ==
  ASSUME PipelineOnly, IInv, PlanInv, [Next]_vars
  PROVE  PipelineStep
<1>1. ASSUME NEW d \in Daemons, SchedulerStep(d) PROVE PipelineStep
  <2>1. ~EnterInitialStage(d)
    BY DEF EnterInitialStage, PlanInv, TurnPlan
  <2> QED  BY <1>1, <2>1, PlanPick, PlanClaim, PlanClaimLost, PlanEngine, PlanTurnWrite
           DEF SchedulerStep
<1>2. ASSUME NEW d \in Daemons, MergerStep(d) PROVE PipelineStep
  BY <1>2, PlanList, PlanMergeTurn, PlanMergeWrite DEF MergerStep
<1>3. ASSUME NEW d \in Daemons, FaultStep(d) PROVE PipelineStep
  BY <1>3, PlanFault
<1>4. ASSUME NEW c \in Clients, RequestStep(c) PROVE PipelineStep
  BY <1>4, PlanRequests
<1>5. ASSUME NEW t \in Tasks, StatementStep(t) PROVE PipelineStep
  BY <1>5, PlanStatement
<1>6. CASE UNCHANGED vars
  BY <1>6, PlanUnchanged DEF vars, tableVars
<1> QED  BY <1>1, <1>2, <1>3, <1>4, <1>5, <1>6 DEF Next

LEMMA InitPlan ==
  ASSUME PipelineOnly, Init
  PROVE  PlanInv /\ Pipeline!Init
<1>1. \A t \in Tasks : RowOK(t, tasks[t], unmoved)  BY DEF Init, PipelineOnly, RowOK
<1>2. \A d \in Daemons : TurnPlan(d)  BY DEF Init, TurnPlan, IdleTurn
<1>3. \A d \in Daemons : MergerPlan(d)
  <2>1. \A d \in Daemons : Len(merger[d].queue) = 0 /\ merger[d].writes = <<>>
    BY EmptySeq DEF Init, IdleMerger
  <2> QED  BY <2>1 DEF MergerPlan
<1>4. \A c \in Clients : RequestPlan(c)  BY DEF Init, RequestPlan, IdleRequest
<1>5. Pipeline!Init
  <2>1. \A t \in Tasks : tasks[t].wf \in BOOLEAN
    BY InitIInv, TypeUse DEF Row
  <2>2. unmoved = {} /\ misread = {}  BY DEF Init
  <2> QED  BY <1>1, <2>1, <2>2 DEF Pipeline!Init, Pipeline!Finished, Pipeline!IsTerminalStage,
                             IsTerminalStage, RowOK
<1> QED  BY <1>1, <1>2, <1>3, <1>4, <1>5 DEF PlanInv

LEMMA PlanInvariant ==
  ASSUME PipelineOnly
  PROVE  Spec => []PlanInv
<1>1. Init => PlanInv  BY InitPlan
<1>2. IInv /\ PlanInv /\ [Next]_vars => PlanInv'  BY EveryPlan DEF PipelineStep
<1> QED  BY <1>1, <1>2, Invariant, PTL DEF Spec

(* Crashes, disconnects and stale copies included, and whichever           *)
(* statements fail, the statements of the daemon and the approvals add up  *)
(* to the workflow's own steps: each task moves along the declared         *)
(* transitions only, is done only in a terminal stage or where the write   *)
(* of its stage was lost, and does not fail after it is done, except for   *)
(* such a loss or a workflow that was unreadable.                          *)
THEOREM PipelineImplemented ==
  ASSUME PipelineOnly
  PROVE  Spec => ImplementsPipeline
<1>1. Init => Pipeline!Init  BY InitPlan
<1>2. IInv /\ PlanInv /\ [Next]_vars => [Pipeline!Next]_Pipeline!vars
  BY EveryPlan DEF PipelineStep
<1> QED  BY <1>1, <1>2, Invariant, PlanInvariant, PTL DEF Spec, ImplementsPipeline, Pipeline!Spec

(* From the listing of a task for merging until the worker has written how *)
(* the merge ended, no turn is about to write that task's stage or status: *)
(* a turn in hand is of a task in another stage, or has only a reviewer    *)
(* left to assign, or could not read the workflow and marks the task       *)
(* failed.                                                                 *)
THEOREM MergerIsAlone ==
  ASSUME PipelineOnly
  PROVE  Spec => []MergeExclusive
<1>1. IInv /\ PlanInv => MergeExclusive
  <2> SUFFICES ASSUME IInv, PlanInv, NEW d \in Daemons, NEW e \in Daemons, NEW t \in Tasks,
                      MergePending(d, t), turn[e].task = t, turn[e].pc = "writing"
               PROVE  \/ Head(turn[e].writes).op \notin {"stage", "status", "fail"}
                      \/ Head(turn[e].writes).op = "fail" /\ t \in misread
    BY DEF MergeExclusive
  <2> DEFINE ws == turn[e].writes
  <2>1. tasks[t].stage = "Merging"
    <3>1. MergerPlan(d)  BY DEF PlanInv
    <3>2. CASE \E i \in DOMAIN merger[d].queue : merger[d].queue[i].task = t
      <4>1. DOMAIN merger[d].queue = 1..Len(merger[d].queue)
        BY TypeUse, LenProperties DEF Merger
      <4> QED  BY <3>1, <3>2, <4>1 DEF MergerPlan, Listed
    <3>3. CASE /\ merger[d].task = t /\ merger[d].writes # <<>>
               /\ Head(merger[d].writes).op \in {"stage", "fail"}
      <4>1. /\ merger[d].writes # <<Plain("clear_git")>>
            /\ merger[d].writes # <<Done, Plain("clear_git")>>
        BY <3>3, Ops1
      <4> QED  BY <3>1, <3>3, <4>1 DEF MergerPlan
    <3> QED  BY <3>2, <3>3 DEF MergePending
  <2>2. TurnWrites(ws, t, tasks[t], unmoved, misread) /\ tasks[t].wf /\ ws # <<>>
    BY <2>1 DEF PlanInv, TurnPlan, IInv, InFlight
  <2>3. CASE ws \in Seq(PickOnly)
    <3>1. Head(ws) \in PickOnly
      <4> HIDE DEF ws
      <4> QED  BY <2>2, <2>3, HeadTailProperties
    <3> QED  BY <3>1 DEF PickOnly
  <2>4. CASE /\ ws \in {<<Plain("fail")>>, <<Plain("fail"), Plain("fail")>>}
             /\ t \in misread
    <3>1. Head(ws) = Plain("fail")
      <4>1. CASE ws = <<Plain("fail")>>  BY <4>1
      <4>2. CASE ws = <<Plain("fail"), Plain("fail")>>  BY <4>2
      <4> QED  BY <2>4, <4>1, <4>2
    <3> QED  BY <2>4, <3>1, Ops1
  <2> QED  BY <2>1, <2>2, <2>3, <2>4, StageKinds DEF TurnWrites
<1> QED  BY <1>1, Invariant, PlanInvariant, PTL

-----------------------------------------------------------------------------
(* The default workflow.                                                   *)

(* The default workflow is a loop: changes_requested leads back to Coding, *)
(* so every stage has a transition into it, GetWorkflowInitialStage finds  *)
(* no stage without one and returns "workflow has no initial stage", and   *)
(* CreateTask, which drops that error, never attaches the workflow.        *)
THEOREM DefaultHasNoInitialStage == Default!InitialStage = NoInitialStage
<1>1. Default!Sources = {}
  <2>1. \A s \in DefaultStages : \E e \in DefaultEdges : e[3] = s
    BY DEF DefaultStages, DefaultEdges
  <2> QED  BY <2>1 DEF Default!Sources
<1> QED  BY <1>1 DEF Default!InitialStage

=============================================================================
