--------------------------- MODULE TaskLifecycle ----------------------------
(***************************************************************************)
(* How the tasks of one team move: the scheduler and the workflow engine,  *)
(* the merge worker, the HTTP handlers and the task commands of the CLI,   *)
(* all reading and writing the same rows.                                  *)
(*                                                                         *)
(* An actor reads rows, decides on a list of statements from what it read, *)
(* and executes them one at a time; the other actors run in between.  A    *)
(* daemon may die between any two statements and an HTTP client may        *)
(* disconnect, which cancels the request's context and so every statement  *)
(* still to come.  A statement may also fail on its own (a busy database,  *)
(* a lost connection): most of the code drops the error and goes on with   *)
(* the next statement.  Several daemons may share one (PostgreSQL) store;  *)
(* with the default SQLite store the home lock leaves one.                 *)
(***************************************************************************)
EXTENDS TaskTable

CONSTANTS
  Daemons,              \* daemons running a scheduler and a merge worker
  Clients,              \* concurrent HTTP requests and CLI commands
  Managers,             \* agents whose role is "manager"
  Candidates,           \* candidate_agents of each listed stage
  Verdicts,             \* outcomes that callers of the review endpoints send
  CreateWithWorkflow,   \* the team has the workflow "default" version 1
  InitialRows,          \* rows the store may hold when the daemons start
  Ops,                  \* the requests and faults of the environment
  MaxOps,               \* bound: requests and faults in one behaviour
  MaxAttempts,          \* bound: no failure is started beyond it
  MergeBatch            \* 20 in runOnce

AllOps == {"create", "create_mcp", "approve", "submit_review", "request_review",
           "cancel", "requeue", "assign", "status", "force_transition", "rewind",
           "disconnect", "crash", "fault"}

ASSUME LifecycleAssumption ==
  /\ Managers \subseteq Agents
  /\ Candidates \in [Stages -> SUBSET Agents]
  /\ Verdicts \subseteq Outcomes
  /\ CreateWithWorkflow \in BOOLEAN
  /\ InitialRows \subseteq Row
  /\ \A r \in InitialRows : r.status = "absent" => r = NewRow("absent")
  /\ Ops \subseteq AllOps
  /\ MaxOps \in Nat /\ MaxAttempts \in Nat /\ MergeBatch \in Nat \ {0}

VARIABLES
  turn,         \* per daemon: the turn its scheduler has in flight
  merger,       \* per daemon: the merge worker's batch and statements to come
  req,          \* per client: the request being served
  ops           \* requests and faults so far

vars == <<tasks, older, reopened, unmoved, misread, turn, merger, req, ops>>

-----------------------------------------------------------------------------
(* What the actors hold between two statements.                            *)

(* The scheduler's copy of the row (tk, read before the claim) and the     *)
(* agent picked for it.                                                    *)
Turn == [pc : {"idle", "picked", "claimed", "writing"},
         task : Tasks \cup {NoTask}, agent : Agents \cup {NoAgent},
         wf : BOOLEAN, stage : StageNames \cup {NoStage}, worktree : BOOLEAN,
         writes : Seq(Stmt)]

IdleTurn == [pc |-> "idle", task |-> NoTask, agent |-> NoAgent, wf |-> FALSE,
             stage |-> NoStage, worktree |-> FALSE, writes |-> <<>>]

(* The rows listed by the merge worker's tick, and the task in hand.       *)
MergeItem == [task : Tasks, wf : BOOLEAN, worktree : BOOLEAN]
Merger == [queue : Seq(MergeItem), task : Tasks \cup {NoTask}, writes : Seq(Stmt)]
IdleMerger == [queue |-> <<>>, task |-> NoTask, writes |-> <<>>]

Request == [op : AllOps \cup {"none"}, task : Tasks \cup {NoTask},
            writes : Seq(Stmt)]
IdleRequest == [op |-> "none", task |-> NoTask, writes |-> <<>>]

(* A turn holds its task from the claim until its last statement.          *)
Holds(d, t) == turn[d].pc \in {"claimed", "writing"} /\ turn[d].task = t

Init ==
  /\ tasks \in [Tasks -> InitialRows]
  /\ older = {}
  /\ reopened = {} /\ unmoved = {} /\ misread = {}
  /\ turn = [d \in Daemons |-> IdleTurn]
  /\ merger = [d \in Daemons |-> IdleMerger]
  /\ req = [c \in Clients |-> IdleRequest]
  /\ ops = 0

-----------------------------------------------------------------------------
(* The scheduler: one turn per team and tick, wg.Wait before the next.     *)

PreferManager(S) == IF S \cap Managers # {} THEN S \cap Managers ELSE S

(* The agents pickAssignee may return; it takes the first by creation.     *)
PickAssignee(r) ==
  LET pool == IF r.wf /\ r.stage \in Stages THEN Candidates[r.stage] ELSE {}
  IN PreferManager(IF pool # {} THEN pool ELSE Agents)

BadPickReviewer(r) ==                                   \* the author may be in the pool
  LET pool == IF r.wf /\ "InReview" \in Stages THEN Candidates["InReview"] ELSE {}
  IN IF pool # {} THEN pool ELSE Agents

(* The agents review.PickReviewer may return for the row it is given.      *)
PickReviewer(r) ==
  LET pool == IF r.wf /\ "InReview" \in Stages
              THEN Candidates["InReview"] \ {r.dri} ELSE {}
      others == Agents \ {r.dri}
  IN IF pool # {} THEN pool ELSE IF others # {} THEN others ELSE Agents

(* A tick picks the oldest runnable task and copies its row.               *)
Pick(d) ==
  /\ turn[d].pc = "idle"
  /\ \E t \in NextRunnable :
       \E a \in PickAssignee(tasks[t]) :
         turn' = [turn EXCEPT ![d] =
                    [IdleTurn EXCEPT !.pc = "picked", !.task = t, !.agent = a,
                                     !.wf = tasks[t].wf, !.stage = tasks[t].stage,
                                     !.worktree = tasks[t].worktree]]
  /\ UNCHANGED <<tableVars, merger, req, ops>>

BadClaim(d) ==                                          \* claims what the query lists
  /\ turn[d].pc = "picked"
  /\ LET t == turn[d].task
     IN /\ tasks[t].status \in {"todo", "in_progress"}
        /\ Execute(t, ClaimTask(tasks[t], turn[d].agent))
  /\ turn' = [turn EXCEPT ![d].pc = "claimed"]
  /\ UNCHANGED <<merger, req, ops>>

(* UPDATE ... WHERE status='todo' changed the row.                         *)
Claim(d) ==
  /\ turn[d].pc = "picked"
  /\ LET t == turn[d].task
     IN /\ tasks[t].status = "todo"
        /\ Execute(t, ClaimTask(tasks[t], turn[d].agent))
  /\ turn' = [turn EXCEPT ![d].pc = "claimed"]
  /\ UNCHANGED <<merger, req, ops>>

(* It changed nothing: the row is no longer todo, or never was.            *)
ClaimLost(d) ==
  /\ turn[d].pc = "picked"
  /\ tasks[turn[d].task].status # "todo"
  /\ turn' = [turn EXCEPT ![d] = IdleTurn]
  /\ UNCHANGED <<tableVars, merger, req, ops>>

-----------------------------------------------------------------------------
(* One turn.  The engine decides on the copy of the row taken before the   *)
(* claim; what it reads besides are the workflow's own rows.               *)

Done == StatusTo("done", NoAgent)

BadMoveTo(s) ==                                         \* the two writes swapped
  IF s = NoStage THEN <<>>
  ELSE IF IsTerminalStage(s) THEN <<Done, StageTo(s)>> ELSE <<StageTo(s)>>

(* UpdateTaskStage, then UpdateTask(done) if the stage is terminal.        *)
MoveTo(s) ==
  IF s = NoStage THEN <<>>
  ELSE IF IsTerminalStage(s) THEN <<StageTo(s), Done>> ELSE <<StageTo(s)>>

(* A turn the engine handled without error ends in the re-read that may    *)
(* assign a reviewer.                                                      *)
Handled(writes) == Append(writes, Plain("pick_reviewer_if_in_review"))

MayFail(t) == tasks[t].attempts < MaxAttempts

StartWriting(d, writes) ==
  turn' = [turn EXCEPT ![d].pc = "writing", ![d].writes = writes]

EndTurn(d, writes) ==
  StartWriting(d, writes) /\ UNCHANGED <<tableVars, merger, req, ops>>

InStageOfType(d, type) ==
  /\ turn[d].pc = "claimed" /\ turn[d].wf
  /\ turn[d].stage \in Stages /\ StageType[turn[d].stage] = type

(* A copy that carries a workflow_id and no stage (a rewind that read the  *)
(* row before CreateTask attached the workflow leaves such a row): the     *)
(* engine enters the initial stage and goes on with it.  Its error when    *)
(* there is none needs a row no statement writes.                          *)
EnterInitialStage(d) ==
  LET t == turn[d].task
  IN /\ turn[d].pc = "claimed" /\ turn[d].wf /\ turn[d].stage = NoStage
     /\ InitialStage # NoStage
     /\ Execute(t, UpdateTaskStage(tasks[t], InitialStage))
     /\ turn' = [turn EXCEPT ![d].stage = InitialStage]
     /\ UNCHANGED <<merger, req, ops>>

BadLegacyTurn(d) ==                                     \* done is not written
  /\ turn[d].pc = "claimed" /\ ~turn[d].wf
  /\ \/ EndTurn(d, <<AssignTo(NoAgent)>>)
     \/ MayFail(turn[d].task) /\ EndTurn(d, <<Plain("fail")>>)

(* No workflow_id in the copy: the runtime is called once and the task is  *)
(* done.                                                                   *)
LegacyTurn(d) ==
  /\ turn[d].pc = "claimed" /\ ~turn[d].wf
  /\ \/ EndTurn(d, <<Done>>)
     \/ MayFail(turn[d].task) /\ EndTurn(d, <<Plain("fail")>>)

(* The runtime's output is the outcome.  When it fails the engine marks    *)
(* the task failed and returns the error, and the scheduler marks it again.*)
AgentTurn(d) ==
  /\ InStageOfType(d, "agent")
  /\ \/ \E o \in Outcomes : EndTurn(d, Handled(MoveTo(NextStage(turn[d].stage, o))))
     \/ /\ MayFail(turn[d].task)
        /\ EndTurn(d, <<Plain("fail"), Plain("fail")>>)

TerminalTurn(d) ==
  /\ InStageOfType(d, "terminal")
  /\ EndTurn(d, Handled(<<Done>>))

AutoTurn(d) ==
  /\ InStageOfType(d, "auto")
  /\ EndTurn(d, Handled(MoveTo(NextStage(turn[d].stage, "done"))))

(* A merge stage that is not called "Merging" is the engine's: test_cmd    *)
(* (its failure is marked twice), the merge, then the transition.          *)
MergeTurn(d) ==
  /\ InStageOfType(d, "merge")
  /\ \/ EndTurn(d, Handled(MoveTo(NextStage(turn[d].stage, "done"))))
     \/ /\ turn[d].worktree /\ MayFail(turn[d].task)
        /\ \E writes \in {<<Plain("fail"), Plain("fail")>>, <<Plain("fail")>>} :
             EndTurn(d, writes)

(* A human stage waits; a stage without a row is ignored.                  *)
WaitingTurn(d) ==
  /\ \/ InStageOfType(d, "human")
     \/ /\ turn[d].pc = "claimed" /\ turn[d].wf
        /\ turn[d].stage \notin Stages \cup {NoStage}
  /\ EndTurn(d, Handled(<<>>))

TurnGoesOn(d, ws) ==
  turn' = [turn EXCEPT ![d] =
             IF ws = <<>> THEN IdleTurn ELSE [turn[d] EXCEPT !.writes = ws]]

(* The next statement of the turn.                                         *)
TurnWrite(d) ==
  LET t == turn[d].task
      w == Head(turn[d].writes)
      rest == Tail(turn[d].writes)
  IN /\ turn[d].pc = "writing"
     /\ IF w.op = "pick_reviewer_if_in_review"
        THEN /\ IF tasks[t].stage = "InReview"
                THEN \E a \in PickReviewer(tasks[t]) : TurnGoesOn(d, <<AssignTo(a)>>)
                ELSE TurnGoesOn(d, rest)
             /\ UNCHANGED tableVars
        ELSE Execute(t, Apply(tasks[t], w)) /\ TurnGoesOn(d, rest)
     /\ UNCHANGED <<merger, req, ops>>

-----------------------------------------------------------------------------
(* The merge worker: one batch per tick, one task at a time, from the rows *)
(* as they were listed.                                                    *)

(* A tick lists the batch.                                                 *)
ListMerging(d) ==
  /\ merger[d].queue = <<>> /\ merger[d].writes = <<>>
  /\ \E q \in ListTasksInStage("Merging", MergeBatch) :
       /\ q # <<>>
       /\ merger' = [merger EXCEPT ![d].queue =
            [i \in DOMAIN q |-> [task |-> q[i], wf |-> tasks[q[i]].wf,
                                 worktree |-> tasks[q[i]].worktree]]]
  /\ UNCHANGED <<tableVars, turn, req, ops>>

(* processTask on the head of the batch, up to its first statement.        *)
Process(d, writes) ==
  /\ merger[d].queue # <<>> /\ merger[d].writes = <<>>
  /\ merger' = [merger EXCEPT ![d] =
                  [queue |-> Tail(@.queue), task |-> Head(@.queue).task,
                   writes |-> writes]]
  /\ UNCHANGED <<tableVars, turn, req, ops>>

MergeSkip(d) ==
  /\ Process(d, <<>>)
  /\ ~Head(merger[d].queue).wf

BadMergeOk(d) ==                                        \* the stage is not written
  /\ Process(d, <<Done, Plain("clear_git")>>)
  /\ Head(merger[d].queue).wf

MergeOk(d) ==
  /\ Process(d, <<StageTo("Done"), Done, Plain("clear_git")>>)
  /\ Head(merger[d].queue).wf

(* The rebase, the tests or the merge fail.                                *)
MergeFail(d) ==
  /\ Process(d, <<Plain("fail")>>)
  /\ Head(merger[d].queue).wf /\ Head(merger[d].queue).worktree
  /\ MayFail(Head(merger[d].queue).task)

MergeWrite(d) ==
  LET t == merger[d].task
  IN /\ merger[d].writes # <<>>
     /\ Execute(t, Apply(tasks[t], Head(merger[d].writes)))
     /\ merger' = [merger EXCEPT ![d].writes = Tail(@)]
     /\ UNCHANGED <<turn, req, ops>>

-----------------------------------------------------------------------------
(* HTTP handlers and CLI commands that read a row, decide, and then write. *)

Begin(c, op) == op \in Ops /\ ops < MaxOps /\ req[c].op = "none"

Serve(c, op, t, writes) ==
  /\ req' = [req EXCEPT ![c] =
              IF writes = <<>> THEN IdleRequest
              ELSE [op |-> op, task |-> t, writes |-> writes]]
  /\ ops' = ops + 1
  /\ UNCHANGED <<turn, merger>>

(* POST .../approve.  No check of the stage's type or of the status.       *)
Approve(c) ==
  /\ Begin(c, "approve")
  /\ \E t \in Tasks, o \in Verdicts :
       LET next == NextStage(tasks[t].stage, o)
       IN /\ Exists(t) /\ tasks[t].wf /\ next # NoStage
          /\ Serve(c, "approve", t, MoveTo(next))
  /\ UNCHANGED tableVars

(* POST .../submit-review: the task returns to its author when changes are *)
(* requested.                                                              *)
SubmitReview(c) ==
  /\ Begin(c, "submit_review")
  /\ \E t \in Tasks, o \in Verdicts :
       LET r == tasks[t]
           next == NextStage(r.stage, o)
           return == IF o = "changes_requested" /\ r.dri # NoAgent
                     THEN <<StatusTo("in_progress", r.dri)>> ELSE <<>>
           end == IF IsTerminalStage(next) THEN <<Done>> ELSE <<>>
       IN /\ Exists(t) /\ r.wf /\ next # NoStage
          /\ Serve(c, "submit_review", t, <<StageTo(next)>> \o return \o end)
  /\ UNCHANGED tableVars

(* POST .../request-review.                                                *)
RequestReview(c) ==
  /\ Begin(c, "request_review")
  /\ \E t \in Tasks :
       LET next == NextStage(tasks[t].stage, "submit_for_review")
       IN /\ Exists(t) /\ tasks[t].wf /\ next # NoStage
          /\ Serve(c, "request_review", t,
               IF next = "InReview" THEN <<StageTo(next), Plain("pick_reviewer")>>
               ELSE <<StageTo(next)>>)
  /\ UNCHANGED tableVars

(* agentary task cancel.                                                   *)
CancelTask(c) ==
  /\ Begin(c, "cancel")
  /\ \E t \in Tasks :
       /\ Exists(t)
       /\ Serve(c, "cancel", t,
            IF tasks[t].worktree THEN <<Plain("clear_git"), Plain("cancel")>>
            ELSE <<Plain("cancel")>>)
  /\ UNCHANGED tableVars

(* agentary task rewind: the UPDATE writes the stage that followed from    *)
(* the row as it was read.                                                 *)
Rewind(c) ==
  /\ Begin(c, "rewind")
  /\ \E t \in Tasks :
       /\ Exists(t)
       /\ tasks[t].wf => InitialStage # NoStage
       /\ Serve(c, "rewind", t,
            <<RewindTo(IF tasks[t].wf THEN InitialStage ELSE NoStage)>>)
  /\ UNCHANGED tableVars

(* POST .../tasks and the manager's tools: the INSERT, with the UPDATE     *)
(* that attaches the workflow still to come.  The error of a workflow that *)
(* has no initial stage is dropped.                                        *)
CreateTask(c) ==
  /\ Begin(c, "create")
  /\ \E t \in Tasks, status \in Statuses :
       /\ ~Exists(t)
       /\ tasks' = [tasks EXCEPT ![t] = NewRow(status)]
       /\ Touch(t)
       /\ Serve(c, "create", t,
            IF CreateWithWorkflow /\ InitialStage # NoStage
            THEN <<Plain("attach")>> ELSE <<>>)
  /\ UNCHANGED <<reopened, unmoved, misread>>

(* The MCP tool creates tasks in todo and passes no workflow.              *)
CreateTaskMCP(c) ==
  /\ Begin(c, "create_mcp")
  /\ \E t \in Tasks :
       /\ ~Exists(t)
       /\ tasks' = [tasks EXCEPT ![t] = NewRow("todo")]
       /\ Touch(t)
       /\ Serve(c, "create_mcp", t, <<>>)
  /\ UNCHANGED <<reopened, unmoved, misread>>

RequestGoesOn(c, ws) ==
  req' = [req EXCEPT ![c] =
            IF ws = <<>> THEN IdleRequest ELSE [req[c] EXCEPT !.writes = ws]]

(* The next statement of the request.  The attach passes the time of the   *)
(* INSERT again, so the row keeps its place in the order.                  *)
ReqWrite(c) ==
  LET t == req[c].task
      w == Head(req[c].writes)
  IN /\ req[c].op # "none"
     /\ \/ /\ w.op = "pick_reviewer"
           /\ \E a \in PickReviewer(tasks[t]) : RequestGoesOn(c, <<AssignTo(a)>>)
           /\ UNCHANGED tableVars
        \/ /\ w.op = "attach"
           /\ tasks' = [tasks EXCEPT ![t] = AttachWorkflow(@)]
           /\ RequestGoesOn(c, Tail(req[c].writes))
           /\ UNCHANGED <<older, reopened, unmoved, misread>>
        \/ /\ w.op \notin {"pick_reviewer", "attach"}
           /\ Execute(t, Apply(tasks[t], w))
           /\ RequestGoesOn(c, Tail(req[c].writes))
     /\ UNCHANGED <<turn, merger, ops>>

-----------------------------------------------------------------------------
(* Requests that are one statement.                                        *)

Update(op, t, row) ==
  /\ op \in Ops /\ ops < MaxOps /\ Exists(t)
  /\ Execute(t, row)
  /\ ops' = ops + 1
  /\ UNCHANGED <<turn, merger, req>>

(* PATCH, task status, task complete, the manager's advance_task.          *)
SetStatus(t) ==
  \E s \in Statuses, a \in Agents \cup {NoAgent} :
    Update("status", t, UpdateTask(tasks[t], s, a))

(* PATCH without a status, task assign, the manager's assign_task.         *)
Assign(t) ==
  \E a \in Agents \cup {NoAgent} : Update("assign", t, AssignTask(tasks[t], a))

(* task requeue, task retry.                                               *)
Requeue(t) == Update("requeue", t, RequeueTask(tasks[t]))

(* task force-transition: any name, no check.                              *)
ForceTransition(t) ==
  \E s \in StageNames :
    Update("force_transition", t, UpdateTaskStage(tasks[t], s))

-----------------------------------------------------------------------------
(* Faults.                                                                 *)

(* The client goes away: the statements still to come fail on the          *)
(* cancelled context.  A killed CLI command is the same.                   *)
Disconnect(c) ==
  /\ "disconnect" \in Ops /\ req[c].op # "none"
  /\ req' = [req EXCEPT ![c] = IdleRequest]
  /\ UNCHANGED <<tableVars, turn, merger, ops>>

(* The daemon dies or is stopped, and is started again.  Nothing is        *)
(* recovered from the rows it left in_progress.                            *)
Crash(d) ==
  /\ "crash" \in Ops /\ ops < MaxOps
  /\ turn[d] # IdleTurn \/ merger[d] # IdleMerger
  /\ turn' = [turn EXCEPT ![d] = IdleTurn]
  /\ merger' = [merger EXCEPT ![d] = IdleMerger]
  /\ ops' = ops + 1
  /\ UNCHANGED <<tableVars, req>>

(* A statement fails on its own.                                           *)
Fault == "fault" \in Ops /\ ops < MaxOps /\ ops' = ops + 1

(* The claim fails: the tick is over for this team.                        *)
ClaimFails(d) ==
  /\ Fault /\ turn[d].pc = "picked"
  /\ turn' = [turn EXCEPT ![d] = IdleTurn]
  /\ UNCHANGED <<tableVars, merger, req>>

(* The engine cannot read the stages or the transitions, or cannot write   *)
(* the initial stage: it returns the error and the scheduler marks the     *)
(* task failed, whatever has become of it.  In an auto or a merge stage    *)
(* the error of the transitions is dropped, and the task does not move.    *)
ReadFails(d) ==
  LET t == turn[d].task
  IN /\ Fault /\ turn[d].pc = "claimed" /\ turn[d].wf
     /\ \/ /\ MayFail(t) /\ StartWriting(d, <<Plain("fail")>>)
           /\ misread' = misread \cup {t}
        \/ /\ InStageOfType(d, "auto") \/ InStageOfType(d, "merge")
           /\ StartWriting(d, Handled(<<>>))
           /\ UNCHANGED misread
     /\ UNCHANGED <<tasks, older, reopened, unmoved, merger, req>>

(* The tasks whose move is lost with this statement.                       *)
Lost(t, w) == IF w.op = "stage" THEN {t} ELSE {}

(* A turn's write, or the read for the reviewer, fails: the error is       *)
(* dropped and the next statement is executed all the same.                *)
TurnWriteFails(d) ==
  /\ Fault /\ turn[d].pc = "writing"
  /\ TurnGoesOn(d, Tail(turn[d].writes))
  /\ unmoved' = unmoved \cup Lost(turn[d].task, Head(turn[d].writes))
  /\ UNCHANGED <<tasks, older, reopened, misread, merger, req>>

(* The merge worker drops its errors too.                                  *)
MergeWriteFails(d) ==
  /\ Fault /\ merger[d].writes # <<>>
  /\ merger' = [merger EXCEPT ![d].writes = Tail(@)]
  /\ unmoved' = unmoved \cup Lost(merger[d].task, Head(merger[d].writes))
  /\ UNCHANGED <<tasks, older, reopened, misread, turn, req>>

(* A request answers 500 and ends, except that the errors of its status    *)
(* writes and of the cancel command's first statement are dropped.         *)
ReqWriteFails(c) ==
  /\ Fault /\ req[c].op # "none"
  /\ RequestGoesOn(c, IF Head(req[c].writes).op \in {"status", "clear_git"}
                      THEN Tail(req[c].writes) ELSE <<>>)
  /\ UNCHANGED <<tableVars, turn, merger>>

-----------------------------------------------------------------------------
SchedulerStep(d) ==
  \/ Pick(d) \/ Claim(d) \/ ClaimLost(d)
  \/ EnterInitialStage(d) \/ LegacyTurn(d) \/ AgentTurn(d) \/ TerminalTurn(d)
  \/ AutoTurn(d) \/ MergeTurn(d) \/ WaitingTurn(d) \/ TurnWrite(d)

MergerStep(d) ==
  ListMerging(d) \/ MergeSkip(d) \/ MergeOk(d) \/ MergeFail(d) \/ MergeWrite(d)

RequestStep(c) ==
  \/ Approve(c) \/ SubmitReview(c) \/ RequestReview(c) \/ CancelTask(c)
  \/ Rewind(c) \/ CreateTask(c) \/ CreateTaskMCP(c) \/ ReqWrite(c)
  \/ Disconnect(c) \/ ReqWriteFails(c)

FaultStep(d) ==
  \/ Crash(d)
  \/ ClaimFails(d) \/ ReadFails(d) \/ TurnWriteFails(d) \/ MergeWriteFails(d)

StatementStep(t) == SetStatus(t) \/ Assign(t) \/ Requeue(t) \/ ForceTransition(t)

Next ==
  \/ \E d \in Daemons : SchedulerStep(d) \/ MergerStep(d) \/ FaultStep(d)
  \/ \E c \in Clients : RequestStep(c)
  \/ \E t \in Tasks : StatementStep(t)

Spec == Init /\ [][Next]_vars

(* The two loops of a daemon keep running while the process lives, and a   *)
(* handler runs to its end; that a runtime, a test command and git return  *)
(* is assumed, since nothing in the loops bounds them.  Nobody is obliged  *)
(* to make a request.                                                      *)
Fairness ==
  /\ \A d \in Daemons : WF_vars(SchedulerStep(d)) /\ WF_vars(MergerStep(d))
  /\ \A c \in Clients : WF_vars(ReqWrite(c))

FairSpec == Spec /\ Fairness

-----------------------------------------------------------------------------
(* Properties.                                                             *)

TypeOK ==
  /\ TableTypeOK
  /\ turn \in [Daemons -> Turn]
  /\ merger \in [Daemons -> Merger]
  /\ req \in [Clients -> Request]
  /\ ops \in Nat

(* "Claim only if still todo (prevents double-processing)": however many   *)
(* schedulers share the store, and whatever requests arrive meanwhile, a   *)
(* task that nobody has put back to todo is in at most one turn at a time, *)
(* and is in no turn while it is still todo.                               *)
OneTurnPerTask ==
  \A t \in Tasks \ reopened :
    /\ \A d, e \in Daemons : Holds(d, t) /\ Holds(e, t) => d = e
    /\ tasks[t].status = "todo" => \A d \in Daemons : ~Holds(d, t)

(* "DRI: set on first assignment, never changes": no statement of any      *)
(* actor, in any order, replaces the author of a task, also not when it is *)
(* requeued and claimed for another agent.                                 *)
DriPermanent ==
  [][\A t \in Tasks :
       tasks[t].dri # NoAgent => tasks'[t].dri = tasks[t].dri]_vars

(* "When transitioned to InReview, assign a reviewer (different from DRI)": *)
(* the reviewer a turn is about to assign, picked from a row read earlier, *)
(* is not the task's author at the moment of the assignment, unless the    *)
(* team has no other agent.                                                *)
ReviewerIsNotAuthor ==
  \A d \in Daemons :
    turn[d].pc = "writing" /\ Head(turn[d].writes).op = "assign" =>
      LET dri == tasks[turn[d].task].dri
      IN Head(turn[d].writes).agent # dri \/ Agents \subseteq {dri}

(* "Return task to author when changes requested": the agent a review is   *)
(* about to hand the task to is its author when the statement runs, though *)
(* the handler read the author before it wrote the stage.                  *)
ReviewReturnsToAuthor ==
  \A c \in Clients :
    req[c].op = "submit_review" /\ Head(req[c].writes).op = "status" =>
      \/ Head(req[c].writes) = Done
      \/ Head(req[c].writes).agent = tasks[req[c].task].dri

-----------------------------------------------------------------------------
(* Properties of the pipeline proper: one daemon, and no request that      *)
(* writes a status or a stage of its own choosing.                         *)

Pipeline == INSTANCE StagePipeline
  WITH status <- [t \in Tasks |-> tasks[t].status],
       stage  <- [t \in Tasks |-> tasks[t].stage],
       wf     <- [t \in Tasks |-> tasks[t].wf],
       unmoved <- unmoved, misread <- misread

(* The teams meant: nobody else writes a stage or a status, the outcomes   *)
(* that callers send lead out of human stages only, a merge leads to the   *)
(* terminal stage "Done" (which the worker writes without asking the       *)
(* workflow), and the rows found at the start are of that kind.            *)
PipelineOnly ==
  /\ \A d, e \in Daemons : d = e
  /\ \A b, c \in Clients : b = c
  /\ Ops \subseteq {"approve", "assign", "requeue",
                   "disconnect", "crash", "fault"}
  /\ \A e \in Edges :
       e[2] \in Verdicts => e[1] \in Stages /\ StageType[e[1]] = "human"
  /\ "Merging" \in Stages => StageType["Merging"] \notin {"human", "terminal"}
  /\ IsTerminalStage("Done")
  /\ \E e \in Edges : e[1] = "Merging" /\ e[3] = "Done"
  /\ \A r \in InitialRows :
       /\ r.wf => r.stage # NoStage
       /\ r.wf /\ r.status = "done" => IsTerminalStage(r.stage)

(* Crashes, disconnects, stale copies and requeues in the middle of a turn *)
(* included, and whichever statements fail, the statements of the daemon   *)
(* add up to the workflow's own steps: tasks advance along its transitions *)
(* only, "done" is written only in a terminal stage, or for a task that    *)
(* has not moved since the write of its stage was lost, and a done task is *)
(* not failed, except for that loss or for a workflow that was unreadable. *)
ImplementsPipeline == Pipeline!Spec

(* The scheduler's query leaves the tasks in Merging to the merge worker:  *)
(* from the listing of a task until the worker has written how its merge   *)
(* ended, no turn is about to write the stage or the status of that task,  *)
(* although a turn may have been picked before the task reached Merging.   *)
(* A turn that could not read the workflow is the exception: it marks the  *)
(* task failed without knowing where it is.                                *)
MergePending(d, t) ==
  \/ \E i \in DOMAIN merger[d].queue : merger[d].queue[i].task = t
  \/ /\ merger[d].task = t /\ merger[d].writes # <<>>
     /\ Head(merger[d].writes).op \in {"stage", "fail"}

MergeExclusive ==
  \A d, e \in Daemons, t \in Tasks :
    MergePending(d, t) /\ turn[e].task = t /\ turn[e].pc = "writing" =>
      \/ Head(turn[e].writes).op \notin {"stage", "status", "fail"}
      \/ Head(turn[e].writes).op = "fail" /\ t \in misread

(* A legacy task that is waiting is run to an end: no other task of the    *)
(* team can keep the scheduler from it for ever.  Without crashes, and     *)
(* with no task left in_progress (see ClaimLost), every todo task ends.    *)
LegacyFinishes ==
  \A t \in Tasks :
    tasks[t].status = "todo" /\ ~tasks[t].wf /\ tasks[t].stage # "Merging"
      ~> tasks[t].status \in {"done", "failed"}

(* A workflow task that reaches Merging is merged or marked failed, also   *)
(* when the batch is shorter than the list of tasks in that stage.         *)
MergeFinishes ==
  \A t \in Tasks :
    tasks[t].wf /\ tasks[t].stage = "Merging"
      ~> tasks[t].stage = "Done" \/ tasks[t].status = "failed"

-----------------------------------------------------------------------------
(* What the documentation and the comments say, and the code does not do.  *)

(* "SetTaskCancelled sets status to cancelled (terminal)": a cancelled     *)
(* task leaves that status only when somebody requeues it.                 *)
CancelledIsTerminal ==
  [][\A t \in Tasks :
       tasks[t].status = "cancelled" => tasks'[t].status \in {"cancelled", "todo"}]_vars

(* "runScheduler periodically picks runnable tasks (todo/in_progress) per  *)
(* team, assigns an agent, runs a turn": a runnable task is given a turn,  *)
(* unless it stops being runnable.                                         *)
RunnableGetsATurn ==
  \A t \in Tasks :
    t \in Runnable ~> t \notin Runnable \/ \E d \in Daemons : turn[d].pc = "claimed" /\ turn[d].task = t

=============================================================================
