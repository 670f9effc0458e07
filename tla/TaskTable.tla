----------------------------- MODULE TaskTable ------------------------------
(***************************************************************************)
(* The tasks table of one team as the program sees it: every UPDATE is one *)
(* SQL statement on one row and is atomic, every SELECT returns a copy     *)
(* that is stale as soon as another statement runs.  Nothing in the code   *)
(* puts two of these statements into one transaction.                      *)
(*                                                                         *)
(* Titles, branch names and timestamps are left out.  updated_at is kept   *)
(* as what the queries tell apart, the order of the rows: it has one       *)
(* second's resolution, so rows may tie.                                   *)
(***************************************************************************)
EXTENDS Workflow, Naturals, FiniteSets, Sequences

CONSTANTS
  Tasks,        \* task ids of the team
  NoTask,       \* "no task in hand"
  Agents,       \* agents of the team
  NoAgent       \* SQL NULL in assignee and dri

ASSUME TableAssumption ==
  /\ NoAgent \notin Agents
  /\ NoTask \notin Tasks /\ IsFiniteSet(Tasks)
  /\ {"InReview", "Merging", "Done"} \subseteq StageNames

VARIABLES
  tasks,        \* the rows; status "absent" before the INSERT
  older,        \* <<u, t>> when u.updated_at < t.updated_at
  reopened,     \* history: tasks that were set back to todo after leaving it
  unmoved,      \* history: tasks that have not moved since the daemon lost a
                \*   write of their stage
  misread       \* history: tasks that have not been claimed since a turn of
                \*   theirs could not read the workflow

tableVars == <<tasks, older, reopened, unmoved, misread>>

Statuses == {"todo", "in_progress", "in_review", "in_approval", "merging",
             "done", "failed", "cancelled"}

Row == [status   : Statuses \cup {"absent"},
        assignee : Agents \cup {NoAgent},
        dri      : Agents \cup {NoAgent},
        wf       : BOOLEAN,              \* workflow_id is set
        stage    : StageNames \cup {NoStage},
        attempts : Nat,
        worktree : BOOLEAN]              \* worktree_path and branch_name are set

NewRow(status) ==
  [status |-> status, assignee |-> NoAgent, dri |-> NoAgent, wf |-> FALSE,
   stage |-> NoStage, attempts |-> 0, worktree |-> FALSE]

Exists(t) == tasks[t].status # "absent"

-----------------------------------------------------------------------------
(* The UPDATE statements, each as the new row it leaves.  (The operators   *)
(* named Bad... are variants with a plausible bug, to test the properties.) *)

BadClaimTask(r, a) ==                                   \* no COALESCE
  [r EXCEPT !.status = "in_progress", !.assignee = a, !.dri = a]

ClaimTask(r, a) ==
  [r EXCEPT !.status = "in_progress", !.assignee = a,
            !.dri = IF @ = NoAgent THEN a ELSE @]       \* COALESCE(dri, ?)

UpdateTask(r, status, a) == [r EXCEPT !.status = status, !.assignee = a]

AssignTask(r, a) == [r EXCEPT !.assignee = a]

BadSetTaskFailed(r) == [r EXCEPT !.status = "error", !.attempts = @ + 1]

SetTaskFailed(r) == [r EXCEPT !.status = "failed", !.attempts = @ + 1]

SetTaskCancelled(r) == [r EXCEPT !.status = "cancelled", !.assignee = NoAgent]

(* Also SetTaskWorkflowAndStage: its callers pass the workflow_id they just *)
(* read from the row, and no statement changes one that is set.             *)
UpdateTaskStage(r, s) == [r EXCEPT !.stage = s]

ClearTaskGitFields(r) == [r EXCEPT !.worktree = FALSE]

(* The second statement of CreateTask.                                     *)
AttachWorkflow(r) == [r EXCEPT !.wf = TRUE, !.stage = InitialStage]

RequeueTask(r) == [r EXCEPT !.status = "todo", !.assignee = NoAgent]

RewindTask(r, s) ==
  [r EXCEPT !.status = "todo", !.assignee = NoAgent, !.stage = s]

-----------------------------------------------------------------------------
(* A statement a goroutine has decided on and not yet executed, with the   *)
(* arguments it will pass.  The two pick_reviewer operations are a read:   *)
(* they change no row and are followed by the "assign" they decide on.     *)

StmtOps == {"stage", "status", "assign", "fail", "cancel", "clear_git",
            "attach", "rewind", "pick_reviewer", "pick_reviewer_if_in_review"}

Stmt == [op     : StmtOps,
         stage  : StageNames \cup {NoStage},
         status : Statuses,
         agent  : Agents \cup {NoAgent}]

Plain(op) == [op |-> op, stage |-> NoStage, status |-> "todo", agent |-> NoAgent]
StageTo(s)     == [Plain("stage") EXCEPT !.stage = s]
RewindTo(s)    == [Plain("rewind") EXCEPT !.stage = s]
StatusTo(s, a) == [Plain("status") EXCEPT !.status = s, !.agent = a]
AssignTo(a)    == [Plain("assign") EXCEPT !.agent = a]

Apply(r, w) ==
  CASE w.op = "stage"     -> UpdateTaskStage(r, w.stage)
    [] w.op = "status"    -> UpdateTask(r, w.status, w.agent)
    [] w.op = "assign"    -> AssignTask(r, w.agent)
    [] w.op = "fail"      -> SetTaskFailed(r)
    [] w.op = "cancel"    -> SetTaskCancelled(r)
    [] w.op = "clear_git" -> ClearTaskGitFields(r)
    [] w.op = "attach"    -> AttachWorkflow(r)
    [] w.op = "rewind"    -> RewindTask(r, w.stage)
    [] OTHER              -> r

-----------------------------------------------------------------------------
(* updated_at = now: t is now among the youngest rows, either alone or,    *)
(* when the clock still shows the second of the youngest row, beside it.   *)
Touch(t) ==
  \E others \in {Tasks \ {t},
                 {u \in Tasks \ {t} : \E v \in Tasks : <<u, v>> \in older}} :
    older' = {p \in older : t \notin {p[1], p[2]}} \cup (others \X {t})

(* Executing an UPDATE of row t.                                           *)
Execute(t, row) ==
  /\ tasks' = [tasks EXCEPT ![t] = row]
  /\ reopened' = IF row.status = "todo" /\ tasks[t].status # "todo"
                 THEN reopened \cup {t} ELSE reopened
  /\ unmoved' = IF row.stage # tasks[t].stage THEN unmoved \ {t} ELSE unmoved
  /\ misread' = IF tasks[t].status = "todo" /\ row.status = "in_progress"
                THEN misread \ {t} ELSE misread
  /\ Touch(t)

-----------------------------------------------------------------------------
(* The queries whose order matters.                                        *)

OldestOf(S) == {t \in S : \A u \in S : <<u, t>> \notin older}

BadRunnable == {t \in Tasks : tasks[t].status \in {"todo", "in_progress"}}

Runnable ==
  {t \in Tasks : tasks[t].status \in {"todo", "in_progress"}
                 /\ tasks[t].stage # "Merging"}

(* ORDER BY updated_at ASC LIMIT 1; SQLite may return any of the ties.     *)
NextRunnable == OldestOf(Runnable)

InStage(s) == {t \in Tasks : Exists(t) /\ tasks[t].stage = s}

(* ORDER BY updated_at ASC LIMIT limit: each element is oldest among the   *)
(* rows that are not listed before it.                                     *)
ListTasksInStage(s, limit) ==
  LET S == InStage(s)
      n == IF Cardinality(S) <= limit THEN Cardinality(S) ELSE limit
  IN {q \in [1..n -> S] :
        \A i \in 1..n : q[i] \in OldestOf(S \ {q[j] : j \in 1..(i - 1)})}

TableTypeOK ==
  /\ tasks \in [Tasks -> Row]
  /\ older \subseteq Tasks \X Tasks
  /\ reopened \subseteq Tasks /\ unmoved \subseteq Tasks /\ misread \subseteq Tasks

=============================================================================
