# A verification of Agentary

Agentary runs AI agents on tasks. A daemon keeps tasks in a database; a
scheduler gives them to agents, a workflow moves them from stage to stage, a
merge worker merges the finished branches, and people steer them over HTTP and
the command line. All of these read and write the same rows, each with its own
copy of them in hand, and no two of their statements are in one transaction.
This directory models that: TLA+ modules translated from the code, runs of TLC
on small instances, and proofs that hold for every instance.

## The system

| part | code (under `src/internal`) | state | what it does |
|---|---|---|---|
| task store | `store/queries.go`, `store/store.go`, `store/postgres` | the rows of `tasks`, `workflow_stages`, `workflow_transitions`, ... | one SQL statement per operation |
| scheduler | `daemon/scheduler.go` | the turns in flight | at each tick, for each team: pick the oldest runnable task, pick an agent, claim, run one turn; the tick ends when its turns have ended |
| workflow engine | `workflow/engine.go` | none; a copy of the row | one turn of a task: what its stage's type asks for, then the transition |
| merge worker | `merge/worker.go` | the batch of its tick | rebase, test, merge, `Done`, worktree removed |
| review | `review/review.go` | none | choose a reviewer; submit a review |
| HTTP server | `httpapi/server.go` | none | create, patch, approve, submit-review, request-review, and the other resources |
| runtimes | `agent/runtime` | the agent's process or call, its pipe or stream | one turn: start the agent, read its lines, emit the events, collect the rest |
| event hub | `httpapi/sse.go` | subscribers and their channels | fan-out of events, dropped when a channel is full |
| manager | `manager/manager.go`, `manager/llm.go` | none | reacts to events, answers the inbox, creates and moves tasks |
| task commands | `cli/task.go` | none | the same writes from another process |
| daemon life cycle | `daemon/daemon.go`, `daemon/lock_*.go` | lock, pid file, addr file | start, stop, status |
| migrations | `store/store.go`, `store/postgres/store.go` | `schema_migrations`, and the schema | applied when a store is opened |
| team registry | `store/queries.go`, `cli/team.go`, `cli/agent.go` | the rows of `teams` and of what belongs to a team | created, removed with its rows, seeded when a daemon starts |
| allowlist | `store/queries.go` | the rows of `network_allowlist` | allow, disallow, reset |
| messages, reviews, repos, identity, memory, git, sandbox, telemetry, UI | | | see `PROJECT.json` |

The scheduler, the merge worker, the manager and each HTTP request run in
goroutines of their own; the CLI runs in other processes. With SQLite a lock in
the home directory leaves one daemon; with PostgreSQL several may share the
store. They interact through the rows only (and through the hub, whose events
the manager and the browsers consume). What is hard about the code follows from that:
decisions on stale copies, several statements where one was meant, clients that
disconnect and daemons that die between two of them, and two queries (what may
be picked, what may be claimed) that must fit each other.

What makes the parts correct: a task is in one turn at a time; the engine moves
it along the declared transitions only, and `done` means that a terminal stage
has been reached; the merge worker and the scheduler keep out of each other's
tasks; the author is permanent, a reviewer is somebody else, and a rejected
task goes back to its author; what waits gets its turn; a turn reports all that
its agent wrote, and whoever follows it sees that in order.

## The modules

| module | contents |
|---|---|
| `Workflow` | a workflow as constants, and the questions the code asks of it: `NextStage`, `IsTerminalStage`, `InitialStage` |
| `TaskTable` | the table: `Row`, every `UPDATE` as an operator on a row, the statements as data, `updated_at` as an order, and the two queries whose order matters |
| `TaskLifecycle` | the actors: scheduler and engine, merge worker, requests and commands, faults; the specification, the fairness and the properties |
| `StagePipeline` | the abstract specification: what a workflow promises of `status` and `stage`, and the two exceptions that lost statements make |
| `DefaultWorkflow` | the seeded workflow |
| `TaskLifecycleProofs` | the inductive invariants, the refinement of `StagePipeline` and the theorems of `TaskLifecycle`; the default workflow has no initial stage |
| `DaemonLifecycle` | the processes of one home directory: the daemon's lock and pid file, and the commands start, stop and status |
| `DaemonLifecycleProofs` | the inductive invariant and the theorems of `DaemonLifecycle` |
| `SchedulerTick` | the loop over the teams of a tick, its semaphore and its join |
| `SchedulerTickProofs` | the inductive invariant and the theorems of `SchedulerTick` |
| `Manager` | the event hub as the manager sees it, the manager's event loop (by rule or with a language model), and its inbox |
| `ManagerProofs` | the inductive invariant and the theorems of `Manager` |
| `Allowlist` | the network allowlist and the statements of allow, disallow and reset |
| `AllowlistProofs` | the theorems of `Allowlist` |
| `TeamStore` | teams, the rows that belong to one, foreign keys enforced or not, and the seeding of teams and workflows |
| `TeamStoreProofs` | the inductive invariant and the theorems of `TeamStore` |
| `SchemaUpgrade` | the abstract specification: what opening a store promises of its schema |
| `Migrations` | the processes that open one database, with either driver |
| `MigrationsProofs` | the inductive invariant, the refinement of `SchemaUpgrade` and the theorems of `Migrations` |
| `AgentTurn` | a turn of the three runtimes: the agent, its pipe or stream, and `RunTurn` |
| `EventHub` | the hub: channels, the lock around them, publishers that do not wait |
| `EventStream` | the two composed: the events of turns and of requests on their way to the browsers |
| `EventStreamProofs` | the inductive invariant and the theorems of `EventStream` |
| `MCTaskLifecycle`, `MCDaemonLifecycle`, `MCSchedulerTick`, `MCManager`, `MCAllowlist`, `MCTeamStore`, `MCMigrations`, `MCEventStream` | workflows, initial rows and constants for TLC |

`DaemonLifecycle` stands alone: a daemon is a process there, and what it does
while it serves is the other modules' matter. `Migrations` is what a daemon or a
command does before any of that. `SchedulerTick`, `Manager`, `Allowlist` and `TeamStore` stand beside `TaskLifecycle`, each with as much of a
task as it needs (in `TeamStore`, its team): `SchedulerTick` has of each team's
tasks the status of the one that the query would return, and its
`OneTurnPerTeam` is why `TaskLifecycle` may have one turn per daemon for its one
team; `Manager` has tasks that are open or done and knows which one each
follow-up is about. `EventStream` is the inside of what `TaskLifecycle` takes for
one decision: the call of a runtime, and what the daemon tells the browsers
about it.

`TaskLifecycle` EXTENDS `TaskTable`, which EXTENDS `Workflow`; it INSTANCEs
`StagePipeline` with `status`, `stage` and `wf` read off the rows and the two
history variables `unmoved` and `misread`.

How state and actions correspond to the code:

* **A statement is a step.** Every SQL `UPDATE` is atomic, and between two of
  them anybody may run. An actor reads, decides on the list of statements it
  will issue, and issues them one at a time: `turn[d].writes`,
  `merger[d].writes` and `req[c].writes` are those lists. The decision is taken
  on what the code has read by then: the scheduler's copy of the row is
  `turn[d].wf`, `.stage` and `.worktree`, filled in `Pick`, before the claim.
  Where the code reads again in the middle (the reviewer after a turn,
  `request-review`) the list has an entry for that read.
* **The scheduler** is `Pick`, `Claim` or `ClaimLost`, one of the turn actions
  (by the type of the copied stage), and `TurnWrite`. A runtime's call is not a
  step of its own: it ends when the turn's decision is taken, and anything may
  happen between the claim and that.
* **The merge worker** is `ListMerging`, then for each task of the batch
  `MergeSkip`, `MergeOk` or `MergeFail` from the row as it was listed, then
  `MergeWrite`.
* **Requests** that read before they write are `Approve`, `SubmitReview`,
  `RequestReview`, `CancelTask`, `Rewind`, `CreateTask`, `CreateTaskMCP`, each
  followed by `ReqWrite`; requests that are one statement are `SetStatus`,
  `Assign`, `Requeue` and `ForceTransition`.
* **Faults**: `Disconnect` (a client goes away, or a command is killed: the
  rest of its statements is not executed) and `Crash` (a daemon dies or is
  stopped, and is started again; nothing repairs the rows).
* **A statement may fail on its own**, and the next one be executed all the
  same, as most of the code drops the error: `ClaimFails`, `TurnWriteFails`
  (`workflow/engine.go:113-116`, `123-126`, `158-161`, `scheduler.go:178`),
  `MergeWriteFails` (`merge/worker.go:114-116`) and `ReqWriteFails`, which ends
  the request where the handler looks at the error. `ReadFails` is the engine's
  query of the workflow: its error makes the scheduler mark the task failed
  (`scheduler.go:121`). What such a fault leaves behind is recorded: `unmoved` is the
  tasks that have not moved since the daemon lost a move of theirs, `misread`
  those that have not been claimed since a turn could not read their workflow.

* **The daemon's process** (`DaemonLifecycle`) goes through the phases of
  `StartForeground`, `pc[p]`, from `acquireLock` to the deferred removals and
  `release`; writing the pid file is two steps, as `os.WriteFile` truncates and
  then writes. A failure leaves through the deferred functions registered by
  then (`FailEarly`, `FailLate`), a crash through the kernel, which releases the
  lock (`Ends`).
* **start, stop and status** (`cmd[c]`) are the calls of `Status` they make
  (`ReadPid`, `Probe`, `RemoveStale`: read, `kill(pid, 0)`, remove) and what
  they do with the answer: `Spawn`, `SignalTerm`, `TimeOut`. A pid is reused
  once its process is gone; the child of a running start stays a zombie.
* **The scheduler's tick** (`SchedulerTick`) is `ListTeams`, a `Visit` for each
  team in any order, `Acquire` or `GiveUp` (the `select` between the semaphore
  and `ctx.Done`), and `Join`. `Visit` picks the oldest row that the query lists,
  whose status is `oldest`: one that is `in_progress` is picked like any other,
  and a team without agents (`staffed`) is skipped. `Claim` is possible if the
  row that was picked may be `todo`; otherwise the turn is `ClaimLost` and has
  taken a slot for nothing. `moved` remembers for which teams another row has
  become the oldest since the pick. A goroutine goes from `claiming` through
  `working` to its two deferred functions, `Release` and `Done`, in the order in
  which Go runs them. Every query may fail, and does once the context is done.
* **The manager** (`Manager`) takes the head of its channel: `FollowUp`,
  `FollowUpFails` or `Ignore` by rule; with a language model `AskLLM`, any number
  of `ExecuteLLMTool`, `LLMAnswered`, while events arrive. `Finish` and
  `Announce` are the two halves of every writer of `done`: the UPDATE, and the
  event after it. Its inbox is `ListUnprocessedMessages`, and for each message
  of the batch three steps. `HandleInboxMessage` decides on the reply: a command
  has returned, or a task has been created, or `CreateTask` has failed and the
  reply is another. `ReplyToSender` inserts it, or fails to and publishes its
  events all the same (`manager.go:206` drops the error), and
  `MarkMessageProcessed` or `MarkFails` follows either way. A crash between the
  task and the mark creates the task again. `announced`, `lost`, `handled`
  (replies inserted) and `unsent` (replies that failed) are history variables.
* **The allowlist** (`Allowlist`): one step per statement of `AllowDomain`,
  `DisallowDomain` and `ResetAllowlist`, for each of several requests and
  commands; the one error that the code ignores is `UnwildFails`, any other end
  is `Abort`. `before`, `alone` and `broken` are history variables.
* **The team registry** (`TeamStore`): a request (`RemoveTeam`, `AddAgent`,
  `AddTask`, `AddComment`, `InitWorkflow`) finds the id of its team and uses it
  in a later step, `DeleteTeam`, `CreateAgent`, `CreateTask`,
  `CreateTaskComment` (which looks for the task, `GetTask`, and then for the
  team again) or `CreateWorkflow`, whose seeding is a `SeedStages` per row.
  `SeedDemo` at the start of a daemon goes on in `SeedTeam`, `SeedAgents` and
  `SeedTask`, with a `GetTeamByName` before each. `Allows` is a foreign key:
  PostgreSQL enforces them, SQLite does where the statement meets the connection
  with the pragma, so `Enforced` is a choice there. Repositories and attachments
  are to the keys what agents and comments are. `cut` is a history variable.
* **Opening a store** (`Migrations`) is `Open`, `Read` (or `ReadInPart`: the
  PostgreSQL store does not look at `rows.Err()`), then one migration after the
  other. `ApplyMigration` is one step, since with SQLite the statements and the
  record are a transaction, and of one that somebody else has committed
  meanwhile a statement fails: the version is the primary key, and most
  migrations add a column that is there already. With PostgreSQL
  `pool.Exec` of the statements takes from `Execute` to `Execution`, as two may
  overlap, and `Record` is a statement of its own. A migration's tables and columns are one
  name, its version; the row it may insert is another (`seeded`), which users of
  an open store add and remove (`Configure`).
* **A turn** (`AgentTurn`) is the agent's `Write`, `Exit`, `Crash` and `Fork`
  beside `RunTurn`: `Start`, `Scan` for each line, then for a subprocess
  `EndOfOutput` and the deferred `Wait`, for a gRPC call `Receive`; `Simulate`
  is the stub. `Cancel` is the end of the context and `Kill` what it does to
  the agent. A line is an event, a text, or too long for the scanner or for a
  gRPC message; the pipe holds some lines and then blocks the agent. A gRPC
  server is not waited for: `Receive` at the end of the stream is all the daemon
  learns of it, and the model lets go of the agent there, so that `TurnIsComplete`
  says of a gRPC turn that its lines were taken, and nothing of the server after it.
* **The hub** (`EventHub`): `PublishJSON` is `RLock`, a `Send` per channel and
  `RUnlock`; a stream's handler is `Subscribe`, `Deliver`, and after
  `Disconnect` the deferred `Unsubscribe`. `EventStream` says who publishes
  when: a turn that its task is in progress (`claimed`), each event (`emit`), an
  error (`failed` follows `report`) and the new status, a request once.
  `published`, `since`, `received`, `lost` and `taken` are history variables.

The SQLite and the PostgreSQL store execute the same statements, each in a file
of its own. A definition stands for both; `PROJECT.json` maps it to one of them,
and where several definitions are about one function, some to the other.

Abstractions, and why they lose nothing the properties see. Titles, branch
names and times are left out; `updated_at` becomes the order of the rows with
ties, since it has a resolution of one second and is only sorted by.
`PickAssignee` and `PickReviewer` return any of the eligible agents where the
code takes the first, so the model allows more. The name-ordered first source
of a workflow is a fixed `CHOOSE`. The CLI writes any string as a status; the
model takes the known ones, since no query tells the others apart. Rows that no
decision reads (comments, reviews, charters) are left out. `reopened`, `unmoved`
and `misread` are history variables that no action reads.

## The runs

The first five runs are of `MCTaskLifecycle`, the others of the module of
their name. Deadlock is not checked: with nothing to do and no request left in
the bound, the system rests.

| run | instance | shows |
|---|---|---|
| `lifecycle_safety` | 2 daemons, 1 task, 2 agents, all 14 requests and faults, 2 of them per behaviour; a review workflow | `TypeOK`, `OneTurnPerTask`, `ReviewerIsNotAuthor`, `ReviewReturnsToAuthor`, `DriPermanent` |
| `lifecycle_pipeline` | 1 daemon, 2 tasks, approvals, requeues, disconnects, crashes, failing statements, 2 of them; a workflow with every stage type | `MergeExclusive`, and `ImplementsPipeline`: the detailed specification implements `StagePipeline` |
| `lifecycle_progress` | 1 daemon, 2 tasks, a requeue, fairness | `LegacyFinishes`, `MergeFinishes` |
| `cancelled_is_terminal` | 1 task, one cancel | violated: finding 1 |
| `runnable_gets_a_turn` | 2 tasks, no request at all, fairness | violated: finding 2 |
| `daemon_lifecycle` | 2 pids, 2 concurrent commands, 3 daemons started, every failure and crash, fairness | `TypeOK`, `PidFileIsOwn`, `OnlyStatusHides`, `StopEnds` |
| `scheduler_tick` | 2 teams, 1 slot, 3 goroutines, 2 database errors, fairness | `TypeOK`, `OneTurnPerTeam`, `MaxTurns`, `TeamServed`, `SchedulerStops` |
| `manager` | a channel of 2, batches of 1, 6 tasks, 2 messages, 2 operations, 2 crashes or failed statements, with and without a language model, fairness | `TypeOK`, `FollowUpsMatch`, `AnsweredOnce`, `FollowUpMade`, `InboxDrains` |
| `allowlist` | 2 clients, 2 domains, every failure | `TypeOK`, `NeverLeftEmpty`, `AloneIsAtomic` |
| `team_store` | 2 clients, a team removed and created anew, 2 tasks, 1 agent, every failure, with PostgreSQL and with SQLite | `TypeOK`, `RemovedWithData`, `WelcomeOnce`, `WorkflowWhole` |
| `migrations` | 3 processes, 3 migrations of which one inserts a row, 2 faults, with SQLite and with PostgreSQL, fairness | `TypeOK`, `RecordedIsApplied`, `NotSeededAgain`, `SomeoneMigrates`, and `ImplementsUpgrade`: both drivers implement `SchemaUpgrade` |
| `event_stream` | 1 turn with each runtime and each of 3 outputs, 1 request, 1 browser, a channel of 2, every crash, fairness | `TypeOK`, `NeverSendsToClosed`, `StreamsFollow`, `TurnIsComplete`, `TurnEnds` |

Bounds. `MaxOps` bounds the requests started, the crashes and the statements
that fail in a behaviour: each
race the properties are about is between one or two requests and a turn, and
two of them (a requeue and a review, say, with a turn in between) are what the
deepest mutants need. One task is enough where the property is about one row;
two where rows compete (the one-row query, a batch of `MergeBatch` = 1 for the
code's 20). `MaxAttempts` stops failures from being started, which bounds
`attempts`. `lifecycle_progress` has no faults: a failed `done` of a legacy turn
leaves its task `in_progress`, which is where finding 2 begins. Two agents are an author and a reviewer. The two daemons of
`lifecycle_safety` are interchangeable and declared symmetric; the liveness runs
use no symmetry.

`MaxStarts` = 3 gives a dead daemon that has left its file and two that
compete; two pids make the third start reuse one, and two commands are a stop
that polls and a status that cleans up behind it.

`scheduler_tick` has fewer slots than teams, so that the loop waits for a turn
in the middle of a tick, and a goroutine more than there are teams, which a
second turn of a team would need; what two teams do to each other over one slot
is what any others do over more. `TeamServed` is about a team that has agents
and whose oldest row is `todo` and stays so. It is served although rows of other
teams that are `in_progress` take a slot at every tick and are never claimed; a
team whose own oldest row is such a one gets no turn, whatever else it has to do
(finding 2). In `manager` the channel of 256 has the
capacity 2 and is full after a handler's two events; `MaxTasks` leaves rows
for the follow-ups of both announcements and for a follow-up's own, and two
faults are a reply that fails and another failure or crash after it. In
`allowlist` nothing is bounded but the clients and the domains: two overlapping
operations after any number of others. In `team_store` one name has two ids in
turn, which is what a request with an old id needs; two tasks are a welcome task
and another, or two welcome tasks; one agent and one row of a workflow are
enough, as no row of either is special. Its clients are symmetric.

`migrations` has three processes, so that two of them can fail over each other
while a third goes on, and three migrations, so that one is neither the first
nor the last; a database may be new, old or current at the beginning. Two
faults are a crash between the two statements of PostgreSQL, and a part of the
list read. In `event_stream` the channel of 256 has the capacity 2, which a turn
overflows, and the pipe's 64 KB are one line: of the three outputs one is
harmless, one ends with a line that is too long, and one goes on after such a
line with more than the pipe holds. A publisher beside the turn is one request;
what a second browser sees does not depend on the first.

`RemovedWithData` is about enforced keys, `WelcomeOnce` about SQLite, where one
daemon seeds at a time. Without these conditions they do not hold, and the code
says neither: with SQLite a daemon that removes a team may leave every row of
it, against "Remove a team and its data" (`cli/team.go:114`), since
`PRAGMA foreign_keys=ON` reaches one connection of the pool
(`store/store.go:171`); and two daemons that start together on PostgreSQL may
both find no task.

`lifecycle_pipeline` has one daemon, one request at a time, and reviewers'
outcomes that lead out of human stages only. These are conditions of the
property, not of the code: `approve` does not look at the type of the stage, so
a client that approves an agent's stage while its turn runs makes two writers
of one stage, of which the later wins.

Fairness. `FairSpec` gives weak fairness to the scheduler's steps and the merge
worker's steps of each daemon, which are loops around a ticker that never block
each other, and to the statements of a handler that has started. It assumes
that a runtime, a test command and git return: nothing in the loops bounds
them. Requests and faults are nobody's duty. `LegacyFinishes` and
`MergeFinishes` hold from rows in which no task without an owner is
`in_progress`: see finding 2. In `DaemonLifecycle` each process and each command
takes its next step if it has one: nothing in `StartForeground` waits for ever
except a daemon that serves (`Shutdown` has a timeout of 15 seconds), and the
polls are loops with a deadline. Starting a process, failing, crashing and the
passing of a deadline are not fair. In `SchedulerTick` the ticker ticks, the loop
and each goroutine go on when they can, and `Stop` is strongly fair: when a tick
and the cancelled context are both ready, Go's `select` takes one of them at
random. In `Manager` the event loop and the inbox go on, and who has written
`done` announces it; a shell command, a language model and the database answer,
which the code does not ensure for the first. People and agents owe nothing. In
`Migrations` whoever has begun to open a store goes on until it is open or an
error is returned, and no fault is owed. In `EventStream` an agent goes on
writing and then exits, `RunTurn`, each publisher and each stream's handler go on
when they can (the handler holds no lock while it writes to its client), and a
killed process ends. Nothing makes a descendant of the agent end, which is why
`TurnEnds` has that exception, nor the context.

## Findings

1. **A cancelled task can become done.** The merge worker
   (`merge/worker.go:115`) and the scheduler (`scheduler.go:178`) write `done`
   whatever the status is by then. The store calls cancelled terminal
   (`store/queries.go:335`).
2. **A workflow task gets one turn.** A turn that ends in a non-terminal stage
   leaves the task `in_progress`; the query lists such tasks, the claim
   (`store/store.go:131`) takes only `todo`. The task is picked at each tick,
   never runs, and as the oldest row keeps the team's `todo` tasks waiting.

Read from the code while it was modelled, and not a run:

* **A task can leave a terminal stage.** `request-review`
  (`httpapi/server.go:510`) writes the successor of the stage it read, also
  after the turn has written `Done`. The documentation says "No further
  transitions" (`docs/content/workflows.md:24`). This is why the run of
  `ImplementsPipeline` has no such request.
* **A task can be done in a stage that is not terminal.** The merge worker drops
  the error of the statement that writes the stage `Done` and writes the status
  `done` in the next line (`merge/worker.go:114-115`); the engine does the same
  (`workflow/engine.go:113-116`, `123-126`, `158-161`). Nothing moves the task
  after that, unless somebody requeues it. `StagePipeline` permits it for the
  tasks in `unmoved` only, so `ImplementsPipeline` shows that a lost move is
  the one way to get there.
* **A turn that cannot read its workflow marks its task failed**
  (`workflow/engine.go:109`, `scheduler.go:121`), also a task that an approval
  has finished meanwhile, or that the merge worker has in hand. It is the
  exception in `StagePipeline` and in `MergeExclusive` for the tasks in `misread`.
* **A message can be marked without an answer.** `replyToSender` drops the error
  of the INSERT (`manager.go:206`), and the message is marked processed
  (`manager.go:161`). `AnsweredOnce` says that a marked message without an answer
  is one whose answer failed.
* **A running daemon can lose its pid file.** `Status` removes the file after
  it has found the pid in it dead (`daemon/daemon.go:273`), also when a new
  daemon has written its own in between. That daemon serves, is reported as
  not running, is not stopped by `stop`, and keeps the lock from any other.
  `OnlyStatusHides` shows that nothing else does this.
* **A line of more than 64 KB holds a turn.** The scanner returns an error, the
  deferred `Wait` waits for an agent that waits for somebody to read its pipe,
  and `SubprocessRuntime.Timeout` is never read. Only the end of the daemon's
  context ends the turn, and `wg.Wait` makes every team wait for it. `TurnEnds`
  has the condition `NoLongLine(t) \/ cancelled` for this and does not hold
  without it; a descendant that keeps the pipe is its other exception.
* **A crashed agent's turn succeeds.** The exit status is only logged; the end
  of the pipe is the end of the turn (`TurnIsComplete` says that all of it has
  been read).
* **A stream ends after the server's `WriteTimeout` of 60 seconds**, and what is
  published until the browser has connected again is lost to it.
* **No task has a worktree.** Only tests call `CreateWorktree` and
  `UpdateTaskGitFields`, so the git steps of a merge run for rows that something
  else has written. For these, `MergeInWorktree` (`git/git.go:107`) merges in the
  task's own clone, nothing pushes, and `DeleteWorktree` removes the clone after
  it: `README.md:22` says "merges into your repo". The merge
  actions have both kinds of rows, and take git's results as a choice.
* **A row removed by a user can be back, with PostgreSQL.** `NotSeededAgain` is
  about SQLite: where the statements and the record are not one transaction, a
  migration that is executed again inserts its row again.

Proved rather than run: **the default workflow is never attached**. All its
stages have a transition into them (`DefaultHasNoInitialStage`), so
`GetWorkflowInitialStage` fails for it, and `CreateTask`
(`store/queries.go:280`) drops the error: the task has no workflow, though
`httpapi/handlers_test.go:200` says "workflow task via API: init default
workflow then create task".

## The proofs

`TaskLifecycleProofs` proves, for all values of the constants that satisfy the
assumptions, `Spec => []TypeOK` (`TypeCorrect`), `Spec => []OneTurnPerTask`
(`ClaimIsExclusive`), `Spec => DriPermanent` (`DriNeverChanges`),
`Spec => []ReviewerIsNotAuthor` (`ReviewerIsAnother`) and
`Spec => []ReviewReturnsToAuthor` (`ReviewReturns`); and under one condition
more, `PipelineOnly`, the refinement `Spec => ImplementsPipeline`
(`PipelineImplemented`) and `Spec => []MergeExclusive` (`MergerIsAlone`). The
assumptions are `WorkflowAssumption` (transitions are a function of stage and
outcome: the table's primary key), `TableAssumption` (the null values are no
agents, tasks or stages; finitely many tasks) and `LifecycleAssumption` (the
constants have their types).

`OneTurnPerTask` is not inductive: nothing in it says that a claimed task cannot
be `todo` again, or be claimed for a second daemon, without having been
requeued, or that a row does not appear from nothing under a claimed turn. The
invariant proved is `IInv == TypeOK /\ InFlight /\ OneTurnPerTask`, where
`InFlight` says that whoever has a task in hand (a picked turn, a listed merge,
a request with statements to come) has one whose row exists, and has statements
to execute when it says so. The argument has two halves, each stated once:
`TableStep` is what any statement may do to a row (it removes none, replaces no
author, and makes a task `todo` only by recording it in `reopened`),
`ActorStep` what a step may do to what the actors hold (who holds a task after
the step held it before, or took it from `todo` and is the only one). A lemma
per action (`...Step`) shows that it is both; `OneTurnStep` then derives the
invariant from these two alone, and `DriNeverChanges` follows from `TableStep`.

The two theorems about reviews compare what an actor decided with the author of
the row when the statement runs, several steps later. `AuthorInv` says of every
statement on an actor's list, not only of the next, that it names nobody else
than it may (`AssignsOther`, `ReturnsTo`); a claim gives a task an author before
the scheduler asks for a reviewer, and since the author is permanent
(`TableStep`) no other actor's step can make such a list wrong.

The refinement needs to know where the task is when a statement on a list runs,
although the list was made from an older copy of the row. `PlanInv` says it of
each kind of list: a turn that has a transition to write is of a task that is
still in the engine's stage that was read, with an edge to the stage to be
written; a merge with `Done` to come is of a task in `Merging`, an approval of
one in a human stage, and `<<Done>>` alone is left only for a task in a terminal
stage, without a workflow, or in `unmoved`: the statement before it has failed
and the task is still where it was, in a stage of the engine's or in `Merging`
(`RowOK` says so of the rows). A list that marks a task failed is of a task in
such a stage, or without a workflow, or in `misread`. It is inductive because, under `PipelineOnly`, each
stage has one writer: the engine for stages that are not human, terminal or
`Merging`, an approval for the human ones, the merge worker for `Merging`,
nobody for terminal ones (`TurnRow`, `RequestRow`, `MergerRow`); a step of one
actor leaves the others' plans alone (`LossKept`: it takes nobody out of `unmoved` whose
task has not moved; `NobodyActs`: a statement that fails changes no row), and
the row it changes makes a step of
`StagePipeline` or none (`PipelineRow`). `PipelineOnly` is what the run
`lifecycle_pipeline` has, for any number of tasks and agents and any workflow of that
kind: one daemon, one client with `approve`, `assign`, `requeue` and the faults,
failing statements among them,
outcomes of reviewers that lead out of human stages only, and `Merging`, if there is
one, with an edge to a terminal `Done`. TLC evaluates it for that run
(`PipelineRunAssumption` in `MCTaskLifecycle`), and the sections above say how the code
breaks the property without it.

`DefaultHasNoInitialStage` is a fact about the constants of `DefaultWorkflow`.

`DaemonLifecycleProofs` proves `TypeCorrect`, `PidFileNamesServer` and
`OnlyStatusHidesServer` from `DaemonAssumption` (the values that are no pid are
none). `PidFileIsOwn` alone is not inductive: a second daemon could be writing
its file already. The invariant adds that whoever is between `acquireLock` and
`release` holds the lock (`LockHeld`), hence is alone, and what the holder finds
in the file from its first write on (`FileOfHolder`). Every step of a command,
and every end of a process, is `Passive`: it puts nobody into a phase that holds
the lock, takes the lock from nobody who is in one, and at most removes the
file; `PassiveKeeps` shows once that this preserves the invariant.

`SchedulerTickProofs` proves `TypeCorrect`, `TeamsTakeTurns` and
`TurnsAreBounded`, for every number of teams, slots and goroutines
(`TickAssumption`: the goroutines are finitely many). The counters alone say
nothing about who holds them: the invariant adds that `slots` is the number of
goroutines that hold a slot and `joining` the number that have not ended, and
`Joined`, that a team still to be visited in this tick, or just picked, has no
goroutine. `Join` waits for `joining = 0`, and then no team has one: this is
where the next tick's `Joined` comes from.

`AllowlistProofs` proves `TypeCorrect`, `FilledAgain` (`NeverLeftEmpty`, which
needs no strengthening: whatever statement empties the list leaves its client
with one more to execute) and `UndisturbedIsAtomic` (`AloneIsAtomic`), from the
invariant `Undisturbed`: while nobody else is active, the list is what the
statements executed so far make of the one the operation found.

`MigrationsProofs` proves, for any number of processes and migrations and any
number of faults, `TypeOK`, `RecordedIsApplied`, `NotSeededAgain` (`SeedingIsOnce`)
and the refinement `Spec => ImplementsUpgrade` (`UpgradeImplemented`). What is recorded
says nothing about the order in which it came there, and what a process has on
its list may be out of date, so the invariant adds: the schema is an initial
segment of the versions (`InOrder`); what is not on a process's list is
recorded (`ListIsComplete`); who is about
to record a migration has it in the schema (`RecordsApplied`); only PostgreSQL
has a second statement (`TwoStatements`); and an open store lacks nothing
(`OpenIsWhole`). The schema never shrinks, which is why a list that is out of
date is harmless.

`EventStreamProofs` proves `TypeOK` (`TypeCorrect`), `NeverSendsToClosed`
(`NoSendOnClosed`), `TurnIsComplete` (`OutputIsComplete`) and `StreamsFollow`
(`StreamsAreFollowed`), for any turns, requests, streams, outputs and sizes. Of
the hub, the invariant adds that who still has channels to send to holds the
read lock (`SendersHoldLock`), so that a writer, who waits for all readers,
removes no channel under it. Of a turn, that its lines are either taken or in
the pipe (`Accounted`), that a subprocess which is waited for after the end of
its output has nothing more to write, and neither has anybody else (`Drained`),
and that a result without an error was complete (`Complete`); and `TurnsPublish`
ties the two together: a turn that holds the lock stands still. A second
invariant, `Following`, is `StreamsFollow` and what streams have before they are
opened. The property says by position and number which events a stream must
have (`Due`): taking an event from the channel changes nothing in what was
`Sent`, taking and releasing the lock change nothing in what is `Due`, and a
send adds the same event to both, or sets `lost`.

`ManagerProofs` proves `TypeCorrect`, `FollowUpsMatch`
(`FollowUpsAreAnnouncements`) and `AnsweredOnce` (`AnswersAreCounted`), for any
number of tasks, messages, operations and faults, any channel and any batch.
`FollowUpsMatch` counts announcements against follow-ups, so the proof counts
too: what waits in the channel for each task, and what appending to it or
taking its head does to that count. Of the inbox the invariant adds that the
loop has unread messages in hand, each once (`BatchOK`), and how often a message
was answered by where it is (`AnswerOK`): a message in hand whose mark is next,
or a marked one, has been `Tried`, and an unread one that is not in hand was
answered only at the price of a fault. Replies that failed count twice (`Cost`),
once as an attempt and once as the fault that they are. `Ranking` (the members of a finite set of
numbers are in bijection with `1..Cardinality`, in order) is what the query's
`ORDER BY ... LIMIT` needs to return a list at all.

`TeamStoreProofs` proves `TypeCorrect`, `RemovedWithData`
(`NoRowsWithoutTeam`), `WelcomeOnce` (`OneWelcome`) and `WorkflowWhole`
(`OneSeedsTheWorkflow`), for any names, clients, agents and parts, any number of
ids and both drivers. A request holds the id of a team that may have been
removed and created anew. The invariant says what that id still means
(`RequestOK`): it was never another name's, the team of its name is not an older
one (ids are given out in order, `IdsGiven`), the task a comment is for is in the
team whose id it carries, and a seeder that is about to insert the welcome task
found none of this team (`SeederOK`), which it can rely on as it holds the lock
(`OneSeeder`, SQLite). `RowsStep` is what a step of one request may do to the
rows as another sees them; `OtherRequest` shows once that it keeps the other's
`RequestOK`, so each action is left with its own.

Only model-checked: the liveness properties (`LegacyFinishes`, `MergeFinishes`,
`StopEnds`, `TeamServed`, `SchedulerStops`, `FollowUpMade`, `InboxDrains`,
`SomeoneMigrates`, `TurnEnds`), which need fairness and `ENABLED` and are out of
the prover's reach. Every invariant and action property that a run checks is
proved.

## Not modelled, and the plan

Not modelled yet: the worktree on disk and the git commands, two merge workers
with a task each in hand of one worktree, the creation of workflows stage by
stage under a turn, the deletion of a team under a turn, the chain of review
tasks that each done task begins, and the Windows lock and the addr file of the
daemon. Out of scope: rows that are only written and listed, parsing, git
itself, the mounts of the sandbox, telemetry and presentation.

In this order:

1. `Worktrees`: rows against directories, merge against cancel.
2. `WorkflowStore`: the initial stage that a task gets while its workflow is seeded.
3. The deletion of a team under a running turn.
