--------------------------- MODULE SchedulerTick ----------------------------
(***************************************************************************)
(* One tick of runScheduler and the next: the loop over the teams, the     *)
(* semaphore of MaxConcurrent slots it takes for each turn it starts, and  *)
(* the goroutines it joins before it waits for the ticker again.           *)
(*                                                                         *)
(* What a turn does to its task is TaskLifecycle, which has one turn of    *)
(* one team at a time: OneTurnPerTeam is why that is enough.  Of a team's  *)
(* rows the loop sees one, the oldest that its query lists; the claim is   *)
(* of that row, and takes only one that is todo.                           *)
(***************************************************************************)
EXTENDS Integers, FiniteSets

CONSTANTS
  Teams,
  NoTeam,
  Turns,          \* goroutines
  MaxConcurrent,  \* capacity of the semaphore
  MaxErrors       \* bound: database errors in one behaviour

ASSUME TickAssumption ==
  /\ MaxConcurrent \in Nat \ {0} /\ MaxErrors \in Nat
  /\ NoTeam \notin Teams
  /\ IsFiniteSet(Turns)

VARIABLES
  loop,           \* where runScheduler is
  left,           \* the teams of this tick it has not visited
  team,           \* the team whose task it has picked
  ticked,         \* the ticker's channel, of capacity one, is full
  cancelled,      \* ctx is done
  oldest,         \* per team: the status of the row that the query returns
  moved,          \* the teams of which another row has been the oldest since
                  \* the loop last asked
  staffed,        \* the teams that have agents
  of, phase,      \* the goroutines: their team, and how far each is
  slots,          \* slots taken in sem
  joining,        \* the counter of wg
  errors

rows == <<oldest, moved, staffed>>
vars == <<loop, left, team, ticked, cancelled, oldest, moved, staffed,
          of, phase, slots, joining, errors>>

(* NextRunnableTaskForTeam returns no row, or one of either status.        *)
Oldest == {"none", "todo", "in_progress"}

(* "returned" and "released" are its two deferred functions: the slot is   *)
(* released before the loop is told.                                       *)
Phases == {"none", "claiming", "working", "returned", "released"}
Holding == {"claiming", "working", "returned"}

Init ==
  /\ loop = "waiting" /\ left = {} /\ team = NoTeam
  /\ ticked = FALSE /\ cancelled = FALSE
  /\ oldest \in [Teams -> Oldest] /\ moved = {}
  /\ staffed \in SUBSET Teams
  /\ of = [g \in Turns |-> NoTeam]
  /\ phase = [g \in Turns |-> "none"]
  /\ slots = 0 /\ joining = 0 /\ errors = 0

-----------------------------------------------------------------------------
(* A query fails: always once ctx is done, and now and then.               *)
QueryFails ==
  \/ cancelled /\ errors' = errors
  \/ errors < MaxErrors /\ errors' = errors + 1

QueryWorks == ~cancelled /\ errors' = errors

(* The loop.                                                               *)

ListTeams ==
  /\ loop = "waiting" /\ ticked
  /\ ticked' = FALSE
  /\ \/ QueryWorks /\ loop' = "visiting" /\ left' = Teams
     \/ QueryFails /\ UNCHANGED <<loop, left>>
  /\ UNCHANGED <<team, cancelled, rows, of, phase, slots, joining>>

Stop ==
  /\ loop = "waiting" /\ cancelled
  /\ loop' = "stopped"
  /\ UNCHANGED <<left, team, ticked, cancelled, rows, of, phase, slots,
                 joining, errors>>

(* NextRunnableTaskForTeam and ListAgents.  A row that is in_progress is   *)
(* picked like any other.                                                  *)
Visit(t) ==
  /\ loop = "visiting" /\ t \in left
  /\ left' = left \ {t}
  /\ \/ /\ QueryWorks /\ oldest[t] # "none" /\ t \in staffed
        /\ loop' = "acquiring" /\ team' = t
        /\ moved' = moved \ {t}
     \/ /\ QueryWorks /\ (oldest[t] = "none" \/ t \notin staffed)
        /\ UNCHANGED <<loop, team, moved>>
     \/ QueryFails /\ UNCHANGED <<loop, team, moved>>
  /\ UNCHANGED <<ticked, cancelled, oldest, staffed, of, phase, slots, joining>>

NewTurn == CHOOSE g \in Turns : phase[g] = "none"

Go ==
  /\ \E g \in Turns : phase[g] = "none"
  /\ of' = [of EXCEPT ![NewTurn] = team]
  /\ phase' = [phase EXCEPT ![NewTurn] = "claiming"]

BadAcquire ==                                           \* a buffer of one too many
  /\ loop = "acquiring" /\ slots <= MaxConcurrent
  /\ loop' = "visiting" /\ team' = NoTeam
  /\ slots' = slots + 1 /\ joining' = joining + 1 /\ Go
  /\ UNCHANGED <<left, ticked, cancelled, rows, errors>>

(* sem <- struct{}{}, wg.Add, go; when ctx is done as well, either happens.*)
Acquire ==
  /\ loop = "acquiring" /\ slots < MaxConcurrent
  /\ loop' = "visiting" /\ team' = NoTeam
  /\ slots' = slots + 1 /\ joining' = joining + 1 /\ Go
  /\ UNCHANGED <<left, ticked, cancelled, rows, errors>>

GiveUp ==
  /\ loop = "acquiring" /\ cancelled
  /\ loop' = "visiting" /\ team' = NoTeam
  /\ UNCHANGED <<left, ticked, cancelled, rows, of, phase, slots, joining,
                 errors>>

BadJoin ==                                              \* without wg.Wait
  /\ loop = "visiting" /\ left = {}
  /\ loop' = "waiting"
  /\ UNCHANGED <<left, team, ticked, cancelled, rows, of, phase, slots,
                 joining, errors>>

Join ==
  /\ loop = "visiting" /\ left = {} /\ joining = 0
  /\ loop' = "waiting"
  /\ UNCHANGED <<left, team, ticked, cancelled, rows, of, phase, slots,
                 joining, errors>>

-----------------------------------------------------------------------------
(* A turn.                                                                 *)

To(g, from, to) == phase[g] = from /\ phase' = [phase EXCEPT ![g] = to]

(* The row that was picked may be todo: it is the oldest still, and is, or *)
(* it is not the oldest any more.                                          *)
MayBeTodo(t) == oldest[t] = "todo" \/ t \in moved

BadClaim(g) ==                                          \* <-sem is not deferred
  /\ To(g, "claiming", "working") /\ QueryWorks
  /\ MayBeTodo(of[g])
  /\ \E s \in {"todo", "in_progress"} : oldest' = [oldest EXCEPT ![of[g]] = s]
  /\ slots' = slots - 1
  /\ UNCHANGED <<loop, left, team, ticked, cancelled, moved, staffed, of, joining>>

(* UPDATE ... WHERE status='todo' changed the row, which is now in_progress *)
(* and the youngest: another is the oldest then, or the row itself is.     *)
Claim(g) ==
  /\ To(g, "claiming", "working") /\ QueryWorks
  /\ MayBeTodo(of[g])
  /\ \E s \in {"todo", "in_progress"} : oldest' = [oldest EXCEPT ![of[g]] = s]
  /\ UNCHANGED <<loop, left, team, ticked, cancelled, moved, staffed, of, slots,
                 joining>>

BadClaimLost(g) ==                                      \* returns before the defer of <-sem
  /\ To(g, "claiming", "released")
  /\ QueryFails \/ (QueryWorks /\ (oldest[of[g]] # "todo" \/ of[g] \in moved))
  /\ UNCHANGED <<loop, left, team, ticked, cancelled, rows, of, slots, joining>>

(* It changed nothing, or failed.                                          *)
ClaimLost(g) ==
  /\ To(g, "claiming", "returned")
  /\ QueryFails \/ (QueryWorks /\ (oldest[of[g]] # "todo" \/ of[g] \in moved))
  /\ UNCHANGED <<loop, left, team, ticked, cancelled, rows, of, slots, joining>>

Work(g) ==
  /\ To(g, "working", "returned")
  /\ UNCHANGED <<loop, left, team, ticked, cancelled, rows, of, slots,
                 joining, errors>>

Release(g) ==
  /\ To(g, "returned", "released")
  /\ slots' = slots - 1
  /\ UNCHANGED <<loop, left, team, ticked, cancelled, rows, of, joining,
                 errors>>

BadDone(g) ==                                           \* without wg.Done
  /\ To(g, "released", "none")
  /\ of' = [of EXCEPT ![g] = NoTeam]
  /\ UNCHANGED <<loop, left, team, ticked, cancelled, rows, slots, joining,
                 errors>>

Done(g) ==
  /\ To(g, "released", "none")
  /\ of' = [of EXCEPT ![g] = NoTeam]
  /\ joining' = joining - 1
  /\ UNCHANGED <<loop, left, team, ticked, cancelled, rows, slots, errors>>

-----------------------------------------------------------------------------
(* Around it: the ticker, people and other daemons, and the signal.        *)

Tick ==
  /\ ~ticked /\ loop # "stopped"
  /\ ticked' = TRUE
  /\ UNCHANGED <<loop, left, team, cancelled, rows, of, phase, slots,
                 joining, errors>>

(* A row of the team is created, claimed elsewhere, finished, put back or  *)
(* touched, so that the query would return another (one todo row in place  *)
(* of another takes two such steps).                                       *)
TaskChanges(t) ==
  /\ \E s \in Oldest \ {oldest[t]} : oldest' = [oldest EXCEPT ![t] = s]
  /\ moved' = moved \cup {t}
  /\ UNCHANGED <<loop, left, team, ticked, cancelled, staffed, of, phase, slots,
                 joining, errors>>

(* The team's first agent; none is ever removed.                           *)
CreateAgent(t) ==
  /\ staffed' = staffed \cup {t}
  /\ UNCHANGED <<loop, left, team, ticked, cancelled, oldest, moved, of, phase,
                 slots, joining, errors>>

Cancel ==
  /\ cancelled' = TRUE
  /\ UNCHANGED <<loop, left, team, ticked, rows, of, phase, slots, joining,
                 errors>>

LoopStep == ListTeams \/ (\E t \in Teams : Visit(t)) \/ Acquire \/ GiveUp \/ Join

TurnStep(g) == Claim(g) \/ ClaimLost(g) \/ Work(g) \/ Release(g) \/ Done(g)

Next ==
  \/ LoopStep \/ Stop \/ Tick \/ Cancel
  \/ \E g \in Turns : TurnStep(g)
  \/ \E t \in Teams : TaskChanges(t) \/ CreateAgent(t)

Spec == Init /\ [][Next]_vars

(* The loop and its turns go on when they can, and a turn's runtime        *)
(* returns.  Of a tick and a cancelled context that are both ready, select *)
(* takes either at random, so it does not take the tick for ever.          *)
FairSpec ==
  /\ Spec
  /\ WF_vars(Tick) /\ WF_vars(LoopStep) /\ SF_vars(Stop)
  /\ \A g \in Turns : WF_vars(TurnStep(g))

-----------------------------------------------------------------------------
(* Properties.                                                             *)

TypeOK ==
  /\ loop \in {"waiting", "visiting", "acquiring", "stopped"}
  /\ left \subseteq Teams /\ team \in Teams \cup {NoTeam}
  /\ ticked \in BOOLEAN /\ cancelled \in BOOLEAN
  /\ oldest \in [Teams -> Oldest]
  /\ moved \subseteq Teams /\ staffed \subseteq Teams
  /\ of \in [Turns -> Teams \cup {NoTeam}]
  /\ phase \in [Turns -> Phases]
  /\ slots \in 0..MaxConcurrent /\ joining \in Nat
  /\ errors \in 0..MaxErrors

(* A daemon never has two turns of one team in flight, from the slot to    *)
(* the end of the goroutine: a turn is joined before its team is visited   *)
(* again, whatever fails and however the slots are handed on.              *)
OneTurnPerTeam ==
  \A g, h \in Turns :
    phase[g] # "none" /\ phase[h] # "none" /\ of[g] = of[h] => g = h

(* "--max-concurrent: Max concurrent agent turns", over all teams.         *)
MaxTurns == Cardinality({g \in Turns : phase[g] = "working"}) <= MaxConcurrent

(* What one team has in its rows does not starve another: a team with      *)
(* agents whose oldest listed row is todo, and stays so, gets its turn,    *)
(* also in a daemon with fewer slots than teams, in which each waits for   *)
(* the turns of the others, although teams whose oldest row is in_progress *)
(* take a slot at each tick and can never claim it, and after claims that  *)
(* were lost and queries that failed.  (Such a team itself gets no turn,   *)
(* whatever else it has to do: RunnableGetsATurn of TaskLifecycle.)        *)
InTurn(t) == \E g \in Turns : of[g] = t /\ phase[g] = "working"

TeamServed ==
  \A t \in Teams :
    oldest[t] = "todo" /\ t \in staffed
      ~> oldest[t] # "todo" \/ InTurn(t) \/ cancelled

(* A cancelled context stops the scheduler, wherever it was.               *)
SchedulerStops == cancelled ~> loop = "stopped"

=============================================================================
