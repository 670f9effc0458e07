---------------------------- MODULE EventStream -----------------------------
(***************************************************************************)
(* The events of a turn on their way from the agent to the browsers: the   *)
(* scheduler's goroutine announces that the task is in progress, emits     *)
(* what RunTurn reads, and announces an error and the task's status at the *)
(* end, each with a call of PublishJSON from which it returns before it    *)
(* goes on.  The handlers of the API publish at the same time.             *)
(***************************************************************************)
EXTENDS AgentTurn, EventHub

CONSTANT Requests   \* to the API; each publishes once

VARIABLES
  published,        \* the number of events of each publisher so far
  since             \* what it was when a stream was opened

vars == <<turnVars, hubVars, published, since>>

ASSUME StreamAssumption == Publishers = Turns \cup Requests /\ Turns \cap Requests = {}

Init ==
  /\ TurnInit /\ HubInit
  /\ published = [p \in Publishers |-> 0]
  /\ since = [s \in Streams |-> published]

-----------------------------------------------------------------------------
Publishing(p) ==
  IF p \in Turns THEN turn[p] \in {"claimed", "emit", "report", "failed"}
                 ELSE published[p] = 0

After(step, r) ==
  [claimed |-> "start", emit |-> "scan", failed |-> "ended",
   report |-> IF r = "error" THEN "failed" ELSE "ended"][step]

Event(p) == [from |-> p, number |-> published[p] + 1]

BeginPublish(p) ==
  /\ Publishing(p) /\ RLock(p)
  /\ UNCHANGED <<turnVars, published, since>>

PublishTo(p, s) ==
  /\ Send(p, s, Event(p))
  /\ UNCHANGED <<turnVars, published, since>>

EndPublish(p) ==
  /\ RUnlock(p)
  /\ published' = [published EXCEPT ![p] = @ + 1]
  /\ \/ p \in Turns /\ Move(p, turn[p], After(turn[p], result[p]))
     \/ p \in Requests /\ UNCHANGED turn
  /\ UNCHANGED <<runtime, script, agents, pipe, taken, result, cancelled, since>>

Publish(p) == BeginPublish(p) \/ (\E s \in Streams : PublishTo(p, s)) \/ EndPublish(p)

OpenStream(s) ==
  /\ Subscribe(s)
  /\ since' = [since EXCEPT ![s] = published]
  /\ UNCHANGED <<turnVars, published>>

StreamStep(s) == Handle(s) /\ UNCHANGED <<turnVars, published, since>>

Next ==
  \/ TurnNext /\ UNCHANGED <<hubVars, published, since>>
  \/ \E p \in Publishers : Publish(p)
  \/ \E s \in Streams :
       \/ OpenStream(s) \/ StreamStep(s)
       \/ Disconnect(s) /\ UNCHANGED <<turnVars, published, since>>

Spec == Init /\ [][Next]_vars

(* An agent goes on writing and ends when it has nothing more to write;    *)
(* goroutines go on; a killed process ends; a handler writes, or fails to. *)
FairSpec ==
  /\ Spec
  /\ \A t \in Turns :
       /\ WF_vars(AgentStep(t) /\ UNCHANGED <<hubVars, published, since>>)
       /\ WF_vars(RunStep(t) /\ UNCHANGED <<hubVars, published, since>>)
       /\ WF_vars(Kill(t) /\ UNCHANGED <<hubVars, published, since>>)
  /\ \A p \in Publishers : WF_vars(Publish(p))
  /\ \A s \in Streams : WF_vars(StreamStep(s))

-----------------------------------------------------------------------------
(* Properties.                                                             *)

Events == [from : Publishers, number : Nat]

TypeOK ==
  /\ TurnTypeOK /\ HubTypeOK(Events)
  /\ published \in [Publishers -> Nat]
  /\ since \in [Streams -> [Publishers -> Nat]]

(* "send on closed channel" ends the daemon: whoever publishes sends to    *)
(* channels that are in the hub, while streams come and go.                *)
NeverSendsToClosed == \A p \in Publishers : sendTo[p] \subseteq subs

(* What was sent to a stream: taken by its handler, or in the channel.     *)
Sent(s) == received[s] \o chan[s]

(* The numbers of the events of a publisher since the stream was opened,   *)
(* the one it is publishing included once it has sent it to this stream.   *)
Due(s, p) ==
  LET inTransit == p \in reading /\ s \notin sendTo[p]
  IN (since[s][p] + 1)..(published[p] + (IF inTransit THEN 1 ELSE 0))

(* A stream has nothing but what was published since it was opened, the    *)
(* events of a turn in their order and each once, the task's new status    *)
(* after them; and it has all of it, as long as its channel was never full.*)
StreamsFollow ==
  \A s \in subs :
    LET sent == Sent(s)
    IN /\ \A i, j \in 1..Len(sent) :
            i < j /\ sent[i].from = sent[j].from => sent[i].number < sent[j].number
       /\ \A i \in 1..Len(sent) : sent[i].number \in Due(s, sent[i].from)
       /\ ~lost[s] =>
            \A p \in Publishers : \A n \in Due(s, p) :
              \E i \in 1..Len(sent) : sent[i] = [from |-> p, number |-> n]

(* RunTurn returns without an error when it has read all that was written, *)
(* and has not left a process behind it that is not waited for.            *)
TurnIsComplete ==
  \A t \in Turns : turn[t] \in {"report", "failed", "ended"} =>
    /\ result[t] = "ok" => taken[t] = wrote[t]
    /\ agent[t] = "none"

(* A turn ends, when its agent writes no line that is too long or when ctx *)
(* is done, unless a descendant of the agent keeps the pipe open for ever. *)
NoLongLine(t) == \A i \in 1..Len(script[t]) : script[t][i] # "long"

TurnEnds ==
  \A t \in Turns :
    \/ InFlight(t) /\ (NoLongLine(t) \/ cancelled) ~> turn[t] = "ended"
    \/ <>[]inherited[t]

=============================================================================
