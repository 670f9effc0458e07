------------------------- MODULE EventStreamProofs --------------------------
(***************************************************************************)
(* What EventStream's run checks on one turn and one stream, proved for    *)
(* every number of turns, requests and streams: no publisher sends to a    *)
(* closed channel, a turn that succeeds has read all that was written, and *)
(* a stream has what was published, in order and once, unless it was full. *)
(***************************************************************************)
EXTENDS EventStream, SequenceTheorems, TLAPS

(* Until RunTurn waits or returns, what is written is read or in the pipe; *)
(* there is no agent but between Start and the end, and none of the stub.  *)
Accounted(t) ==
  /\ turn[t] \in {"claimed", "start", "scan", "emit"} => taken[t] + Len(pipe[t]) = wrote[t]
  /\ turn[t] \in {"claimed", "start", "report", "failed", "ended"} => agent[t] = "none"
  /\ runtime = "stub" => agent[t] = "none" /\ ~inherited[t] /\ Len(pipe[t]) = 0

(* A subprocess that is waited for after the end of its output has nothing *)
(* more to write, and nobody else has.                                     *)
Drained(t) ==
  turn[t] = "wait" /\ result[t] = "ok" =>
    taken[t] = wrote[t] /\ agent[t] # "running" /\ ~inherited[t]

Complete(t) ==
  turn[t] \in {"report", "failed", "ended"} /\ result[t] = "ok" => taken[t] = wrote[t]

Turning == TurnTypeOK /\ \A t \in Turns : Accounted(t) /\ Drained(t) /\ Complete(t)

(* Whoever does not hold the read lock has nothing to send.                *)
SendersHoldLock == \A p \in Publishers : p \notin reading => sendTo[p] = {}

(* A turn that publishes does nothing else.                                *)
TurnsPublish ==
  \A t \in Turns : t \in reading => turn[t] \in {"claimed", "emit", "report", "failed"}

Hub ==
  /\ HubTypeOK(Events) /\ NeverSendsToClosed /\ SendersHoldLock
  /\ published \in [Publishers -> Nat]
  /\ since \in [Streams -> [Publishers -> Nat]]

IInv == Turning /\ Hub /\ TurnsPublish

LEMMA InitInv == Init => IInv
<1> SUFFICES ASSUME Init PROVE IInv
  OBVIOUS
<1>1. /\ runtime \in Runtimes /\ cancelled = FALSE
      /\ agent = [t \in Turns |-> "none"] /\ turn = [t \in Turns |-> "claimed"]
      /\ wrote = [t \in Turns |-> 0] /\ taken = [t \in Turns |-> 0]
      /\ pipe = [t \in Turns |-> <<>>] /\ inherited = [t \in Turns |-> FALSE]
      /\ result = [t \in Turns |-> "none"]
  BY DEF Init, TurnInit
<1>2. script \in [Turns -> Seq(Lines)]
  <2>1. StubScript \in Seq(Lines)
    BY DEF StubScript, Lines
  <2>2. CASE runtime = "stub"
    BY <2>1, <2>2 DEF Init, TurnInit
  <2>3. CASE runtime # "stub"
    BY <2>3, TurnAssumption DEF Init, TurnInit
  <2> QED
    BY <2>2, <2>3
<1>3. pipe \in [Turns -> Seq(Lines)] /\ \A t \in Turns : Len(pipe[t]) = 0
  BY <1>1
<1>4. \A t \in Turns : taken[t] = 0 /\ wrote[t] = 0 /\ Len(script[t]) \in Nat
  BY <1>1, <1>2, LenProperties
<1> PipeSize \in Nat \ {0}
  BY TurnAssumption
<1>5. ASSUME NEW t \in Turns
      PROVE /\ taken[t] <= wrote[t] /\ wrote[t] <= Len(script[t])
            /\ Len(pipe[t]) <= PipeSize
            /\ taken[t] + Len(pipe[t]) = wrote[t]
  <2>1. taken[t] = 0 /\ wrote[t] = 0
    BY <1>4
  <2>2. Len(script[t]) \in Nat
    BY <1>4
  <2>3. Len(pipe[t]) = 0
    BY <1>3
  <2> QED
    BY <2>1, <2>2, <2>3
<1>6. TurnTypeOK
  BY <1>1, <1>2, <1>3, <1>5 DEF TurnTypeOK, TurnSteps
<1>7. \A t \in Turns : Accounted(t) /\ Drained(t) /\ Complete(t)
  BY <1>1, <1>3, <1>5 DEF Accounted, Drained, Complete
<1>8. Hub
  BY ChanSizeAssumption DEF Init, HubInit, Hub, HubTypeOK, NeverSendsToClosed, SendersHoldLock
<1>9. TurnsPublish
  BY DEF Init, HubInit, TurnsPublish
<1> QED
  BY <1>6, <1>7, <1>8, <1>9 DEF IInv, Turning

-----------------------------------------------------------------------------
(* The steps of the agents and of RunTurn keep Turning.                    *)

LEMMA Lengths ==
  ASSUME TurnTypeOK PROVE \A t \in Turns : Len(pipe[t]) \in Nat /\ Len(script[t]) \in Nat
BY LenProperties DEF TurnTypeOK

LEMMA CancelStep == Turning /\ Cancel => Turning'
  BY DEF Turning, TurnTypeOK, Accounted, Drained, Complete, Cancel, agents

LEMMA WriteStep == ASSUME Turning, NEW u \in Turns, Write(u) PROVE Turning'
<1> USE DEF Turning, TurnTypeOK, Write, InFlight
<1>1. pipe' \in [Turns -> Seq(Lines)] /\ Len(pipe'[u]) = Len(pipe[u]) + 1
      /\ \A t \in Turns \ {u} : pipe'[t] = pipe[t]
  BY AppendProperties, LenProperties, ElementOfSeq
<1>2. TurnTypeOK'
  BY <1>1, TurnAssumption, LenProperties
<1>3. ASSUME NEW t \in Turns PROVE Accounted(t)' /\ Drained(t)' /\ Complete(t)'
  <2>1. CASE t = u
    <3>1. taken[u] + Len(pipe[u]) = wrote[u] =>
            taken'[u] + Len(pipe'[u]) = wrote'[u]
      BY <1>1, Lengths
    <3>2. turn[u] \in {"start", "scan", "emit", "wait"} /\ runtime # "stub"
          /\ ~(turn[u] = "wait" /\ result[u] = "ok")
      BY DEF Accounted, Drained
    <3>3. UNCHANGED <<runtime, agent, inherited, turn, result>>
      OBVIOUS
    <3> QED
      BY <2>1, <3>1, <3>2, <3>3 DEF Accounted, Drained, Complete
  <2>2. CASE t # u
    BY <1>1, <2>2 DEF Accounted, Drained, Complete
  <2> QED
    BY <2>1, <2>2
<1> QED
  BY <1>2, <1>3

LEMMA AgentEnds ==
  ASSUME Turning, NEW u \in Turns, Exit(u) \/ Crash(u) \/ Kill(u) PROVE Turning'
<1> USE DEF Turning
<1>1. agent[u] = "running" /\ \E x \in {"exited", "crashed"} : agent' = [agent EXCEPT ![u] = x]
  BY DEF Exit, Crash, Kill
<1>2. inherited' \in [Turns -> BOOLEAN] /\ \A t \in Turns \ {u} : inherited'[t] = inherited[t]
  BY DEF Exit, Crash, Kill, TurnTypeOK
<1>3. runtime = "stub" => inherited'[u] = inherited[u]
  BY DEF Exit, Crash, Kill, TurnTypeOK, Subprocess, Accounted
<1>4. UNCHANGED <<runtime, script, wrote, pipe, turn, taken, result, cancelled>>
  BY DEF Exit, Crash, Kill
<1>5. TurnTypeOK'
  BY <1>1, <1>2, <1>4 DEF TurnTypeOK
<1>6. \A t \in Turns : Accounted(t)' /\ Drained(t)' /\ Complete(t)'
  BY <1>1, <1>2, <1>3, <1>4 DEF TurnTypeOK, Accounted, Drained, Complete
<1> QED
  BY <1>5, <1>6

LEMMA InheritStep ==
  ASSUME Turning, NEW u \in Turns, Fork(u) \/ DescendantEnds(u) PROVE Turning'
<1> USE DEF Turning
<1>1. inherited' \in [Turns -> BOOLEAN] /\ \A t \in Turns \ {u} : inherited'[t] = inherited[t]
  BY DEF Fork, DescendantEnds, TurnTypeOK
<1>2. inherited'[u] => agent[u] = "running"
  BY DEF Fork, DescendantEnds, TurnTypeOK
<1>3. UNCHANGED <<runtime, script, agent, wrote, pipe, turn, taken, result, cancelled>>
  BY DEF Fork, DescendantEnds
<1>4. TurnTypeOK'
  BY <1>1, <1>3 DEF TurnTypeOK
<1>5. \A t \in Turns : Accounted(t)' /\ Drained(t)' /\ Complete(t)'
  BY <1>1, <1>2, <1>3 DEF Accounted, Drained, Complete
<1> QED
  BY <1>4, <1>5

LEMMA StartStep == ASSUME Turning, NEW u \in Turns, Start(u) PROVE Turning'
<1> USE DEF Turning, Start, Move, Return, Subprocess, Remote
<1>1. TurnTypeOK'
  BY DEF TurnTypeOK, TurnSteps
<1>2. \A t \in Turns : Accounted(t)' /\ Drained(t)' /\ Complete(t)'
  BY DEF TurnTypeOK, TurnSteps, Accounted, Drained, Complete
<1> QED
  BY <1>1, <1>2

LEMMA ScanStep == ASSUME Turning, NEW u \in Turns, Scan(u) PROVE Turning'
<1> USE DEF Turning, Scan, Move, Return, Subprocess, Remote
<1>1. pipe' \in [Turns -> Seq(Lines)] /\ Len(pipe'[u]) = Len(pipe[u]) - 1
      /\ Len(pipe[u]) \in Nat \ {0} /\ \A t \in Turns \ {u} : pipe'[t] = pipe[t]
  BY HeadTailProperties, LenProperties, EmptySeq DEF TurnTypeOK
<1>2. /\ turn[u] = "scan" /\ turn' \in [Turns -> TurnSteps]
      /\ \A t \in Turns \ {u} : turn'[t] = turn[t]
      /\ result' \in [Turns -> {"none", "ok", "error"}]
      /\ \A t \in Turns \ {u} : result'[t] = result[t]
      /\ agent' \in [Turns -> {"none", "running", "exited", "crashed"}]
      /\ \A t \in Turns \ {u} : agent'[t] = agent[t]
  BY DEF TurnTypeOK, TurnSteps
<1>3. /\ turn'[u] \in {"wait", "report"} => result'[u] = "error"
      /\ turn'[u] = "report" => agent'[u] = "none"
      /\ turn'[u] \in {"scan", "emit", "wait", "report"}
  BY <1>2 DEF TurnTypeOK
<1>4. taken[u] + Len(pipe[u]) = wrote[u]
  BY <1>2 DEF Accounted
<1>5. /\ taken' \in [Turns -> Nat] /\ taken'[u] = taken[u] + 1
      /\ \A t \in Turns \ {u} : taken'[t] = taken[t]
  BY DEF TurnTypeOK
<1>6. taken'[u] <= wrote[u] /\ taken'[u] + Len(pipe'[u]) = wrote[u]
      /\ Len(pipe'[u]) <= PipeSize /\ runtime # "stub"
  BY <1>1, <1>4, <1>5, TurnAssumption DEF TurnTypeOK, Accounted
<1>7. UNCHANGED <<runtime, script, wrote, inherited, cancelled>>
  OBVIOUS
<1>8. TurnTypeOK'
  BY <1>1, <1>2, <1>5, <1>6, <1>7 DEF TurnTypeOK
<1>9. ASSUME NEW t \in Turns PROVE Accounted(t)' /\ Drained(t)' /\ Complete(t)'
  <2>1. CASE t = u
    BY <1>2, <1>3, <1>6, <1>7, <2>1 DEF Accounted, Drained, Complete
  <2>2. CASE t # u
    BY <1>1, <1>2, <1>5, <1>7, <2>2 DEF Accounted, Drained, Complete
  <2> QED
    BY <2>1, <2>2
<1> QED
  BY <1>8, <1>9

LEMMA EndOfOutputStep == ASSUME Turning, NEW u \in Turns, EndOfOutput(u) PROVE Turning'
<1> USE DEF Turning, EndOfOutput, Move, Closed
<1>1. TurnTypeOK'
  BY DEF TurnTypeOK, TurnSteps, agents
<1>2. \A t \in Turns : Accounted(t)' /\ Drained(t)' /\ Complete(t)'
  BY EmptySeq DEF TurnTypeOK, TurnSteps, Accounted, Drained, Complete, agents
<1> QED
  BY <1>1, <1>2

LEMMA WaitStep == ASSUME Turning, NEW u \in Turns, Wait(u) PROVE Turning'
<1> USE DEF Turning, Wait, Move
<1>1. pipe' \in [Turns -> Seq(Lines)] /\ Len(pipe'[u]) = 0
      /\ \A t \in Turns \ {u} : pipe'[t] = pipe[t]
  BY EmptySeq DEF TurnTypeOK
<1>2. TurnTypeOK'
  BY <1>1, TurnAssumption DEF TurnTypeOK, TurnSteps
<1>3. \A t \in Turns : Accounted(t)' /\ Drained(t)' /\ Complete(t)'
  BY <1>1 DEF TurnTypeOK, TurnSteps, Accounted, Drained, Complete
<1> QED
  BY <1>2, <1>3

LEMMA ReceiveStep == ASSUME Turning, NEW u \in Turns, Receive(u) PROVE Turning'
<1> USE DEF Turning, Receive, Move, Return, Remote
<1>1. TurnTypeOK'
  BY DEF TurnTypeOK, TurnSteps
<1>2. \A t \in Turns : Accounted(t)' /\ Drained(t)' /\ Complete(t)'
  BY EmptySeq DEF TurnTypeOK, TurnSteps, Accounted, Drained, Complete
<1> QED
  BY <1>1, <1>2

LEMMA SimulateStep == ASSUME Turning, NEW u \in Turns, Simulate(u) PROVE Turning'
<1>1. /\ runtime = "stub" /\ turn[u] \in {"start", "scan"}
      /\ UNCHANGED <<runtime, script, agent, pipe, inherited, cancelled>>
  BY DEF Simulate
<1>2. wrote[u] = taken[u] /\ agent[u] = "none" /\ ~inherited[u] /\ Len(pipe[u]) = 0
  BY <1>1 DEF Turning, TurnTypeOK, Accounted
<1>3. /\ turn' \in [Turns -> TurnSteps] /\ turn'[u] \in {"emit", "report"}
      /\ \A t \in Turns \ {u} : turn'[t] = turn[t]
      /\ result' \in [Turns -> {"none", "ok", "error"}]
      /\ \A t \in Turns \ {u} : result'[t] = result[t]
  BY DEF Turning, Simulate, Move, Return, TurnTypeOK, TurnSteps
<1>4. \/ UNCHANGED <<wrote, taken>>
      \/ /\ taken[u] < Len(script[u])
         /\ wrote' = [wrote EXCEPT ![u] = @ + 1] /\ taken' = [taken EXCEPT ![u] = @ + 1]
  BY DEF Simulate
<1> /\ wrote \in [Turns -> Nat] /\ taken \in [Turns -> Nat]
    /\ Len(script[u]) \in Nat /\ wrote[u] <= Len(script[u])
  BY Lengths DEF Turning, TurnTypeOK
<1>5. /\ wrote' \in [Turns -> Nat] /\ taken' \in [Turns -> Nat]
      /\ \A t \in Turns \ {u} : wrote'[t] = wrote[t] /\ taken'[t] = taken[t]
      /\ wrote'[u] = taken'[u] /\ wrote'[u] <= Len(script[u])
  BY <1>2, <1>4
<1>6. TurnTypeOK'
  <2>1. ASSUME NEW t \in Turns
        PROVE taken'[t] <= wrote'[t] /\ wrote'[t] <= Len(script'[t]) /\ Len(pipe'[t]) <= PipeSize
    <3>1. CASE t = u
      BY <1>1, <1>5, <3>1 DEF Turning, TurnTypeOK
    <3>2. CASE t # u
      BY <1>1, <1>5, <3>2 DEF Turning, TurnTypeOK
    <3> QED
      BY <3>1, <3>2
  <2>2. /\ runtime' \in Runtimes /\ cancelled' \in BOOLEAN
        /\ script' \in [Turns -> Seq(Lines)] /\ pipe' \in [Turns -> Seq(Lines)]
        /\ agent' \in [Turns -> {"none", "running", "exited", "crashed"}]
        /\ inherited' \in [Turns -> BOOLEAN]
    BY <1>1 DEF Turning, TurnTypeOK
  <2> QED
    BY <1>3, <1>5, <2>1, <2>2 DEF TurnTypeOK
<1>7. ASSUME NEW t \in Turns PROVE Accounted(t)' /\ Drained(t)' /\ Complete(t)'
  <2>1. CASE t = u
    <3>1. taken'[u] + Len(pipe'[u]) = wrote'[u]
      BY <1>1, <1>2, <1>5
    <3> QED
      BY <1>1, <1>2, <1>3, <1>5, <2>1, <3>1 DEF Accounted, Drained, Complete
  <2>2. CASE t # u
    BY <1>1, <1>3, <1>5, <2>2 DEF Turning, Accounted, Drained, Complete
  <2> QED
    BY <2>1, <2>2
<1> QED
  BY <1>6, <1>7 DEF Turning

LEMMA TurnStep == Turning /\ TurnNext => Turning'
  BY CancelStep, WriteStep, AgentEnds, InheritStep, StartStep, ScanStep, EndOfOutputStep,
     WaitStep, ReceiveStep, SimulateStep DEF TurnNext, AgentStep, RunStep

LEMMA TurnsStutter == Turning /\ UNCHANGED turnVars => Turning'
BY DEF Turning, TurnTypeOK, Accounted, Drained, Complete, turnVars, agents

(* A turn that publishes takes no step of its own.                         *)
LEMMA PublishersWait ==
  ASSUME Turning, TurnNext, NEW t \in Turns,
         turn[t] \in {"claimed", "emit", "report", "failed"}
  PROVE  turn'[t] = turn[t]
BY DEF Turning, TurnTypeOK, TurnNext, AgentStep, RunStep, Cancel, Write, Exit, Crash, Fork,
       DescendantEnds, Kill, Start, Scan, EndOfOutput, Wait, Receive, Simulate, Move, Return

LEMMA AfterStep ==
  ASSUME Turning, NEW u \in Turns, turn[u] \in {"claimed", "emit", "report", "failed"},
         Move(u, turn[u], After(turn[u], result[u])),
         UNCHANGED <<runtime, script, agents, pipe, taken, result, cancelled>>
  PROVE  Turning'
<1>1. /\ turn' \in [Turns -> TurnSteps] /\ \A t \in Turns \ {u} : turn'[t] = turn[t]
      /\ turn[u] = "claimed" => turn'[u] = "start"
      /\ turn[u] = "emit" => turn'[u] = "scan"
      /\ turn[u] \in {"report", "failed"} => turn'[u] \in {"failed", "ended"}
  BY DEF Turning, TurnTypeOK, TurnSteps, Move, After
<1>2. UNCHANGED <<runtime, script, agent, wrote, pipe, inherited, taken, result, cancelled>>
  BY DEF agents
<1>3. TurnTypeOK'
  BY <1>1, <1>2 DEF Turning, TurnTypeOK
<1>4. \A t \in Turns : Accounted(t)' /\ Drained(t)' /\ Complete(t)'
  BY <1>1, <1>2 DEF Turning, Accounted, Drained, Complete
<1> QED
  BY <1>3, <1>4 DEF Turning

-----------------------------------------------------------------------------
(* The steps of the hub keep Hub.                                          *)

LEMMA HubStutters ==
  Hub /\ UNCHANGED <<hubVars, published, since>> => Hub'
BY DEF Hub, HubTypeOK, NeverSendsToClosed, SendersHoldLock, hubVars

LEMMA OpenStep == ASSUME Hub, NEW s \in Streams, OpenStream(s) PROVE Hub'
<1> USE DEF Hub, OpenStream, Subscribe, Locked
<1>1. HubTypeOK(Events)' /\ since' \in [Streams -> [Publishers -> Nat]]
  BY DEF HubTypeOK
<1>2. NeverSendsToClosed' /\ SendersHoldLock'
  BY DEF NeverSendsToClosed, SendersHoldLock
<1> QED
  BY <1>1, <1>2

LEMMA DeliverStep ==
  ASSUME Hub, NEW s \in Streams, Deliver(s), UNCHANGED <<published, since>> PROVE Hub'
<1> USE DEF Hub, Deliver
<1>1. chan' \in [Streams -> Seq(Events)] /\ received' \in [Streams -> Seq(Events)]
  BY HeadTailProperties, AppendProperties DEF HubTypeOK
<1>2. \A r \in Streams : Len(chan'[r]) <= ChanSize
  BY HeadTailProperties, LenProperties, ChanSizeAssumption DEF HubTypeOK
<1>3. HubTypeOK(Events)'
  BY <1>1, <1>2 DEF HubTypeOK
<1>4. NeverSendsToClosed' /\ SendersHoldLock'
  BY DEF NeverSendsToClosed, SendersHoldLock
<1> QED
  BY <1>3, <1>4

LEMMA LeaveStep ==
  ASSUME Hub, NEW s \in Streams, Disconnect(s) \/ Unsubscribe(s),
         UNCHANGED <<published, since>>
  PROVE  Hub'
<1> USE DEF Hub, Disconnect, Unsubscribe, Locked
<1>1. HubTypeOK(Events)'
  BY DEF HubTypeOK
<1>2. NeverSendsToClosed' /\ SendersHoldLock'
  BY DEF NeverSendsToClosed, SendersHoldLock
<1> QED
  BY <1>1, <1>2

LEMMA LockStep ==
  ASSUME Hub, NEW p \in Publishers, RLock(p), UNCHANGED <<published, since>> PROVE Hub'
<1> USE DEF Hub, RLock
<1>1. HubTypeOK(Events)'
  BY DEF HubTypeOK
<1>2. NeverSendsToClosed' /\ SendersHoldLock'
  BY DEF NeverSendsToClosed, SendersHoldLock, HubTypeOK
<1> QED
  BY <1>1, <1>2

LEMMA SendStep ==
  ASSUME Hub, NEW p \in Publishers, NEW s \in Streams, PublishTo(p, s) PROVE Hub'
<1> USE DEF Hub, PublishTo, Send
<1>1. Event(p) \in Events
  BY DEF Event, Events
<1> chan \in [Streams -> Seq(Events)] /\ \A r \in Streams : Len(chan[r]) <= ChanSize
  BY DEF HubTypeOK
<1>2. chan' \in [Streams -> Seq(Events)] /\ \A r \in Streams : Len(chan'[r]) <= ChanSize
  <2>1. CASE UNCHANGED chan
    BY <2>1
  <2>2. CASE /\ Len(chan[s]) < ChanSize
             /\ chan' = [chan EXCEPT ![s] = Append(@, Event(p))]
    <3>1. Append(chan[s], Event(p)) \in Seq(Events)
          /\ Len(Append(chan[s], Event(p))) = Len(chan[s]) + 1 /\ Len(chan[s]) \in Nat
      BY <1>1, AppendProperties, LenProperties
    <3>2. Len(chan[s]) + 1 <= ChanSize
      BY <2>2, <3>1, ChanSizeAssumption
    <3> QED
      BY <2>2, <3>1, <3>2
  <2> QED
    BY <2>1, <2>2
<1>3. lost' \in [Streams -> BOOLEAN] /\ sendTo' \in [Publishers -> SUBSET Streams]
  BY DEF HubTypeOK
<1>4. HubTypeOK(Events)'
  BY <1>2, <1>3 DEF HubTypeOK
<1>5. NeverSendsToClosed' /\ SendersHoldLock'
  BY DEF NeverSendsToClosed, SendersHoldLock, HubTypeOK
<1> QED
  BY <1>4, <1>5

LEMMA UnlockStep == ASSUME Hub, NEW p \in Publishers, EndPublish(p) PROVE Hub'
<1> USE DEF Hub, EndPublish, RUnlock
<1>1. HubTypeOK(Events)' /\ published' \in [Publishers -> Nat]
  BY DEF HubTypeOK
<1>2. NeverSendsToClosed' /\ SendersHoldLock'
  BY DEF NeverSendsToClosed, SendersHoldLock
<1> QED
  BY <1>1, <1>2

-----------------------------------------------------------------------------
LEMMA PublishStep == ASSUME IInv, NEW p \in Publishers, Publish(p) PROVE IInv'
<1> USE DEF IInv
<1>1. CASE BeginPublish(p)
  <2>1. Turning' /\ Hub'
    BY <1>1, TurnsStutter, LockStep DEF BeginPublish
  <2>2. TurnsPublish'
    BY <1>1 DEF TurnsPublish, BeginPublish, Publishing, RLock, turnVars
  <2> QED
    BY <2>1, <2>2
<1>2. ASSUME NEW s \in Streams, PublishTo(p, s) PROVE IInv'
  <2>1. Turning' /\ Hub'
    BY <1>2, TurnsStutter, SendStep DEF PublishTo
  <2>2. TurnsPublish'
    BY <1>2 DEF TurnsPublish, PublishTo, Send, turnVars
  <2> QED
    BY <2>1, <2>2
<1>3. CASE EndPublish(p)
  <2>1. Hub'
    BY <1>3, UnlockStep
  <2>2. p \in reading /\ reading' = reading \ {p}
    BY <1>3 DEF EndPublish, RUnlock
  <2>3. CASE p \in Turns
    <3>1. Move(p, turn[p], After(turn[p], result[p]))
      BY <1>3, <2>3, StreamAssumption DEF EndPublish
    <3>2. Turning'
      BY <1>3, <2>2, <2>3, <3>1, AfterStep DEF TurnsPublish, EndPublish
    <3>3. TurnsPublish'
      BY <2>2, <2>3, <3>1 DEF TurnsPublish, Move, Turning, TurnTypeOK
    <3> QED
      BY <2>1, <3>2, <3>3
  <2>4. CASE p \notin Turns
    <3>1. UNCHANGED turnVars
      BY <1>3, <2>4 DEF EndPublish, turnVars, agents
    <3> QED
      BY <2>1, <2>2, <3>1, TurnsStutter DEF TurnsPublish, turnVars
  <2> QED
    BY <2>3, <2>4
<1> QED
  BY <1>1, <1>2, <1>3 DEF Publish

LEMMA InvStep == IInv /\ [Next]_vars => IInv'
<1> SUFFICES ASSUME IInv, [Next]_vars PROVE IInv'
  OBVIOUS
<1>1. CASE TurnNext /\ UNCHANGED <<hubVars, published, since>>
  <2>1. TurnsPublish'
    BY <1>1, PublishersWait DEF IInv, TurnsPublish, hubVars
  <2> QED
    BY <1>1, <2>1, TurnStep, HubStutters DEF IInv
<1>2. CASE \E p \in Publishers : Publish(p)
  BY <1>2, PublishStep
<1>3. ASSUME NEW s \in Streams,
             \/ OpenStream(s) \/ StreamStep(s)
             \/ Disconnect(s) /\ UNCHANGED <<turnVars, published, since>>
      PROVE  IInv'
  <2>1. UNCHANGED turnVars /\ UNCHANGED reading
    BY <1>3 DEF OpenStream, Subscribe, StreamStep, Handle, Deliver, Unsubscribe, Disconnect
  <2>2. Hub'
    BY <1>3, OpenStep, DeliverStep, LeaveStep DEF IInv, StreamStep, Handle
  <2>3. TurnsPublish'
    BY <2>1 DEF IInv, TurnsPublish, turnVars
  <2> QED
    BY <2>1, <2>2, <2>3, TurnsStutter DEF IInv
<1>4. CASE UNCHANGED vars
  <2>1. UNCHANGED turnVars /\ UNCHANGED <<hubVars, published, since>>
    BY <1>4 DEF vars
  <2>2. TurnsPublish'
    BY <2>1 DEF IInv, TurnsPublish, turnVars, hubVars
  <2> QED
    BY <2>1, <2>2, TurnsStutter, HubStutters DEF IInv
<1> QED
  BY <1>1, <1>2, <1>3, <1>4 DEF Next

LEMMA Invariance == Spec => []IInv
BY InitInv, InvStep, PTL DEF Spec

-----------------------------------------------------------------------------
(* What the streams have.  A stream is in the hub from Subscribe until its *)
(* handler leaves; nothing was sent to one that was never opened, and what *)
(* a publisher had published when it was opened it has not unpublished.    *)
Opened ==
  \A s \in Streams :
    /\ s \in subs <=> stream[s] \in {"open", "gone"}
    /\ stream[s] = "off" => received[s] = <<>> /\ chan[s] = <<>> /\ ~lost[s]
    /\ s \in subs => \A p \in Publishers : since[s][p] <= published[p]

Ordered(sent) ==
  \A i, j \in 1..Len(sent) :
    i < j /\ sent[i].from = sent[j].from => sent[i].number < sent[j].number

Follows(s) ==
  /\ Ordered(Sent(s))
  /\ \A i \in 1..Len(Sent(s)), q \in Publishers :
       Sent(s)[i].from = q => Sent(s)[i].number \in Due(s, q)
  /\ ~lost[s] =>
       \A p \in Publishers : \A n \in Due(s, p) :
         \E i \in 1..Len(Sent(s)) : Sent(s)[i] = [from |-> p, number |-> n]

Following == Opened /\ \A s \in subs : Follows(s)

LEMMA SentIsASequence == ASSUME Hub, NEW s \in Streams PROVE Sent(s) \in Seq(Events)
BY ConcatProperties DEF Hub, HubTypeOK, Sent

LEMMA FollowsKept ==
  ASSUME NEW s \in Streams, Follows(s), Sent(s)' = Sent(s), lost'[s] = lost[s],
         \A p \in Publishers : Due(s, p)' = Due(s, p)
  PROVE  Follows(s)'
<1>1. Ordered(Sent(s))'
  BY DEF Follows, Ordered
<1>2. ASSUME NEW i \in 1..Len(Sent(s)'), NEW q \in Publishers, Sent(s)'[i].from = q
      PROVE  Sent(s)'[i].number \in Due(s, q)'
  BY <1>2 DEF Follows
<1>3. ASSUME ~lost'[s], NEW p \in Publishers, NEW n \in Due(s, p)'
      PROVE  \E i \in 1..Len(Sent(s)') : Sent(s)'[i] = [from |-> p, number |-> n]
  BY <1>3 DEF Follows
<1> QED
  BY <1>1, <1>2, <1>3 DEF Follows

LEMMA SendersAreKnown ==
  ASSUME Hub, NEW s \in Streams
  PROVE  \A i \in 1..Len(Sent(s)) :
           Sent(s)[i].from \in Publishers /\ Sent(s)[i].number \in Nat
<1>1. \A i \in 1..Len(Sent(s)) : Sent(s)[i] \in Events
  BY SentIsASequence, ElementOfSeq
<1> QED
  BY <1>1 DEF Events

LEMMA FollowingIsIt == ASSUME Hub, \A s \in subs : Follows(s) PROVE StreamsFollow
<1> SUFFICES ASSUME NEW s \in subs
             PROVE /\ Ordered(Sent(s))
                   /\ \A i \in 1..Len(Sent(s)) : Sent(s)[i].number \in Due(s, Sent(s)[i].from)
                   /\ ~lost[s] =>
                        \A p \in Publishers : \A n \in Due(s, p) :
                          \E i \in 1..Len(Sent(s)) : Sent(s)[i] = [from |-> p, number |-> n]
  BY DEF StreamsFollow, Ordered
<1>1. s \in Streams /\ Follows(s)
  BY DEF Hub, HubTypeOK
<1>2. \A i \in 1..Len(Sent(s)) : Sent(s)[i].from \in Publishers
  BY <1>1, SendersAreKnown
<1> QED
  BY <1>1, <1>2 DEF Follows

LEMMA FollowingStutters ==
  Hub /\ Following /\ UNCHANGED <<hubVars, published, since>> => Following'
<1> SUFFICES ASSUME Hub, Following, UNCHANGED <<hubVars, published, since>> PROVE Following'
  OBVIOUS
<1>1. Opened'
  BY DEF Following, Opened, hubVars
<1>2. ASSUME NEW s \in subs' PROVE Follows(s)'
  <2>1. s \in subs /\ s \in Streams
    BY DEF hubVars, Hub, HubTypeOK
  <2>2. Sent(s)' = Sent(s) /\ lost'[s] = lost[s] /\ \A p \in Publishers : Due(s, p)' = Due(s, p)
    BY DEF Sent, Due, hubVars
  <2> QED
    BY <2>1, <2>2, FollowsKept DEF Following
<1> QED
  BY <1>1, <1>2 DEF Following

LEMMA OpenFollows ==
  ASSUME Hub, Following, NEW s \in Streams, OpenStream(s) PROVE Following'
<1>1. /\ stream[s] = "off" /\ reading = {} /\ subs' = subs \cup {s} /\ s \notin subs
      /\ stream' = [stream EXCEPT ![s] = "open"] /\ since' = [since EXCEPT ![s] = published]
      /\ UNCHANGED <<chan, received, lost, reading, sendTo, published>>
  BY DEF OpenStream, Subscribe, Locked, Following, Opened
<1>2. received[s] = <<>> /\ chan[s] = <<>> /\ published \in [Publishers -> Nat]
  BY <1>1 DEF Following, Opened, Hub
<1>3. Opened'
  BY <1>1, <1>2 DEF Following, Opened, Hub, HubTypeOK
<1>4. Sent(s)' = <<>>
  BY <1>1, <1>2, ConcatEmptySeq DEF Sent
<1>5. \A p \in Publishers : Due(s, p)' = {}
  BY <1>1, <1>2 DEF Due, Hub
<1>6. Follows(s)'
  BY <1>4, <1>5, EmptySeq DEF Follows, Ordered
<1>7. ASSUME NEW r \in subs PROVE Follows(r)'
  <2>1. r \in Streams /\ r # s /\ Follows(r)
    BY <1>1 DEF Following, Hub, HubTypeOK
  <2>2. Sent(r)' = Sent(r) /\ lost'[r] = lost[r] /\ \A p \in Publishers : Due(r, p)' = Due(r, p)
    BY <1>1, <2>1 DEF Sent, Due, Hub
  <2> QED
    BY <2>1, <2>2, FollowsKept
<1> QED
  BY <1>1, <1>3, <1>6, <1>7 DEF Following

(* What the handler takes from the channel was sent and is sent.           *)
LEMMA TakenIsKept ==
  ASSUME NEW r \in Seq(Events), NEW c \in Seq(Events), c # <<>>
  PROVE  Append(r, Head(c)) \o Tail(c) = r \o c
<1> DEFINE e == Head(c)
           rest == Tail(c)
<1>1. e \in Events /\ rest \in Seq(Events)
  BY HeadTailProperties
<1>2. c = <<e>> \o rest
  <2>1. Len(c) \in Nat \ {0}
    BY LenProperties, EmptySeq
  <2>2. SubSeq(c, 1, Len(c)) = <<c[1]>> \o SubSeq(c, 1 + 1, Len(c))
    BY <2>1, SubSeqRecursiveFirst
  <2>3. SubSeq(c, 1, Len(c)) = c /\ SubSeq(c, 2, Len(c)) = Tail(c)
    BY SubSeqFull, TailIsSubSeq
  <2>4. e = c[1]
    OBVIOUS
  <2> QED
    BY <2>2, <2>3, <2>4
<1> HIDE DEF e, rest
<1>3. <<e>> \in Seq(Events)
  BY <1>1
<1>4. Append(r, e) = r \o <<e>>
  BY <1>1, AppendIsConcat
<1>5. (r \o <<e>>) \o rest = r \o (<<e>> \o rest)
  BY <1>1, <1>3, ConcatAssociative
<1>6. Append(r, e) \o rest = r \o c
  BY <1>2, <1>4, <1>5
<1> QED
  BY <1>6 DEF e, rest

LEMMA DeliveredIsSent ==
  ASSUME Hub, NEW s \in Streams, Deliver(s) PROVE \A r \in Streams : Sent(r)' = Sent(r)
<1>1. chan[s] \in Seq(Events) /\ received[s] \in Seq(Events) /\ chan[s] # <<>>
  BY DEF Hub, HubTypeOK, Deliver
<1>2. Append(received[s], Head(chan[s])) \o Tail(chan[s]) = received[s] \o chan[s]
  BY <1>1, TakenIsKept
<1>3. /\ received'[s] = Append(received[s], Head(chan[s])) /\ chan'[s] = Tail(chan[s])
      /\ \A r \in Streams \ {s} : received'[r] = received[r] /\ chan'[r] = chan[r]
  BY DEF Deliver, Hub, HubTypeOK
<1> QED
  BY <1>2, <1>3 DEF Sent

LEMMA DeliverFollows ==
  ASSUME Hub, Following, NEW s \in Streams, Deliver(s), UNCHANGED <<published, since>>
  PROVE  Following'
<1>1. stream[s] # "off" /\ UNCHANGED <<subs, stream, lost, reading, sendTo>>
      /\ \A r \in Streams \ {s} : received'[r] = received[r] /\ chan'[r] = chan[r]
  BY DEF Deliver, Hub, HubTypeOK
<1>2. Opened'
  BY <1>1 DEF Following, Opened
<1>3. ASSUME NEW r \in subs PROVE Follows(r)'
  <2>1. r \in Streams /\ Follows(r)
    BY DEF Following, Hub, HubTypeOK
  <2>2. \A p \in Publishers : Due(r, p)' = Due(r, p)
    BY <1>1 DEF Due
  <2> QED
    BY <1>1, <2>1, <2>2, FollowsKept, DeliveredIsSent
<1> QED
  BY <1>1, <1>2, <1>3 DEF Following

LEMMA LeaveFollows ==
  ASSUME Hub, Following, NEW s \in Streams, Disconnect(s) \/ Unsubscribe(s),
         UNCHANGED <<published, since>>
  PROVE  Following'
<1>1. /\ subs' \subseteq subs /\ UNCHANGED <<chan, received, lost, reading, sendTo>>
      /\ \A r \in Streams \ {s} : stream'[r] = stream[r] /\ (r \in subs' <=> r \in subs)
      /\ \/ stream[s] = "open" /\ stream'[s] = "gone" /\ (s \in subs' <=> s \in subs)
         \/ stream'[s] = "closed" /\ s \notin subs'
  BY DEF Disconnect, Unsubscribe, Hub, HubTypeOK
<1>2. Opened'
  BY <1>1 DEF Following, Opened
<1>3. ASSUME NEW r \in subs' PROVE Follows(r)'
  <2>1. r \in Streams /\ Follows(r)
    BY <1>1 DEF Following, Hub, HubTypeOK
  <2>2. Sent(r)' = Sent(r) /\ lost'[r] = lost[r] /\ \A p \in Publishers : Due(r, p)' = Due(r, p)
    BY <1>1 DEF Sent, Due
  <2> QED
    BY <2>1, <2>2, FollowsKept
<1> QED
  BY <1>2, <1>3 DEF Following

(* To hold the lock is to have everything in the hub yet to send to, and   *)
(* to release it is to have sent: neither changes what a stream is due.    *)
LEMMA LockFollows ==
  ASSUME Hub, Following, NEW p \in Publishers, RLock(p), UNCHANGED <<published, since>>
  PROVE  Following'
<1>1. /\ p \notin reading /\ reading' = reading \cup {p}
      /\ sendTo' = [sendTo EXCEPT ![p] = subs]
      /\ UNCHANGED <<subs, stream, chan, received, lost>>
  BY DEF RLock
<1>2. Opened'
  BY <1>1 DEF Following, Opened
<1>3. ASSUME NEW s \in subs PROVE Follows(s)'
  <2>1. s \in Streams /\ Follows(s)
    BY DEF Following, Hub, HubTypeOK
  <2>2. \A q \in Publishers : Due(s, q)' = Due(s, q)
    BY <1>1 DEF Due, Hub, HubTypeOK
  <2>3. Sent(s)' = Sent(s) /\ lost'[s] = lost[s]
    BY <1>1 DEF Sent
  <2> QED
    BY <2>1, <2>2, <2>3, FollowsKept
<1> QED
  BY <1>1, <1>2, <1>3 DEF Following

LEMMA UnlockFollows ==
  ASSUME Hub, Following, NEW p \in Publishers, EndPublish(p) PROVE Following'
<1>1. /\ p \in reading /\ reading' = reading \ {p} /\ sendTo[p] = {}
      /\ published' = [published EXCEPT ![p] = @ + 1]
      /\ UNCHANGED <<subs, stream, chan, received, lost, sendTo, since>>
  BY DEF EndPublish, RUnlock
<1> published \in [Publishers -> Nat] /\ since \in [Streams -> [Publishers -> Nat]]
  BY DEF Hub
<1>2. Opened'
  <2>1. ASSUME NEW s \in subs, NEW q \in Publishers PROVE since[s][q] <= published'[q]
    <3>1. s \in Streams /\ since[s][q] <= published[q] /\ since[s][q] \in Nat
      BY DEF Following, Opened, Hub, HubTypeOK
    <3> QED
      BY <1>1, <3>1
  <2> QED
    BY <1>1, <2>1 DEF Following, Opened
<1>3. ASSUME NEW s \in subs PROVE Follows(s)'
  <2>1. s \in Streams /\ Follows(s)
    BY DEF Following, Hub, HubTypeOK
  <2>2. ASSUME NEW q \in Publishers PROVE Due(s, q)' = Due(s, q)
    <3>1. CASE q = p
      BY <1>1, <3>1 DEF Due
    <3>2. CASE q # p
      BY <1>1, <3>2 DEF Due
    <3> QED
      BY <3>1, <3>2
  <2>3. Sent(s)' = Sent(s) /\ lost'[s] = lost[s]
    BY <1>1 DEF Sent
  <2> QED
    BY <2>1, <2>2, <2>3, FollowsKept
<1> QED
  BY <1>1, <1>2, <1>3 DEF Following

-----------------------------------------------------------------------------
(* An event is sent: it is due from now on, and the next of its publisher. *)
LEMMA AppendIsLast ==
  ASSUME NEW r \in Seq(Events), NEW c \in Seq(Events), NEW e \in Events
  PROVE  r \o Append(c, e) = Append(r \o c, e)
<1>1. <<e>> \in Seq(Events) /\ r \o c \in Seq(Events)
  BY ConcatProperties
<1>2. Append(c, e) = c \o <<e>> /\ Append(r \o c, e) = (r \o c) \o <<e>>
  BY <1>1, AppendIsConcat
<1>3. (r \o c) \o <<e>> = r \o (c \o <<e>>)
  BY <1>1, ConcatAssociative
<1> QED
  BY <1>2, <1>3

LEMMA FollowsOneMore ==
  ASSUME Hub, NEW s \in Streams, NEW p \in Publishers, Follows(s),
         Sent(s)' = Append(Sent(s), Event(p)), lost'[s] = lost[s],
         Due(s, p) = (since[s][p] + 1)..published[p],
         Due(s, p)' = (since[s][p] + 1)..(published[p] + 1),
         since[s][p] <= published[p],
         \A q \in Publishers \ {p} : Due(s, q)' = Due(s, q)
  PROVE  Follows(s)'
<1> DEFINE sent == Sent(s)
           more == Sent(s)'
<1> published[p] \in Nat /\ since[s][p] \in Nat
  BY DEF Hub
<1>1. Event(p) \in Events /\ Event(p).from = p /\ Event(p).number = published[p] + 1
      /\ Event(p) = [from |-> p, number |-> published[p] + 1]
  BY DEF Event, Events
<1>2. /\ sent \in Seq(Events) /\ Len(sent) \in Nat /\ Len(more) = Len(sent) + 1
      /\ more[Len(sent) + 1] = Event(p) /\ \A i \in 1..Len(sent) : more[i] = sent[i]
  BY <1>1, SentIsASequence, AppendProperties, LenProperties
<1>3. \A i \in 1..Len(sent) : sent[i].from \in Publishers /\ sent[i].number \in Nat
  BY SendersAreKnown
<1>4. Ordered(sent) /\ \A i \in 1..Len(sent), q \in Publishers :
                         sent[i].from = q => sent[i].number \in Due(s, q)
  BY DEF Follows
<1>5. lost[s] \/ \A q \in Publishers : \A n \in Due(s, q) :
                   \E i \in 1..Len(sent) : sent[i] = [from |-> q, number |-> n]
  BY DEF Follows
<1> HIDE DEF sent, more
<1>6. \A q \in Publishers : Due(s, q) \subseteq Due(s, q)'
  <2>1. Due(s, p) \subseteq Due(s, p)'
    OBVIOUS
  <2> QED
    BY <2>1
<1>7. ASSUME NEW i \in 1..Len(more), NEW j \in 1..Len(more), i < j, more[i].from = more[j].from
      PROVE  more[i].number < more[j].number
  <2>1. i \in 1..Len(sent)
    BY <1>2, <1>7
  <2>2. CASE j \in 1..Len(sent)
    BY <1>2, <1>4, <1>7, <2>1, <2>2 DEF Ordered
  <2>3. CASE j = Len(sent) + 1
    <3>1. sent[i].from = p /\ more[i] = sent[i] /\ more[j] = Event(p)
      BY <1>1, <1>2, <1>7, <2>1, <2>3
    <3>2. sent[i].number \in (since[s][p] + 1)..published[p]
      BY <1>4, <2>1, <3>1
    <3> QED
      BY <1>1, <3>1, <3>2
  <2> QED
    BY <1>2, <2>2, <2>3
<1>8. ASSUME NEW i \in 1..Len(more), NEW q \in Publishers, more[i].from = q
      PROVE  more[i].number \in Due(s, q)'
  <2>1. CASE i \in 1..Len(sent)
    BY <1>2, <1>4, <1>6, <1>8, <2>1
  <2>2. CASE i = Len(sent) + 1
    BY <1>1, <1>2, <1>8, <2>2
  <2> QED
    BY <1>2, <2>1, <2>2
<1>9. ASSUME ~lost'[s], NEW q \in Publishers, NEW n \in Due(s, q)'
      PROVE  \E i \in 1..Len(more) : more[i] = [from |-> q, number |-> n]
  <2>1. CASE n \in Due(s, q)
    <3>1. PICK i \in 1..Len(sent) : sent[i] = [from |-> q, number |-> n]
      BY <1>5, <1>9, <2>1
    <3>2. i \in 1..Len(more) /\ more[i] = [from |-> q, number |-> n]
      BY <1>2, <3>1
    <3> QED
      BY <3>2
  <2>2. CASE n \notin Due(s, q)
    <3>1. q = p
      BY <1>9, <2>2
    <3>2. n = published[p] + 1
      BY <1>9, <2>2, <3>1
    <3>3. Len(sent) + 1 \in 1..Len(more) /\ more[Len(sent) + 1] = [from |-> q, number |-> n]
      BY <1>1, <1>2, <3>1, <3>2
    <3> QED
      BY <3>3
  <2> QED
    BY <2>1, <2>2
<1> QED
  BY <1>7, <1>8, <1>9 DEF more, Follows, Ordered

LEMMA SendFollows ==
  ASSUME Hub, Following, NEW p \in Publishers, NEW s \in Streams, PublishTo(p, s)
  PROVE  Following'
<1>1. /\ s \in sendTo[p] /\ sendTo' = [sendTo EXCEPT ![p] = @ \ {s}]
      /\ UNCHANGED <<subs, stream, received, reading, published, since>>
      /\ \/ /\ chan' = [chan EXCEPT ![s] = Append(@, Event(p))] /\ UNCHANGED lost
         \/ lost' = [lost EXCEPT ![s] = TRUE] /\ UNCHANGED chan
  BY DEF PublishTo, Send
<1>2. p \in reading /\ s \in subs /\ stream[s] # "off"
  BY <1>1 DEF Hub, SendersHoldLock, NeverSendsToClosed, Following, Opened
<1> /\ published \in [Publishers -> Nat] /\ since \in [Streams -> [Publishers -> Nat]]
    /\ sendTo \in [Publishers -> SUBSET Streams] /\ subs \subseteq Streams
    /\ chan \in [Streams -> Seq(Events)] /\ received \in [Streams -> Seq(Events)]
    /\ lost \in [Streams -> BOOLEAN]
  BY DEF Hub, HubTypeOK
<1>3. \A r \in Streams \ {s} : chan'[r] = chan[r] /\ lost'[r] = lost[r]
  BY <1>1
<1>4. Opened'
  BY <1>1, <1>2, <1>3 DEF Following, Opened
<1>5. Due(s, p) = (since[s][p] + 1)..published[p]
      /\ Due(s, p)' = (since[s][p] + 1)..(published[p] + 1)
  BY <1>1, <1>2 DEF Due
<1>6. \A q \in Publishers \ {p} : Due(s, q)' = Due(s, q)
  BY <1>1 DEF Due
<1>7. Follows(s) /\ since[s][p] <= published[p]
  BY <1>2 DEF Following, Opened
<1>8. Follows(s)'
  <2>1. CASE chan' = [chan EXCEPT ![s] = Append(@, Event(p))] /\ UNCHANGED lost
    <3>1. Event(p) \in Events
      BY DEF Event, Events
    <3>2. Sent(s)' = Append(Sent(s), Event(p))
      BY <1>1, <2>1, <3>1, AppendIsLast DEF Sent
    <3> QED
      BY <1>5, <1>6, <1>7, <2>1, <3>2, FollowsOneMore
  <2>2. CASE lost' = [lost EXCEPT ![s] = TRUE] /\ UNCHANGED chan
    <3>1. Sent(s)' = Sent(s) /\ lost'[s]
      BY <1>1, <2>2 DEF Sent
    <3>2. Ordered(Sent(s)')
      BY <1>7, <3>1 DEF Follows
    <3>3. ASSUME NEW q \in Publishers PROVE Due(s, q) \subseteq Due(s, q)'
      <4>1. Due(s, p) \subseteq Due(s, p)'
        BY <1>5
      <4> QED
        BY <1>6, <4>1
    <3>4. ASSUME NEW i \in 1..Len(Sent(s)'), NEW q \in Publishers, Sent(s)'[i].from = q
          PROVE  Sent(s)'[i].number \in Due(s, q)'
      <4>1. Sent(s)'[i].number \in Due(s, q)
        BY <1>7, <3>1, <3>4 DEF Follows
      <4> QED
        BY <3>3, <4>1
    <3> QED
      BY <3>1, <3>2, <3>4 DEF Follows
  <2> QED
    BY <1>1, <2>1, <2>2
<1>9. ASSUME NEW r \in subs \ {s} PROVE Follows(r)'
  <2>1. r \in Streams /\ Follows(r) /\ r # s
    BY DEF Following
  <2>2. Sent(r)' = Sent(r) /\ lost'[r] = lost[r]
    BY <1>1, <1>3, <2>1 DEF Sent
  <2>3. \A q \in Publishers : Due(r, q)' = Due(r, q)
    BY <1>1, <2>1 DEF Due
  <2> QED
    BY <2>1, <2>2, <2>3, FollowsKept
<1> QED
  BY <1>1, <1>4, <1>8, <1>9 DEF Following

LEMMA FollowingStep == IInv /\ Following /\ [Next]_vars => Following'
<1> SUFFICES ASSUME IInv, Following, [Next]_vars PROVE Following'
  OBVIOUS
<1> Hub
  BY DEF IInv
<1>1. CASE TurnNext /\ UNCHANGED <<hubVars, published, since>>
  BY <1>1, FollowingStutters
<1>2. ASSUME NEW p \in Publishers, Publish(p) PROVE Following'
  BY <1>2, LockFollows, SendFollows, UnlockFollows DEF Publish, BeginPublish
<1>3. ASSUME NEW s \in Streams,
             \/ OpenStream(s) \/ StreamStep(s)
             \/ Disconnect(s) /\ UNCHANGED <<turnVars, published, since>>
      PROVE  Following'
  BY <1>3, OpenFollows, DeliverFollows, LeaveFollows DEF StreamStep, Handle
<1>4. CASE UNCHANGED vars
  BY <1>4, FollowingStutters DEF vars
<1> QED
  BY <1>1, <1>2, <1>3, <1>4 DEF Next

LEMMA InitFollowing == Init => Following
BY DEF Init, HubInit, Following, Opened

LEMMA StreamInvariance == Spec => []Following
BY InitFollowing, FollowingStep, Invariance, PTL DEF Spec

-----------------------------------------------------------------------------
(* Every variable is of its type; no channel and no pipe is over its size. *)
THEOREM TypeCorrect == Spec => []TypeOK
<1>1. IInv => TypeOK
  BY DEF IInv, Turning, Hub, TypeOK
<1> QED
  BY <1>1, Invariance, PTL

(* PublishJSON sends to channels that are in the hub, hence not closed,    *)
(* however many browsers come and go: the read lock outlasts the sends.    *)
THEOREM NoSendOnClosed == Spec => []NeverSendsToClosed
<1>1. IInv => NeverSendsToClosed
  BY DEF IInv, Hub
<1> QED
  BY <1>1, Invariance, PTL

(* RunTurn of each runtime returns without an error only when it has read  *)
(* all that was written, and leaves no process that is not waited for.     *)
THEOREM OutputIsComplete == Spec => []TurnIsComplete
<1>1. IInv => TurnIsComplete
  BY DEF IInv, Turning, Accounted, Complete, TurnIsComplete
<1> QED
  BY <1>1, Invariance, PTL

(* A browser's stream has the events of each publisher since it was opened *)
(* in their order and each once, and all of them unless its channel was    *)
(* full when one was sent: PublishJSON drops that event and not another.   *)
THEOREM StreamsAreFollowed == Spec => []StreamsFollow
<1>1. IInv /\ Following => StreamsFollow
  BY FollowingIsIt DEF IInv, Following
<1> QED
  BY <1>1, Invariance, StreamInvariance, PTL

=============================================================================
