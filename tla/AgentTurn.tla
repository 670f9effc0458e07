------------------------------ MODULE AgentTurn ------------------------------
(***************************************************************************)
(* The runtimes: one turn is one agent, which writes lines, and RunTurn,   *)
(* which reads them, emits those that are events and collects the others.  *)
(*                                                                         *)
(* "subprocess": the agent is a child process, its standard output a pipe  *)
(* that has an end once every process that inherited it has closed it.     *)
(* "grpc": the agent is behind a server, its lines are the messages of a   *)
(* stream, the last of which is the result.                                *)
(* "stub": the daemon's own, three events and no agent.                    *)
(*                                                                         *)
(* RunTurn has no deadline: SubprocessRuntime.Timeout is not read.         *)
(***************************************************************************)
EXTENDS Naturals, Sequences

CONSTANTS
  Turns,
  Runtimes,         \* of "subprocess", "grpc" and "stub"
  Scripts,          \* what each turn's agent may have to write
  PipeSize,         \* lines that a pipe or a stream holds
  Faulty            \* bound: turns whose agents may crash or leave descendants

(* "long": over bufio.MaxScanTokenSize, or over the size of a message.     *)
Lines == {"event", "text", "long"}

ASSUME TurnAssumption ==
  /\ Runtimes \subseteq {"subprocess", "grpc", "stub"}
  /\ \A t \in Turns : Scripts[t] \subseteq Seq(Lines)
  /\ PipeSize \in Nat \ {0}
  /\ Faulty \subseteq Turns

VARIABLES
  runtime,          \* of the daemon
  script,           \* of each turn: what its agent has to write
  agent,            \* the process, or the call of the server
  wrote,            \* lines of the script written
  pipe,             \* lines not yet read
  inherited,        \* a descendant of the process has the pipe open as well
  turn,             \* what RunTurn does
  taken,            \* lines it has read
  result,
  cancelled         \* ctx is done

agents == <<agent, wrote, inherited>>
turnVars == <<runtime, script, agent, wrote, pipe, inherited, turn, taken,
              result, cancelled>>

TurnSteps == {"claimed", "start", "scan", "emit", "wait", "report", "failed", "ended"}

StubScript == <<"event", "event", "event">>

TurnInit ==
  /\ runtime \in Runtimes
  /\ IF runtime = "stub"
     THEN script = [t \in Turns |-> StubScript]
     ELSE script \in {f \in [Turns -> UNION {Scripts[t] : t \in Turns}] :
                        \A t \in Turns : f[t] \in Scripts[t]}
  /\ agent = [t \in Turns |-> "none"]
  /\ wrote = [t \in Turns |-> 0]
  /\ pipe = [t \in Turns |-> <<>>]
  /\ inherited = [t \in Turns |-> FALSE]
  /\ turn = [t \in Turns |-> "claimed"]
  /\ taken = [t \in Turns |-> 0]
  /\ result = [t \in Turns |-> "none"]
  /\ cancelled = FALSE

Subprocess == runtime = "subprocess"
Remote == runtime = "grpc"
InFlight(t) == turn[t] \in {"start", "scan", "emit", "wait"}

Move(t, from, to) == turn[t] = from /\ turn' = [turn EXCEPT ![t] = to]
Return(t, from, r) == Move(t, from, "report") /\ result' = [result EXCEPT ![t] = r]

-----------------------------------------------------------------------------
(* The agent.                                                              *)

Write(t) ==
  /\ InFlight(t)
  /\ agent[t] = "running" \/ inherited[t]
  /\ wrote[t] < Len(script[t]) /\ Len(pipe[t]) < PipeSize
  /\ wrote' = [wrote EXCEPT ![t] = @ + 1]
  /\ pipe' = [pipe EXCEPT ![t] = Append(@, script[t][wrote[t] + 1])]
  /\ UNCHANGED <<runtime, script, agent, inherited, turn, taken, result, cancelled>>

(* A server's call returns with the turn's result as the last message.     *)
Exit(t) ==
  /\ agent[t] = "running" /\ wrote[t] = Len(script[t])
  /\ agent' = [agent EXCEPT ![t] = "exited"]
  /\ UNCHANGED <<runtime, script, wrote, pipe, inherited, turn, taken, result, cancelled>>

Crash(t) ==
  /\ t \in Faulty /\ agent[t] = "running"
  /\ agent' = [agent EXCEPT ![t] = "crashed"]
  /\ UNCHANGED <<runtime, script, wrote, pipe, inherited, turn, taken, result, cancelled>>

Fork(t) ==
  /\ t \in Faulty
  /\ Subprocess /\ agent[t] = "running" /\ ~inherited[t]
  /\ inherited' = [inherited EXCEPT ![t] = TRUE]
  /\ UNCHANGED <<runtime, script, agent, wrote, pipe, turn, taken, result, cancelled>>

DescendantEnds(t) ==
  /\ inherited[t]
  /\ inherited' = [inherited EXCEPT ![t] = FALSE]
  /\ UNCHANGED <<runtime, script, agent, wrote, pipe, turn, taken, result, cancelled>>

-----------------------------------------------------------------------------
(* RunTurn.                                                                *)

Cancel ==
  /\ ~cancelled /\ cancelled' = TRUE
  /\ UNCHANGED <<runtime, script, agents, pipe, turn, taken, result>>

(* The command is not started when ctx is done, and may fail to start.     *)
Start(t) ==
  /\ Subprocess \/ Remote
  /\ \/ Return(t, "start", "error") /\ UNCHANGED agent
     \/ /\ ~cancelled /\ Move(t, "start", "scan")
        /\ agent' = [agent EXCEPT ![t] = "running"]
        /\ UNCHANGED result
  /\ UNCHANGED <<runtime, script, wrote, pipe, inherited, taken, cancelled>>

BadKill(t) ==                                           \* not while it is waited for
  /\ cancelled /\ agent[t] = "running" /\ turn[t] = "scan"
  /\ agent' = [agent EXCEPT ![t] = "crashed"]
  /\ inherited' \in {inherited, [inherited EXCEPT ![t] = Subprocess /\ t \in Faulty]}
  /\ UNCHANGED <<runtime, script, wrote, pipe, turn, taken, result, cancelled>>

(* The context ends the command, as it does the call of a server.  In the  *)
(* sandbox the command is bwrap, and the agent survives it.                *)
Kill(t) ==
  /\ cancelled /\ agent[t] = "running"
  /\ agent' = [agent EXCEPT ![t] = "crashed"]
  /\ inherited' \in {inherited, [inherited EXCEPT ![t] = Subprocess /\ t \in Faulty]}
  /\ UNCHANGED <<runtime, script, wrote, pipe, turn, taken, result, cancelled>>

(* One line or message.  After one that is too long, a command is waited   *)
(* for, with the pipe open and nobody reading, and a call is given up.     *)
Scan(t) ==
  /\ pipe[t] # <<>>
  /\ \/ /\ Head(pipe[t]) = "event" /\ Move(t, "scan", "emit")
        /\ UNCHANGED <<agent, result>>
     \/ /\ Head(pipe[t]) = "text" /\ turn[t] = "scan"
        /\ UNCHANGED <<agent, turn, result>>
     \/ /\ Head(pipe[t]) = "long" /\ Subprocess /\ Move(t, "scan", "wait")
        /\ result' = [result EXCEPT ![t] = "error"]
        /\ UNCHANGED agent
     \/ /\ Head(pipe[t]) = "long" /\ Remote /\ Return(t, "scan", "error")
        /\ agent' = [agent EXCEPT ![t] = "none"]
  /\ pipe' = [pipe EXCEPT ![t] = Tail(@)]
  /\ taken' = [taken EXCEPT ![t] = @ + 1]
  /\ UNCHANGED <<runtime, script, wrote, inherited, cancelled>>

Closed(t) == pipe[t] = <<>> /\ agent[t] # "running" /\ ~inherited[t]

BadEndOfOutput(t) ==                                    \* Wait in parallel
  /\ Subprocess /\ agent[t] # "running"
  /\ Move(t, "scan", "wait")
  /\ result' = [result EXCEPT ![t] = "ok"]
  /\ UNCHANGED <<runtime, script, agents, pipe, taken, cancelled>>

(* The end of the pipe is no error, whatever the status of the process.    *)
EndOfOutput(t) ==
  /\ Subprocess /\ Closed(t)
  /\ Move(t, "scan", "wait")
  /\ result' = [result EXCEPT ![t] = "ok"]
  /\ UNCHANGED <<runtime, script, agents, pipe, taken, cancelled>>

(* cmd.Wait closes the pipe after the process has ended.                   *)
Wait(t) ==
  /\ agent[t] # "running"
  /\ Move(t, "wait", "report")
  /\ pipe' = [pipe EXCEPT ![t] = <<>>]
  /\ agent' = [agent EXCEPT ![t] = "none"]
  /\ inherited' = [inherited EXCEPT ![t] = FALSE]
  /\ UNCHANGED <<runtime, script, wrote, taken, result, cancelled>>

(* A call ends with its result, or with an error: of the server, or of ctx *)
(* with messages not yet received.                                         *)
Receive(t) ==
  /\ Remote
  /\ \/ pipe[t] = <<>> /\ agent[t] = "exited" /\ Return(t, "scan", "ok")
     \/ pipe[t] = <<>> /\ agent[t] = "crashed" /\ Return(t, "scan", "error")
     \/ cancelled /\ Return(t, "scan", "error")
  /\ agent' = [agent EXCEPT ![t] = "none"]
  /\ UNCHANGED <<runtime, script, wrote, pipe, inherited, taken, cancelled>>

(* StubRuntime does not look at ctx, but to sleep less.                    *)
Simulate(t) ==
  /\ runtime = "stub" /\ turn[t] \in {"start", "scan"}
  /\ IF taken[t] < Len(script[t])
     THEN /\ Move(t, turn[t], "emit")
          /\ wrote' = [wrote EXCEPT ![t] = @ + 1]
          /\ taken' = [taken EXCEPT ![t] = @ + 1]
          /\ UNCHANGED result
     ELSE Return(t, turn[t], "ok") /\ UNCHANGED <<wrote, taken>>
  /\ UNCHANGED <<runtime, script, agent, pipe, inherited, cancelled>>

AgentStep(t) == Write(t) \/ Exit(t)
RunStep(t) == Start(t) \/ Scan(t) \/ EndOfOutput(t) \/ Wait(t) \/ Receive(t) \/ Simulate(t)

TurnTypeOK ==
  /\ runtime \in Runtimes /\ cancelled \in BOOLEAN
  /\ script \in [Turns -> Seq(Lines)]
  /\ agent \in [Turns -> {"none", "running", "exited", "crashed"}]
  /\ wrote \in [Turns -> Nat] /\ taken \in [Turns -> Nat]
  /\ pipe \in [Turns -> Seq(Lines)]
  /\ \A t \in Turns :
       taken[t] <= wrote[t] /\ wrote[t] <= Len(script[t]) /\ Len(pipe[t]) <= PipeSize
  /\ inherited \in [Turns -> BOOLEAN]
  /\ turn \in [Turns -> TurnSteps]
  /\ result \in [Turns -> {"none", "ok", "error"}]

TurnNext ==
  \/ Cancel
  \/ \E t \in Turns :
       AgentStep(t) \/ RunStep(t) \/ Kill(t) \/ Crash(t) \/ Fork(t) \/ DescendantEnds(t)

=============================================================================
