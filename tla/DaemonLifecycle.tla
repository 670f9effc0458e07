-------------------------- MODULE DaemonLifecycle ---------------------------
(***************************************************************************)
(* Starting, stopping and asking after the daemon of one home directory    *)
(* (Linux and macOS): the daemon's lock and pid file, and the commands     *)
(* start, stop and status, which know the daemon by its pid file only.     *)
(*                                                                         *)
(* A process id is reused once its process is gone.  Left out: the addr    *)
(* file, which is only displayed, and processes of other programs that     *)
(* reuse a pid.  Time is left out: a deadline may pass at any poll.        *)
(***************************************************************************)
EXTENDS Naturals

CONSTANTS
  Pids,         \* process ids
  Commands,     \* invocations of the CLI that run at the same time
  NoPid,        \* no file, no lock holder, no answer
  Torn,         \* the pid file while it is truncated and not yet written
  MaxStarts     \* bound: daemons started in one behaviour

ASSUME DaemonAssumption ==
  NoPid \notin Pids /\ Torn \notin Pids /\ NoPid # Torn /\ MaxStarts \in Nat

VARIABLES
  pc,           \* where each process is in StartForeground
  cancelled,    \* its context is cancelled (SIGTERM was received)
  lock,         \* holder of the flock on daemon.lock
  pidFile,      \* contents of daemon.pid
  cmd,          \* the commands
  starts        \* daemons started so far

vars == <<pc, cancelled, lock, pidFile, cmd, starts>>

(* The phases of StartForeground that hold the lock, in order.             *)
Locked == {"locked", "writing_pid", "published", "serving", "unpublishing",
           "unlocking"}
Phases == {"gone", "zombie", "starting", "exiting"} \cup Locked

(* A command runs Status, once (check) or again and again (poll), and acts *)
(* on what it says.                                                        *)
Command == [op    : {"none", "status", "start", "stop"},
            goal  : {"check", "poll"},
            step  : {"read", "probe", "remove", "act"},
            pid   : Pids \cup {NoPid},   \* what Status has read
            proc  : Pids \cup {NoPid}]   \* the child of start, the target of stop

Idle == [op |-> "none", goal |-> "check", step |-> "read", pid |-> NoPid,
         proc |-> NoPid]

Init ==
  /\ pc = [p \in Pids |-> "gone"]
  /\ cancelled = [p \in Pids |-> FALSE]
  /\ lock = NoPid
  /\ pidFile = NoPid
  /\ cmd = [c \in Commands |-> Idle]
  /\ starts = 0

-----------------------------------------------------------------------------
(* The daemon.                                                             *)

Step(p, from, to) == pc[p] = from /\ pc' = [pc EXCEPT ![p] = to]

Born(p) ==
  /\ starts < MaxStarts
  /\ Step(p, "gone", "starting")
  /\ starts' = starts + 1
  /\ UNCHANGED <<cancelled, lock, pidFile>>

BadAcquireLock(p) ==                                    \* the flock is not exclusive
  /\ Step(p, "starting", "locked")
  /\ lock' = p
  /\ UNCHANGED <<cancelled, pidFile, cmd, starts>>

AcquireLock(p) ==
  /\ lock = NoPid
  /\ Step(p, "starting", "locked")
  /\ lock' = p
  /\ UNCHANGED <<cancelled, pidFile, cmd, starts>>

LockTaken(p) ==
  /\ lock # NoPid
  /\ Step(p, "starting", "exiting")
  /\ UNCHANGED <<cancelled, lock, pidFile, cmd, starts>>

(* EnsureSchema fails, or the pid file cannot be written: the two deferred *)
(* removals are not yet registered, and a torn file stays.                 *)
FailEarly(p) ==
  /\ Step(p, "locked", "unlocking") \/ Step(p, "writing_pid", "unlocking")
  /\ UNCHANGED <<cancelled, lock, pidFile, cmd, starts>>

(* os.WriteFile opens with O_CREATE|O_TRUNC, then writes.                  *)
TruncatePid(p) ==
  /\ Step(p, "locked", "writing_pid")
  /\ pidFile' = Torn
  /\ UNCHANGED <<cancelled, lock, cmd, starts>>

(* A file that has been unlinked meanwhile is written, but has no name.    *)
WritePid(p) ==
  /\ Step(p, "writing_pid", "published")
  /\ pidFile' = IF pidFile = Torn THEN p ELSE pidFile
  /\ UNCHANGED <<cancelled, lock, cmd, starts>>

Serve(p) ==
  /\ Step(p, "published", "serving")
  /\ UNCHANGED <<cancelled, lock, pidFile, cmd, starts>>

(* The port is taken or the store does not open; ListenAndServe fails.     *)
FailLate(p) ==
  /\ Step(p, "published", "unpublishing") \/ Step(p, "serving", "unpublishing")
  /\ UNCHANGED <<cancelled, lock, pidFile, cmd, starts>>

BadShutdown(p) ==                                       \* unlocks before it cleans up
  /\ cancelled[p]
  /\ Step(p, "serving", "unpublishing")
  /\ lock' = NoPid
  /\ UNCHANGED <<cancelled, pidFile, cmd, starts>>

(* ctx.Done, then Server.Shutdown, which ends within its 15 seconds.       *)
Shutdown(p) ==
  /\ cancelled[p]
  /\ Step(p, "serving", "unpublishing")
  /\ UNCHANGED <<cancelled, lock, pidFile, cmd, starts>>

(* The deferred functions: the files first, then the lock.                 *)
Unpublish(p) ==
  /\ Step(p, "unpublishing", "unlocking")
  /\ pidFile' = NoPid
  /\ UNCHANGED <<cancelled, lock, cmd, starts>>

Unlock(p) ==
  /\ Step(p, "unlocking", "exiting")
  /\ lock' = NoPid
  /\ UNCHANGED <<cancelled, pidFile, cmd, starts>>

(* The end of a process: the kernel releases its lock; the child of a      *)
(* start that still runs stays a zombie, since start never waits for it.   *)
Ends(p) ==
  /\ pc' = [pc EXCEPT ![p] =
              IF \E c \in Commands : cmd[c].op = "start" /\ cmd[c].proc = p
              THEN "zombie" ELSE "gone"]
  /\ lock' = IF lock = p THEN NoPid ELSE lock
  /\ cancelled' = [cancelled EXCEPT ![p] = FALSE]

Exit(p) ==
  /\ pc[p] = "exiting"
  /\ Ends(p)
  /\ UNCHANGED <<pidFile, cmd, starts>>

Crash(p) ==
  /\ pc[p] \notin {"gone", "zombie"}
  /\ Ends(p)
  /\ UNCHANGED <<pidFile, cmd, starts>>

(* agentary start --foreground, from a shell.                              *)
StartForeground(p) == Born(p) /\ UNCHANGED cmd

-----------------------------------------------------------------------------
(* The commands.                                                           *)

Begin(c, op) ==
  /\ cmd[c].op = "none"
  /\ cmd' = [cmd EXCEPT ![c] = [Idle EXCEPT !.op = op]]
  /\ UNCHANGED <<pc, cancelled, lock, pidFile, starts>>

Goto(c, step) == cmd' = [cmd EXCEPT ![c].step = step, ![c].pid = NoPid]

(* The command returns; a zombie it leaves is reaped by init.              *)
Return(c) ==
  /\ cmd' = [cmd EXCEPT ![c] = Idle]
  /\ pc' = [p \in Pids |->
              IF pc[p] = "zombie" /\ cmd[c].op = "start" /\ cmd[c].proc = p
              THEN "gone" ELSE pc[p]]

(* kill(pid, 0), which succeeds for a zombie.                              *)
ProcessExists(p) == pc[p] # "gone"

(* Status has answered: the pid of a running daemon, or NoPid.             *)
StatusSays(c, p) ==
  LET op == cmd[c].op
      returns == \/ op = "status"
                 \/ op = "start" /\ p # NoPid
                 \/ op = "stop" /\ p = NoPid
  IN IF returns THEN Return(c)
     ELSE /\ UNCHANGED pc
          /\ IF cmd[c].goal = "poll" THEN Goto(c, "read")
             ELSE cmd' = [cmd EXCEPT ![c].step = "act", ![c].pid = NoPid, ![c].proc = p]

BadReadPid(c) ==                                        \* Atoi's error is ignored
  /\ cmd[c].op # "none" /\ cmd[c].step = "read"
  /\ IF pidFile # NoPid
     THEN /\ cmd' = [cmd EXCEPT ![c].step = "probe", ![c].pid = pidFile]
          /\ UNCHANGED pc
     ELSE StatusSays(c, NoPid)
  /\ UNCHANGED <<cancelled, lock, pidFile, starts>>

ReadPid(c) ==
  /\ cmd[c].op # "none" /\ cmd[c].step = "read"
  /\ IF pidFile \in Pids
     THEN /\ cmd' = [cmd EXCEPT ![c].step = "probe", ![c].pid = pidFile]
          /\ UNCHANGED pc
     ELSE StatusSays(c, NoPid)
  /\ UNCHANGED <<cancelled, lock, pidFile, starts>>

Probe(c) ==
  /\ cmd[c].step = "probe"
  /\ IF ProcessExists(cmd[c].pid) THEN StatusSays(c, cmd[c].pid)
     ELSE Goto(c, "remove") /\ UNCHANGED pc
  /\ UNCHANGED <<cancelled, lock, pidFile, starts>>

(* os.Remove, whatever the file says by now.                               *)
RemoveStale(c) ==
  /\ cmd[c].step = "remove"
  /\ pidFile' = NoPid
  /\ StatusSays(c, NoPid)
  /\ UNCHANGED <<cancelled, lock, starts>>

(* StartBackground starts the child and polls until Status finds a daemon. *)
Spawn(c) ==
  /\ cmd[c].op = "start" /\ cmd[c].step = "act"
  /\ \E p \in Pids :
       /\ Born(p)
       /\ cmd' = [cmd EXCEPT ![c].goal = "poll", ![c].step = "read", ![c].proc = p]

BadSignalTerm(c) ==                                     \* the signal is not sent
  /\ cmd[c].op = "stop" /\ cmd[c].step = "act"
  /\ cmd' = [cmd EXCEPT ![c].goal = "poll", ![c].step = "read"]
  /\ UNCHANGED <<pc, cancelled, lock, pidFile, starts>>

(* Stop sends SIGTERM, or returns the error that the process has finished. *)
(* Before main has installed its handler the signal ends the process.      *)
SignalTerm(c) ==
  LET p == cmd[c].proc
      Poll == cmd' = [cmd EXCEPT ![c].goal = "poll", ![c].step = "read"]
  IN /\ cmd[c].op = "stop" /\ cmd[c].step = "act"
     /\ \/ /\ ~ProcessExists(p)
           /\ Return(c)
           /\ UNCHANGED <<cancelled, lock>>
        \/ /\ ProcessExists(p)
           /\ cancelled' = [cancelled EXCEPT ![p] = pc[p] # "zombie"]
           /\ Poll
           /\ UNCHANGED <<pc, lock>>
        \/ /\ pc[p] = "starting"
           /\ Ends(p)
           /\ Poll
     /\ UNCHANGED <<pidFile, starts>>

(* The deadline has passed: start returns the pid of its child, stop kills *)
(* the process that has its target's pid by now (on macOS; on Linux Go     *)
(* holds on to the process it has signalled, which allows less).           *)
TimeOut(c) ==
  /\ cmd[c].goal = "poll" /\ cmd[c].step = "read"
  /\ \/ cmd[c].op = "start" /\ Return(c) /\ UNCHANGED <<cancelled, lock>>
     \/ /\ cmd[c].op = "stop"
        /\ IF pc[cmd[c].proc] \in {"gone", "zombie"}
           THEN UNCHANGED <<pc, cancelled, lock>> ELSE Ends(cmd[c].proc)
        /\ cmd' = [cmd EXCEPT ![c] = Idle]
  /\ UNCHANGED <<pidFile, starts>>

-----------------------------------------------------------------------------
DaemonStep(p) ==
  \/ AcquireLock(p) \/ LockTaken(p) \/ TruncatePid(p) \/ WritePid(p) \/ Serve(p)
  \/ Shutdown(p) \/ Unpublish(p) \/ Unlock(p) \/ Exit(p)

Fault(p) == FailEarly(p) \/ FailLate(p) \/ Crash(p)

CommandStep(c) ==
  \/ ReadPid(c) \/ Probe(c) \/ RemoveStale(c) \/ Spawn(c) \/ SignalTerm(c)

Next ==
  \/ \E p \in Pids : DaemonStep(p) \/ Fault(p) \/ StartForeground(p)
  \/ \E c \in Commands :
       \/ \E op \in {"status", "start", "stop"} : Begin(c, op)
       \/ CommandStep(c) \/ TimeOut(c)

Spec == Init /\ [][Next]_vars

(* A process that has something to do does it: nothing in StartForeground   *)
(* waits for ever, and neither does a command.  Nobody has to start one,   *)
(* and no deadline has to pass.                                            *)
FairSpec ==
  /\ Spec
  /\ \A p \in Pids : WF_vars(DaemonStep(p))
  /\ \A c \in Commands : WF_vars(CommandStep(c))

-----------------------------------------------------------------------------
(* Properties.                                                             *)

TypeOK ==
  /\ pc \in [Pids -> Phases]
  /\ cancelled \in [Pids -> BOOLEAN]
  /\ lock \in Pids \cup {NoPid}
  /\ pidFile \in Pids \cup {NoPid, Torn}
  /\ cmd \in [Commands -> Command]
  /\ starts \in Nat

(* The pid file is written under the lock and removed before it is         *)
(* released, so it never names another process than the daemon that        *)
(* serves, whatever files crashed daemons and failed starts have left and  *)
(* however the starts overlap.                                             *)
PidFileIsOwn ==
  \A p \in Pids : pc[p] = "serving" => pidFile \in {p, NoPid}

(* No other daemon, however it fails or is stopped, takes the pid file     *)
(* from the daemon that serves: only a Status that had found another       *)
(* process dead does.                                                      *)
OnlyStatusHides ==
  [][\A p \in Pids :
       pc[p] = "serving" /\ pc'[p] = "serving" /\ pidFile = p /\ pidFile' # p
         => \E c \in Commands : cmd[c].step = "remove" /\ cmd'[c].step # "remove"]_vars

(* Stop ends the daemon it has signalled, also when that daemon is still   *)
(* starting, when another command has removed the pid file Stop is polling *)
(* and so its Kill never happens, and when the daemon fails on its way.    *)
StopEnds ==
  \A p \in Pids :
    (\E c \in Commands : cmd[c].op = "stop" /\ cmd[c].step = "act"
                         /\ cmd[c].proc = p)
      ~> pc[p] \in {"gone", "zombie"}

=============================================================================
