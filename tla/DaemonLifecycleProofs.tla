----------------------- MODULE DaemonLifecycleProofs ------------------------
(***************************************************************************)
(* Safety of DaemonLifecycle, for any number of processes, commands and    *)
(* starts.  The commands touch the daemon in three ways only: they end a   *)
(* process, they reap one, and they remove the pid file.                   *)
(***************************************************************************)
EXTENDS DaemonLifecycle, TLAPS

(* Whoever is between acquireLock and release holds the lock.              *)
LockHeld == \A p \in Pids : pc[p] \in Locked => lock = p

(* What the holder of the lock finds in the pid file: what it has put      *)
(* there, or nothing.                                                      *)
FileOfHolder ==
  \A p \in Pids :
    /\ pc[p] = "writing_pid" => pidFile \in {Torn, NoPid}
    /\ pc[p] \in {"published", "serving"} => pidFile \in {p, NoPid}

IInv == TypeOK /\ LockHeld /\ FileOfHolder

(* A step of the commands, or the end of a process, as far as the daemons  *)
(* are concerned: nobody enters a phase that holds the lock, and the lock  *)
(* is taken from none that is in one.                                      *)
Passive ==
  /\ pc' \in [Pids -> Phases]
  /\ \A p \in Pids : pc'[p] \in Locked => pc'[p] = pc[p] /\ lock' = lock
  /\ lock' \in Pids \cup {NoPid}
  /\ pidFile' \in {pidFile, NoPid}

USE DEF Locked, Phases

-----------------------------------------------------------------------------
LEMMA PassiveKeeps ==
  ASSUME IInv, Passive
  PROVE  LockHeld' /\ FileOfHolder'
BY DaemonAssumption DEF IInv, Passive, LockHeld, FileOfHolder, TypeOK

(* One process moves between two phases; the lock and the file follow.     *)
LEMMA StepType ==
  ASSUME TypeOK, NEW p \in Pids, NEW from \in Phases, NEW to \in Phases,
         Step(p, from, to)
  PROVE  /\ pc' \in [Pids -> Phases]
         /\ pc[p] = from /\ pc'[p] = to
         /\ \A q \in Pids \ {p} : pc'[q] = pc[q]
BY DEF TypeOK, Step

(* The kernel takes the lock of the process that ends, and only that.      *)
LEMMA EndsPassive ==
  ASSUME IInv, NEW p \in Pids \cup {NoPid}, Ends(p)
  PROVE  /\ pc' \in [Pids -> Phases]
         /\ \A q \in Pids : pc'[q] \in Locked => pc'[q] = pc[q] /\ lock' = lock
         /\ lock' \in Pids \cup {NoPid}
         /\ cancelled' \in [Pids -> BOOLEAN]
BY DaemonAssumption DEF IInv, TypeOK, LockHeld, Ends

(* A returning command reaps at most the zombie it has left.               *)
LEMMA ReturnPassive ==
  ASSUME IInv, NEW c \in Commands, Return(c)
  PROVE  /\ pc' \in [Pids -> Phases]
         /\ \A q \in Pids : pc'[q] \in Locked => pc'[q] = pc[q]
         /\ cmd' \in [Commands -> Command]
BY DEF IInv, TypeOK, Return, Idle, Command

LEMMA StatusSaysPassive ==
  ASSUME IInv, NEW c \in Commands, NEW p \in Pids \cup {NoPid}, StatusSays(c, p)
  PROVE  /\ pc' \in [Pids -> Phases]
         /\ \A q \in Pids : pc'[q] \in Locked => pc'[q] = pc[q]
         /\ cmd' \in [Commands -> Command]
<1> DEFINE op == cmd[c].op
           returns == \/ op = "status"
                      \/ op = "start" /\ p # NoPid
                      \/ op = "stop" /\ p = NoPid
<1>1. CASE returns
  BY <1>1, ReturnPassive DEF StatusSays
<1>2. CASE ~returns
  <2>1. UNCHANGED pc
    BY <1>2 DEF StatusSays
  <2>2. cmd' \in [Commands -> Command]
    BY <1>2 DEF StatusSays, Goto, IInv, TypeOK, Command
  <2> QED  BY <2>1, <2>2 DEF IInv, TypeOK
<1> QED  BY <1>1, <1>2

-----------------------------------------------------------------------------
LEMMA DaemonKeeps ==
  ASSUME IInv, NEW p \in Pids, DaemonStep(p)
  PROVE  IInv'
<1> USE DaemonAssumption
<1> USE DEF IInv, TypeOK, LockHeld, FileOfHolder
<1>1. CASE AcquireLock(p)  BY <1>1, StepType DEF AcquireLock
<1>2. CASE LockTaken(p)    BY <1>2, StepType DEF LockTaken
<1>3. CASE TruncatePid(p)  BY <1>3, StepType DEF TruncatePid
<1>4. CASE WritePid(p)     BY <1>4, StepType DEF WritePid
<1>5. CASE Serve(p)        BY <1>5, StepType DEF Serve
<1>6. CASE Shutdown(p)     BY <1>6, StepType DEF Shutdown
<1>7. CASE Unpublish(p)    BY <1>7, StepType DEF Unpublish
<1>8. CASE Unlock(p)       BY <1>8, StepType DEF Unlock
<1>9. CASE Exit(p)
  <2>1. Passive /\ cancelled' \in [Pids -> BOOLEAN]
    BY <1>9, EndsPassive DEF Exit, Passive
  <2> QED  BY <1>9, <2>1, PassiveKeeps DEF Exit, Passive
<1> QED
  BY <1>1, <1>2, <1>3, <1>4, <1>5, <1>6, <1>7, <1>8, <1>9 DEF DaemonStep

LEMMA FaultKeeps ==
  ASSUME IInv, NEW p \in Pids, Fault(p)
  PROVE  IInv'
<1> USE DaemonAssumption
<1> USE DEF IInv, TypeOK, LockHeld, FileOfHolder
<1>1. CASE FailEarly(p)  BY <1>1, StepType DEF FailEarly
<1>2. CASE FailLate(p)   BY <1>2, StepType DEF FailLate
<1>3. CASE Crash(p)
  <2>1. Passive /\ cancelled' \in [Pids -> BOOLEAN]
    BY <1>3, EndsPassive DEF Crash, Passive
  <2> QED  BY <1>3, <2>1, PassiveKeeps DEF Crash, Passive
<1> QED  BY <1>1, <1>2, <1>3 DEF Fault

(* A new process holds nothing.                                            *)
LEMMA BornPassive ==
  ASSUME IInv, NEW p \in Pids, Born(p)
  PROVE  Passive /\ cancelled' = cancelled /\ starts' \in Nat
BY StepType DEF Born, Passive, IInv, TypeOK

LEMMA CommandKeeps ==
  ASSUME IInv, NEW c \in Commands,
         CommandStep(c) \/ TimeOut(c) \/ (\E op \in {"status", "start", "stop"} : Begin(c, op))
  PROVE  IInv'
<1> DEFINE Rest == /\ cmd' \in [Commands -> Command]
                   /\ cancelled' \in [Pids -> BOOLEAN]
                   /\ starts' \in Nat
<1>a. /\ cmd[c] \in Command /\ cmd[c].pid \in Pids \cup {NoPid}
      /\ cmd[c].proc \in Pids \cup {NoPid}
  BY DEF IInv, TypeOK, Command
<1>b. NoPid \in Pids \cup {NoPid}
  OBVIOUS
<1> SUFFICES Passive /\ Rest
  BY PassiveKeeps, DaemonAssumption DEF Passive, IInv, TypeOK
<1>1. CASE ReadPid(c)
  <2>1. CASE pidFile \in Pids
    BY <1>1, <2>1 DEF ReadPid, Passive, IInv, TypeOK, Command
  <2>2. CASE pidFile \notin Pids
    <3>1. StatusSays(c, NoPid) /\ UNCHANGED <<cancelled, lock, pidFile, starts>>
      BY <1>1, <2>2 DEF ReadPid
    <3> QED  BY <3>1, <1>b, StatusSaysPassive DEF Passive, IInv, TypeOK
  <2> QED  BY <2>1, <2>2
<1>2. CASE Probe(c)
  <2>1. CASE ProcessExists(cmd[c].pid)
    <3>1. StatusSays(c, cmd[c].pid) /\ UNCHANGED <<cancelled, lock, pidFile, starts>>
      BY <1>2, <2>1 DEF Probe
    <3> QED  BY <3>1, <1>a, StatusSaysPassive DEF Passive, IInv, TypeOK
  <2>2. CASE ~ProcessExists(cmd[c].pid)
    BY <1>2, <2>2 DEF Probe, Goto, Passive, IInv, TypeOK, Command
  <2> QED  BY <2>1, <2>2
<1>3. CASE RemoveStale(c)
  BY <1>3, <1>b, StatusSaysPassive DEF RemoveStale, Passive, IInv, TypeOK
<1>4. CASE Spawn(c)
  <2>1. PICK p \in Pids :
          /\ Born(p)
          /\ cmd' = [cmd EXCEPT ![c].goal = "poll", ![c].step = "read", ![c].proc = p]
    BY <1>4 DEF Spawn
  <2>2. Passive /\ cancelled' = cancelled /\ starts' \in Nat
    BY <2>1, BornPassive
  <2>3. cmd' \in [Commands -> Command]
    <3> DEFINE polling == [cmd[c] EXCEPT !.goal = "poll", !.step = "read", !.proc = p]
    <3>1. polling \in Command
      BY <1>a DEF Command
    <3>2. cmd' = [cmd EXCEPT ![c] = polling]
      BY <2>1, <1>a DEF IInv, TypeOK
    <3> QED  BY <3>1, <3>2 DEF IInv, TypeOK
  <2>4. cancelled \in [Pids -> BOOLEAN]
    BY DEF IInv, TypeOK
  <2> QED  BY <2>2, <2>3, <2>4
<1>5. CASE SignalTerm(c)
  <2> DEFINE p == cmd[c].proc
             Poll == cmd' = [cmd EXCEPT ![c].goal = "poll", ![c].step = "read"]
  <2>1. CASE ~ProcessExists(p) /\ Return(c) /\ UNCHANGED <<cancelled, lock>>
    BY <1>5, <2>1, ReturnPassive DEF SignalTerm, Passive, IInv, TypeOK
  <2>2. CASE /\ cancelled' = [cancelled EXCEPT ![p] = pc[p] # "zombie"]
             /\ Poll /\ UNCHANGED <<pc, lock>>
    BY <1>5, <2>2 DEF SignalTerm, Passive, IInv, TypeOK, Command
  <2>3. CASE pc[p] = "starting" /\ Ends(p) /\ Poll
    <3>1. Rest /\ UNCHANGED pidFile
      BY <1>5, <2>3, <1>a, EndsPassive DEF SignalTerm, IInv, TypeOK, Command
    <3> QED  BY <2>3, <3>1, <1>a, EndsPassive DEF Passive
  <2> QED  BY <1>5, <2>1, <2>2, <2>3 DEF SignalTerm
<1>6. CASE TimeOut(c)
  <2>1. CASE cmd[c].op = "start" /\ Return(c) /\ UNCHANGED <<cancelled, lock>>
    BY <1>6, <2>1, ReturnPassive DEF TimeOut, Passive, IInv, TypeOK
  <2>2. CASE UNCHANGED <<pc, cancelled, lock>> /\ cmd' = [cmd EXCEPT ![c] = Idle]
    BY <1>6, <2>2 DEF TimeOut, Passive, IInv, TypeOK, Command, Idle
  <2>3. CASE Ends(cmd[c].proc) /\ cmd' = [cmd EXCEPT ![c] = Idle]
    <3>1. UNCHANGED <<pidFile, starts>>
      BY <1>6 DEF TimeOut
    <3>2. Passive
      BY <2>3, <3>1, <1>a, EndsPassive DEF Passive
    <3>3. cmd' \in [Commands -> Command]
      BY <2>3 DEF IInv, TypeOK, Command, Idle
    <3>4. cancelled' \in [Pids -> BOOLEAN]
      BY <2>3, <1>a, EndsPassive
    <3>5. starts' \in Nat
      BY <3>1 DEF IInv, TypeOK
    <3> QED  BY <3>2, <3>3, <3>4, <3>5
  <2> QED  BY <1>6, <2>1, <2>2, <2>3 DEF TimeOut
<1>7. CASE \E op \in {"status", "start", "stop"} : Begin(c, op)
  BY <1>7 DEF Begin, Idle, Passive, IInv, TypeOK, Command
<1> QED
  BY <1>1, <1>2, <1>3, <1>4, <1>5, <1>6, <1>7 DEF CommandStep

LEMMA StartKeeps ==
  ASSUME IInv, NEW p \in Pids, StartForeground(p)
  PROVE  IInv'
BY BornPassive, PassiveKeeps, DaemonAssumption DEF StartForeground, Passive, IInv, TypeOK

-----------------------------------------------------------------------------
LEMMA InitIInv == Init => IInv
BY DaemonAssumption DEF Init, IInv, TypeOK, LockHeld, FileOfHolder, Idle, Command

LEMMA NextIInv == IInv /\ [Next]_vars => IInv'
<1> SUFFICES ASSUME IInv, [Next]_vars  PROVE IInv'
  OBVIOUS
<1>1. CASE UNCHANGED vars
  BY <1>1 DEF vars, IInv, TypeOK, LockHeld, FileOfHolder
<1>2. CASE Next
  BY <1>2, DaemonKeeps, FaultKeeps, StartKeeps, CommandKeeps DEF Next
<1> QED  BY <1>1, <1>2

LEMMA Invariant == Spec => []IInv
BY InitIInv, NextIInv, PTL DEF Spec

(* Every reachable state is of its type.                                   *)
THEOREM TypeCorrect == Spec => []TypeOK
<1>1. IInv => TypeOK
  BY DEF IInv
<1> QED  BY <1>1, Invariant, PTL

(* The pid file never names another process than the daemon that serves:   *)
(* the lock orders its writing and its removal, and the commands only      *)
(* remove it.                                                              *)
THEOREM PidFileNamesServer == Spec => []PidFileIsOwn
<1>1. IInv => PidFileIsOwn
  BY DEF IInv, FileOfHolder, PidFileIsOwn
<1> QED  BY <1>1, Invariant, PTL

(* A daemon, whatever it does, leaves the pid file of the one that serves  *)
(* alone.                                                                  *)
THEOREM OnlyStatusHidesServer == Spec => OnlyStatusHides
<1> DEFINE Kept == \A p \in Pids :
             pc[p] = "serving" /\ pc'[p] = "serving" /\ pidFile = p /\ pidFile' # p
               => \E c \in Commands : cmd[c].step = "remove" /\ cmd'[c].step # "remove"
<1>1. IInv /\ [Next]_vars => [Kept]_vars
  <2> SUFFICES ASSUME IInv, Next, NEW p \in Pids,
                      pc[p] = "serving", pc'[p] = "serving", pidFile = p, pidFile' # p
               PROVE  \E c \in Commands : cmd[c].step = "remove" /\ cmd'[c].step # "remove"
    OBVIOUS
  <2>1. ASSUME NEW q \in Pids, TruncatePid(q) \/ WritePid(q) \/ Unpublish(q)
        PROVE  FALSE
    BY <2>1, DaemonAssumption
       DEF TruncatePid, WritePid, Unpublish, Step, IInv, TypeOK, LockHeld
  <2>2. \E c \in Commands : RemoveStale(c)
    BY <2>1 DEF Next, DaemonStep, Fault, AcquireLock, LockTaken, Serve, Shutdown,
       Unlock, Exit, FailEarly, FailLate, Crash, StartForeground, Born,
       Begin, CommandStep, ReadPid, Probe, Spawn, SignalTerm, TimeOut
  <2>3. PICK c \in Commands : RemoveStale(c)
    BY <2>2
  <2>4. cmd[c] \in Command /\ cmd[c].step = "remove"
    BY <2>3 DEF RemoveStale, IInv, TypeOK
  <2>5. cmd'[c].step # "remove"
    BY <2>3, <2>4 DEF RemoveStale, StatusSays, Return, Goto, Idle, IInv, TypeOK, Command
  <2> QED  BY <2>4, <2>5
<1> QED  BY <1>1, Invariant, PTL DEF Spec, OnlyStatusHides

=============================================================================
