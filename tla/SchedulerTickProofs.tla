------------------------- MODULE SchedulerTickProofs ------------------------
(***************************************************************************)
(* Safety of SchedulerTick, for any number of teams, slots and errors.  It *)
(* counts: the semaphore counts the turns that hold a slot, the wait group *)
(* those that have not ended.                                              *)
(***************************************************************************)
EXTENDS SchedulerTick, FiniteSetTheorems, TLAPS

Holders == {g \in Turns : phase[g] \in Holding}
Live == {g \in Turns : phase[g] # "none"}

Counted == slots = Cardinality(Holders) /\ joining = Cardinality(Live)

(* A goroutine that exists belongs to a team.                              *)
Owned == \A g \in Turns : phase[g] # "none" => of[g] \in Teams

(* No team that is still to be visited, or that waits for a slot, has a    *)
(* turn; and none has one between two ticks.                               *)
Joined ==
  /\ loop \in {"visiting", "acquiring"} => \A g \in Live : of[g] \notin left
  /\ loop = "acquiring" => /\ team \in Teams \ left
                           /\ \A g \in Live : of[g] # team
  /\ loop \in {"waiting", "stopped"} => Live = {}

IInv == TypeOK /\ Counted /\ Owned /\ OneTurnPerTeam /\ Joined

-----------------------------------------------------------------------------
LEMMA FiniteTurns ==
  ASSUME NEW S \in SUBSET Turns
  PROVE  IsFiniteSet(S) /\ Cardinality(S) \in Nat
BY TickAssumption, FS_Subset, FS_CardinalityType

LEMMA OneMore ==
  ASSUME NEW S \in SUBSET Turns, NEW g \in Turns \ S
  PROVE  Cardinality(S \cup {g}) = Cardinality(S) + 1
BY FiniteTurns, FS_AddElement

LEMMA OneLess ==
  ASSUME NEW S \in SUBSET Turns, NEW g \in S
  PROVE  Cardinality(S \ {g}) = Cardinality(S) - 1
BY FiniteTurns, FS_RemoveElement

LEMMA InitIInv == Init => IInv
<1> SUFFICES ASSUME Init PROVE IInv
  OBVIOUS
<1>1. Holders = {} /\ Live = {}
  BY DEF Init, Holders, Live, Holding
<1>2. Counted
  BY <1>1, FS_EmptySet DEF Init, Counted
<1>3. TypeOK
  <2>1. ticked \in BOOLEAN /\ cancelled \in BOOLEAN
    BY DEF Init
  <2>2. slots \in 0..MaxConcurrent /\ joining \in Nat /\ errors \in 0..MaxErrors
    BY TickAssumption DEF Init
  <2>3. of \in [Turns -> Teams \cup {NoTeam}] /\ phase \in [Turns -> Phases]
    BY DEF Init, Phases
  <2> QED  BY <2>1, <2>2, <2>3 DEF Init, TypeOK
<1>4. Owned /\ OneTurnPerTeam /\ Joined
  BY <1>1 DEF Init, Owned, OneTurnPerTeam, Joined
<1> QED  BY <1>2, <1>3, <1>4 DEF IInv

(* A step that leaves the goroutines alone.                                *)
LEMMA QuietKeeps ==
  ASSUME IInv, UNCHANGED <<of, phase, slots, joining>>
  PROVE  Counted' /\ Owned' /\ OneTurnPerTeam' /\ Live' = Live
BY DEF IInv, Counted, Owned, OneTurnPerTeam, Holders, Live

LEMMA LoopKeeps ==
  ASSUME IInv, ListTeams \/ Stop \/ (\E t \in Teams : Visit(t)) \/ GiveUp \/ Join
                \/ Tick \/ Cancel
                \/ (\E t \in Teams : TaskChanges(t) \/ CreateAgent(t))
  PROVE  IInv'
<1>1. UNCHANGED <<of, phase, slots, joining>>
  BY DEF ListTeams, Stop, Visit, GiveUp, Join, Tick, Cancel, TaskChanges,
         CreateAgent, rows
<1>2. TypeOK'
  <2>1. /\ loop' \in {"waiting", "visiting", "acquiring", "stopped"}
        /\ left' \subseteq Teams /\ team' \in Teams \cup {NoTeam}
        /\ oldest' \in [Teams -> Oldest] /\ moved' \subseteq Teams /\ staffed' \subseteq Teams
    BY DEF IInv, TypeOK, ListTeams, Stop, Visit, GiveUp, Join, Tick, Cancel, TaskChanges,
         CreateAgent, rows
  <2>2. ticked' \in BOOLEAN /\ cancelled' \in BOOLEAN
    BY DEF IInv, TypeOK, ListTeams, Stop, Visit, GiveUp, Join, Tick, Cancel, TaskChanges,
         CreateAgent, rows
  <2>3. errors' \in 0..MaxErrors
    BY TickAssumption
       DEF IInv, TypeOK, ListTeams, Stop, Visit, GiveUp, Join, Tick, Cancel,
       TaskChanges, CreateAgent, QueryFails, QueryWorks
  <2> QED  BY <1>1, <2>1, <2>2, <2>3 DEF IInv, TypeOK
<1>3. Joined'
  <2>1. CASE ListTeams
    BY <1>1, <2>1, QuietKeeps DEF IInv, Joined, ListTeams
  <2>2. CASE Stop \/ Tick \/ Cancel \/ (\E t \in Teams : TaskChanges(t) \/ CreateAgent(t))
    BY <1>1, <2>2, QuietKeeps DEF IInv, Joined, Stop, Tick, Cancel, TaskChanges,
         CreateAgent, rows
  <2>3. CASE \E t \in Teams : Visit(t)
    BY <1>1, <2>3, QuietKeeps DEF IInv, Joined, Visit
  <2>4. CASE GiveUp
    BY <1>1, <2>4, QuietKeeps DEF IInv, Joined, GiveUp
  <2>5. CASE Join
    <3>1. Cardinality(Live) = 0
      BY <2>5 DEF Join, IInv, Counted
    <3>2. Live = {}
      BY <3>1, FiniteTurns, FS_EmptySet DEF Live
    <3> QED  BY <1>1, <2>5, <3>2, QuietKeeps DEF Joined, Join
  <2> QED  BY <2>1, <2>2, <2>3, <2>4, <2>5
<1> QED  BY <1>1, <1>2, <1>3, QuietKeeps DEF IInv

(* The loop gives a slot and a goroutine to a team that has none.          *)
LEMMA AcquireKeeps ==
  ASSUME IInv, Acquire
  PROVE  IInv'
<1> DEFINE g == NewTurn
<1>1. g \in Turns /\ phase[g] = "none"
  BY DEF Acquire, Go, NewTurn
<1>2. /\ phase' = [phase EXCEPT ![g] = "claiming"]
      /\ of' = [of EXCEPT ![g] = team]
      /\ team \in Teams /\ UNCHANGED left
  BY DEF Acquire, Go, IInv, Joined
<1> HIDE DEF g
<1>3. Holders' = Holders \cup {g} /\ g \notin Holders
  BY <1>1, <1>2 DEF Holders, Holding, IInv, TypeOK
<1>4. Live' = Live \cup {g} /\ g \notin Live
  BY <1>1, <1>2 DEF Live, IInv, TypeOK
<1>5. Counted'
  <2>1. Cardinality(Holders') = Cardinality(Holders) + 1
    BY <1>1, <1>3, OneMore DEF Holders
  <2>2. Cardinality(Live') = Cardinality(Live) + 1
    BY <1>1, <1>4, OneMore DEF Live
  <2> QED  BY <2>1, <2>2 DEF Acquire, IInv, Counted
<1>6. TypeOK'
  BY <1>1, <1>2, TickAssumption DEF Acquire, rows, IInv, TypeOK, Phases
<1>7. Owned' /\ OneTurnPerTeam' /\ Joined'
  BY <1>1, <1>2, <1>4, TickAssumption
     DEF Acquire, IInv, TypeOK, Owned, OneTurnPerTeam, Joined, Live
<1> QED  BY <1>5, <1>6, <1>7 DEF IInv

(* A turn goes on; nothing but its own phase, and at its end its team and  *)
(* the two counters, changes.                                              *)
LEMMA TurnKeeps ==
  ASSUME IInv, NEW g \in Turns, TurnStep(g)
  PROVE  IInv'
<1> USE DEF IInv, TypeOK, Phases
<1>1. UNCHANGED <<loop, left, team, ticked, cancelled>>
  BY DEF TurnStep, Claim, ClaimLost, Work, Release, Done
<1>2. /\ phase[g] # "none" /\ phase' \in [Turns -> Phases]
      /\ \A h \in Turns \ {g} : phase'[h] = phase[h] /\ of'[h] = of[h]
      /\ of' \in [Turns -> Teams \cup {NoTeam}]
      /\ phase'[g] # "none" => of'[g] = of[g]
  BY DEF TurnStep, Claim, ClaimLost, Work, Release, Done, To
<1>3. Live' \subseteq Live /\ \A h \in Live' : of'[h] = of[h]
  BY <1>2 DEF Live
<1>4. Owned' /\ OneTurnPerTeam' /\ Joined'
  BY <1>1, <1>2, <1>3 DEF Owned, OneTurnPerTeam, Joined, Live
<1>5. Counted' /\ slots' \in 0..MaxConcurrent /\ joining' \in Nat
  <2>1. CASE Claim(g) \/ ClaimLost(g) \/ Work(g)
    <3>1. UNCHANGED <<slots, joining>>
      BY <2>1 DEF Claim, ClaimLost, Work
    <3>2. Holders' = Holders /\ Live' = Live
      BY <2>1 DEF Claim, ClaimLost, Work, To, Holders, Live, Holding
    <3> QED  BY <3>1, <3>2 DEF Counted
  <2>2. CASE Release(g)
    <3>1. Holders' = Holders \ {g} /\ g \in Holders /\ Live' = Live
      BY <2>2 DEF Release, To, Holders, Live, Holding
    <3>2. Cardinality(Holders') = Cardinality(Holders) - 1 /\ Cardinality(Holders') \in Nat
      BY <3>1, OneLess, FiniteTurns DEF Holders
    <3> QED  BY <2>2, <3>1, <3>2, TickAssumption DEF Release, Counted
  <2>3. CASE Done(g)
    <3>1. Live' = Live \ {g} /\ g \in Live /\ Holders' = Holders
      BY <2>3 DEF Done, To, Holders, Live, Holding
    <3>2. Cardinality(Live') = Cardinality(Live) - 1 /\ Cardinality(Live') \in Nat
      BY <3>1, OneLess, FiniteTurns DEF Live
    <3> QED  BY <2>3, <3>1, <3>2 DEF Done, Counted
  <2> QED  BY <2>1, <2>2, <2>3 DEF TurnStep
<1>6. errors' \in 0..MaxErrors
  BY TickAssumption DEF TurnStep, Claim, ClaimLost, Work, Release, Done, QueryFails, QueryWorks
<1>7. oldest' \in [Teams -> Oldest] /\ moved' \subseteq Teams /\ staffed' \subseteq Teams
  <2>1. CASE Claim(g)
    BY <2>1 DEF Claim, Oldest
  <2>2. CASE ClaimLost(g) \/ Work(g) \/ Release(g) \/ Done(g)
    BY <2>2 DEF ClaimLost, Work, Release, Done, rows
  <2> QED  BY <2>1, <2>2 DEF TurnStep
<1> QED  BY <1>1, <1>2, <1>4, <1>5, <1>6, <1>7

LEMMA NextIInv == IInv /\ [Next]_vars => IInv'
<1> SUFFICES ASSUME IInv, [Next]_vars  PROVE IInv'
  OBVIOUS
<1>1. CASE UNCHANGED vars
  BY <1>1, QuietKeeps DEF vars, IInv, TypeOK, Joined
<1>2. CASE Next
  BY <1>2, LoopKeeps, AcquireKeeps, TurnKeeps DEF Next, LoopStep
<1> QED  BY <1>1, <1>2

LEMMA Invariant == Spec => []IInv
BY InitIInv, NextIInv, PTL DEF Spec

-----------------------------------------------------------------------------
(* Every reachable state is of its type; in particular the semaphore is    *)
(* never released more often than it was taken.                            *)
THEOREM TypeCorrect == Spec => []TypeOK
<1>1. IInv => TypeOK
  BY DEF IInv
<1> QED  BY <1>1, Invariant, PTL

(* A daemon has at most one turn of each team in flight.                   *)
THEOREM TeamsTakeTurns == Spec => []OneTurnPerTeam
<1>1. IInv => OneTurnPerTeam
  BY DEF IInv
<1> QED  BY <1>1, Invariant, PTL

(* At most MaxConcurrent turns run, whatever the number of teams.          *)
THEOREM TurnsAreBounded == Spec => []MaxTurns
<1>1. IInv => MaxTurns
  <2> SUFFICES ASSUME IInv PROVE MaxTurns
    OBVIOUS
  <2> DEFINE Working == {g \in Turns : phase[g] = "working"}
  <2>1. Working \subseteq Holders /\ Holders \in SUBSET Turns
    BY DEF Holders, Holding
  <2>2. Cardinality(Working) <= Cardinality(Holders)
    BY <2>1, FiniteTurns, FS_Subset
  <2>3. Cardinality(Holders) \in Nat /\ Cardinality(Working) \in Nat
    BY <2>1, FiniteTurns
  <2> QED  BY <2>2, <2>3, TickAssumption DEF MaxTurns, IInv, TypeOK, Counted
<1> QED  BY <1>1, Invariant, PTL

=============================================================================
