--------------------------- MODULE ManagerProofs ----------------------------
(***************************************************************************)
(* Safety of Manager for every number of tasks, messages, operations and   *)
(* faults, every size of the channel and of a batch.                       *)
(*                                                                         *)
(* Most of it is counting: what the hub does to the announcements that     *)
(* wait in the channel, and what a list of messages in order is.           *)
(***************************************************************************)
EXTENDS Manager, FiniteSetTheorems, SequenceTheorems, TLAPS

LEMMA Numbers ==
  /\ \A i \in Tasks : i \in Nat /\ i # NoTask
  /\ Messages \subseteq Nat /\ Tasks \subseteq Nat
  /\ IsFiniteSet(Messages) /\ IsFiniteSet(Tasks)
<1>1. IsFiniteSet(1..MaxTasks) /\ IsFiniteSet(1..MaxMessages)
  <2>1. MaxTasks \in Int /\ MaxMessages \in Int  BY ManagerAssumption
  <2> QED  BY <2>1, FS_Interval
<1> QED  BY <1>1, ManagerAssumption DEF Tasks, Messages

-----------------------------------------------------------------------------
(* Lists in order.                                                         *)

(* How many of S come up to m numbers the members of S from 1.             *)
Ranks(S) == [m \in S |-> Cardinality({k \in S : k <= m})]

LEMMA Ranking ==
  ASSUME NEW S \in SUBSET Nat, IsFiniteSet(S)
  PROVE  Ranks(S) \in Bijection(S, 1..Cardinality(S))
<1> DEFINE UpTo(m) == {k \in S : k <= m}
<1>1. Cardinality(S) \in Nat  BY FS_CardinalityType
<1>2. ASSUME NEW m \in S PROVE Cardinality(UpTo(m)) \in 1..Cardinality(S)
  <2>1. UpTo(m) \in SUBSET S /\ UpTo(m) # {}  OBVIOUS
  <2>2. IsFiniteSet(UpTo(m)) /\ Cardinality(UpTo(m)) <= Cardinality(S)
    BY <2>1, FS_Subset
  <2>3. Cardinality(UpTo(m)) \in Nat  BY <2>2, FS_CardinalityType
  <2>4. Cardinality(UpTo(m)) # 0  BY <2>1, <2>2, FS_EmptySet
  <2> QED  BY <1>1, <2>2, <2>3, <2>4
<1>3. ASSUME NEW m \in S, NEW n \in S, m < n
      PROVE  Cardinality(UpTo(m)) # Cardinality(UpTo(n))
  <2>1. UpTo(m) \in SUBSET UpTo(n)
    <3>1. \A k \in S : k <= m => k <= n  BY <1>3
    <3> QED  BY <3>1
  <2>2. n \in UpTo(n) /\ n \notin UpTo(m)  BY <1>3
  <2>3. IsFiniteSet(UpTo(n))  BY FS_Subset
  <2> HIDE DEF UpTo
  <2> QED  BY <2>1, <2>2, <2>3, FS_Subset
<1>4. Ranks(S) \in [S -> 1..Cardinality(S)]  BY <1>2 DEF Ranks
<1>5. ASSUME NEW m \in S, NEW n \in S, Ranks(S)[m] = Ranks(S)[n] PROVE m = n
  <2>1. ~(m < n) /\ ~(n < m)  BY <1>3, <1>5 DEF Ranks
  <2> QED  BY <2>1
<1>6. Ranks(S) \in Injection(S, 1..Cardinality(S))
  BY <1>4, <1>5 DEF Injection, IsInjective
<1>7. IsFiniteSet(1..Cardinality(S)) /\ Cardinality(1..Cardinality(S)) = Cardinality(S)
  BY <1>1, FS_Interval
<1>8. Ranks(S) \in Surjection(S, 1..Cardinality(S))
  BY <1>6, <1>7, FS_Injection
<1> QED  BY <1>6, <1>8 DEF Bijection

LEMMA EveryRank ==
  ASSUME NEW S \in SUBSET Nat, IsFiniteSet(S)
  PROVE  \A n \in 1..Cardinality(S) : \E m \in S : Cardinality({k \in S : k <= m}) = n
<1>1. Ranks(S) \in Surjection(S, 1..Cardinality(S))  BY Ranking DEF Bijection
<1>2. \A n \in 1..Cardinality(S) : \E m \in S : Ranks(S)[m] = n
  BY <1>1 DEF Surjection
<1> QED  BY <1>2 DEF Ranks

(* Oldest lists members of S, each once, and lists some.                   *)
LEMMA OldestLists ==
  ASSUME NEW S \in SUBSET Messages, NEW n \in Nat \ {0}
  PROVE  /\ Oldest(S, n) \in Seq(S)
         /\ \A i, j \in DOMAIN Oldest(S, n) : Oldest(S, n)[i] = Oldest(S, n)[j] => i = j
         /\ S # {} => Oldest(S, n) # <<>>
<1> DEFINE Before(m) == Cardinality({k \in S : k <= m})
           size == IF Cardinality(S) <= n THEN Cardinality(S) ELSE n
<1>1. IsFiniteSet(S) /\ S \in SUBSET Nat  BY Numbers, FS_Subset
<1>2. Cardinality(S) \in Nat  BY <1>1, FS_CardinalityType
<1>3. size \in Nat /\ size <= Cardinality(S)  BY <1>2
<1>4. \A k \in 1..Cardinality(S) : \E m \in S : Before(m) = k
  BY <1>1, EveryRank
<1>5. \A k \in 1..size : \E m \in S : Before(m) = k  BY <1>2, <1>3, <1>4
<1> DEFINE f == [k \in 1..size |-> CHOOSE m \in S : Before(m) = k]
<1>6. Oldest(S, n) = f  BY DEF Oldest
<1>7. \A k \in 1..size : f[k] \in S /\ Before(f[k]) = k
  <2> HIDE DEF size, Before
  <2> QED  BY <1>5
<1>8. S # {} => size # 0  BY <1>1, <1>2, FS_EmptySet
<1> HIDE DEF size, Before
<1>9. f \in [1..size -> S]  BY <1>7
<1>10. \A i, j \in 1..size : f[i] = f[j] => i = j  BY <1>7
<1>11. DOMAIN f = 1..size  OBVIOUS
<1> HIDE DEF f
<1>12. f \in Seq(S) /\ Len(f) = size  BY <1>3, <1>9
<1> QED  BY <1>3, <1>6, <1>8, <1>10, <1>11, <1>12

(* The least of some tasks or messages is one of them.                     *)
LEMMA FirstIn ==
  ASSUME NEW S \in SUBSET Nat, IsFiniteSet(S), S # {}
  PROVE  First(S) \in S
<1>1. Cardinality(S) \in Nat /\ Cardinality(S) # 0
  BY FS_CardinalityType, FS_EmptySet
<1>2. PICK m \in S : Cardinality({k \in S : k <= m}) = 1
  BY <1>1, EveryRank
<1>3. IsFiniteSet({k \in S : k <= m})  BY FS_Subset
<1>4. PICK x : {k \in S : k <= m} = {x}  BY <1>2, <1>3, FS_Singleton
<1>5. \A j \in S : m <= j
  <2>1. m \in {k \in S : k <= m}  OBVIOUS
  <2> SUFFICES ASSUME NEW j \in S, j < m PROVE FALSE  OBVIOUS
  <2>2. j \in {k \in S : k <= m}  OBVIOUS
  <2> QED  BY <1>4, <2>1, <2>2
<1> QED  BY <1>5 DEF First

-----------------------------------------------------------------------------
(* The hub.                                                                *)

WaitingIn(q, i) == Cardinality({k \in DOMAIN q : q[k] = Done(i)})

(* PublishJSON appends what fits.                                          *)
LEMMA PublishOne ==
  ASSUME NEW q \in Seq(Event), Len(q) <= Cap, NEW e \in Event
  PROVE  PublishJSON(q, <<e>>) = IF Len(q) < Cap THEN Append(q, e) ELSE q
<1>1. Len(q) \in Nat /\ Cap \in Nat /\ Len(<<e>>) = 1 /\ <<e>> \in Seq(Event)
  BY ManagerAssumption
<1>2. CASE Len(q) < Cap
  <2>1. Len(<<e>>) <= Cap - Len(q)  BY <1>1, <1>2
  <2>2. SubSeq(<<e>>, 1, 1) = <<e>>  BY <1>1, SubSeqFull
  <2>3. PublishJSON(q, <<e>>) = q \o <<e>>  BY <1>1, <2>1, <2>2 DEF PublishJSON
  <2> QED  BY <1>2, <2>3, AppendIsConcat
<1>3. CASE Len(q) = Cap
  <2>1. ~(Len(<<e>>) <= Cap - Len(q)) /\ Cap - Len(q) = 0  BY <1>1, <1>3
  <2>2. SubSeq(<<e>>, 1, 0) = <<>>  BY SubSeqEmpty
  <2>3. PublishJSON(q, <<e>>) = q \o <<>>  BY <2>1, <2>2 DEF PublishJSON
  <2> QED  BY <1>1, <1>3, <2>3, ConcatEmptySeq
<1> QED  BY <1>1, <1>2, <1>3

LEMMA PublishTwo ==
  ASSUME NEW q \in Seq(Event), Len(q) <= Cap, NEW e \in Event
  PROVE  PublishJSON(q, <<e, e>>) = PublishJSON(PublishJSON(q, <<e>>), <<e>>)
<1>1. Len(q) \in Nat /\ Cap \in Nat  BY ManagerAssumption
<1> DEFINE two == <<e, e>>
<1>2. two \in Seq(Event) /\ Len(two) = 2 /\ two[1] = e /\ two[2] = e  OBVIOUS
<1>3. PICK a \in Seq(Event) : a = Append(q, e) /\ Len(a) = Len(q) + 1
  BY AppendProperties
<1>4. CASE Len(q) = Cap
  <2>1. ~(Len(two) <= Cap - Len(q)) /\ Cap - Len(q) = 0  BY <1>1, <1>2, <1>4
  <2>2. SubSeq(two, 1, 0) = <<>>  BY SubSeqEmpty
  <2>3. PublishJSON(q, two) = q \o <<>>  BY <2>1, <2>2 DEF PublishJSON
  <2> QED  BY <1>1, <1>4, <2>3, ConcatEmptySeq, PublishOne
<1>5. CASE Len(q) + 1 = Cap
  <2>1. ~(Len(two) <= Cap - Len(q)) /\ Cap - Len(q) = 1  BY <1>1, <1>2, <1>5
  <2>2. SubSeq(two, 1, 1) = <<e>>
    <3>1. SubSeq(two, 1, 1) \in Seq(Event) /\ Len(SubSeq(two, 1, 1)) = 1
          /\ SubSeq(two, 1, 1)[1] = e
      BY <1>2
    <3>2. <<e>> \in Seq(Event) /\ Len(<<e>>) = 1 /\ <<e>>[1] = e  OBVIOUS
    <3>3. \A k \in 1..1 : SubSeq(two, 1, 1)[k] = <<e>>[k]  BY <3>1, <3>2
    <3> QED  BY <3>1, <3>2, <3>3, SeqEqual
  <2>3. PublishJSON(q, two) = q \o <<e>>  BY <2>1, <2>2 DEF PublishJSON
  <2>4. PublishJSON(q, <<e>>) = Append(q, e)  BY <1>1, <1>5, PublishOne
  <2>5. PublishJSON(a, <<e>>) = a
    <3>1. Len(a) <= Cap /\ ~(Len(a) < Cap)  BY <1>1, <1>3, <1>5
    <3> QED  BY <3>1, PublishOne
  <2> QED  BY <1>3, <2>3, <2>4, <2>5, AppendIsConcat
<1>6. CASE Len(q) + 1 < Cap
  <2>1. Len(two) <= Cap - Len(q)  BY <1>1, <1>2, <1>6
  <2>2. SubSeq(two, 1, 2) = two  BY <1>2, SubSeqFull
  <2>3. PublishJSON(q, two) = q \o two  BY <1>2, <2>1, <2>2 DEF PublishJSON
  <2>4. PublishJSON(q, <<e>>) = Append(q, e)  BY <1>1, <1>6, PublishOne
  <2>5. PublishJSON(a, <<e>>) = Append(a, e)
    <3>1. Len(a) <= Cap /\ Len(a) < Cap  BY <1>1, <1>3, <1>6
    <3> QED  BY <3>1, PublishOne
  <2>6. q \o two = Append(a, e)  BY <1>2, <1>3
  <2> QED  BY <1>3, <2>3, <2>4, <2>5, <2>6
<1> HIDE DEF two
<1> QED  BY <1>1, <1>4, <1>5, <1>6 DEF two

LEMMA WaitingAppend ==
  ASSUME NEW q \in Seq(Event), NEW e \in Event, NEW i \in Tasks
  PROVE  /\ WaitingIn(q, i) \in Nat
         /\ WaitingIn(Append(q, e), i) =
              IF e = Done(i) THEN WaitingIn(q, i) + 1 ELSE WaitingIn(q, i)
<1> DEFINE S == {k \in 1..Len(q) : q[k] = Done(i)}
<1>1. Len(q) \in Nat  OBVIOUS
<1>2. IsFiniteSet(S)
  <2>1. Len(q) \in Int /\ S \in SUBSET (1..Len(q))  BY <1>1
  <2>2. IsFiniteSet(1..Len(q))  BY <2>1, FS_Interval
  <2> QED  BY <2>1, <2>2, FS_Subset
<1>3. Cardinality(S) \in Nat  BY <1>2, FS_CardinalityType
<1>4. /\ DOMAIN q = 1..Len(q) /\ DOMAIN Append(q, e) = 1..(Len(q) + 1)
      /\ \A k \in 1..Len(q) : Append(q, e)[k] = q[k]
      /\ Append(q, e)[Len(q) + 1] = e
  BY AppendProperties, LenProperties
<1>5. {k \in DOMAIN Append(q, e) : Append(q, e)[k] = Done(i)} =
        IF e = Done(i) THEN S \cup {Len(q) + 1} ELSE S
  BY <1>1, <1>4
<1>6. Len(q) + 1 \notin S  BY <1>1
<1>7. WaitingIn(q, i) = Cardinality(S)  BY <1>4 DEF WaitingIn
<1> HIDE DEF S
<1>8. Cardinality(S \cup {Len(q) + 1}) = Cardinality(S) + 1
  BY <1>2, <1>6, FS_AddElement
<1> QED  BY <1>3, <1>5, <1>7, <1>8 DEF WaitingIn

LEMMA WaitingTail ==
  ASSUME NEW q \in Seq(Event), q # <<>>, NEW i \in Tasks
  PROVE  WaitingIn(q, i) = IF Head(q) = Done(i) THEN WaitingIn(Tail(q), i) + 1
                           ELSE WaitingIn(Tail(q), i)
<1> DEFINE t == Tail(q)
           S == {k \in 1..Len(t) : t[k] = Done(i)}
           T == {k \in 2..Len(q) : q[k] = Done(i)}
<1>1. /\ Len(q) \in Nat /\ Len(q) > 0 /\ t \in Seq(Event) /\ Len(t) = Len(q) - 1
      /\ \A k \in 1..Len(t) : t[k] = q[k + 1]
      /\ DOMAIN q = 1..Len(q) /\ DOMAIN t = 1..Len(t) /\ Head(q) = q[1]
  BY HeadTailProperties, LenProperties, EmptySeq
<1> HIDE DEF t
<1>2. IsFiniteSet(S) /\ Cardinality(S) \in Nat
  <2>1. Len(t) \in Int /\ S \in SUBSET (1..Len(t))  BY <1>1
  <2>2. IsFiniteSet(1..Len(t))  BY <2>1, FS_Interval
  <2>3. IsFiniteSet(S)  BY <2>1, <2>2, FS_Subset
  <2> QED  BY <2>3, FS_CardinalityType
<1>3. [k \in S |-> k + 1] \in Bijection(S, T)
  <2> DEFINE f == [k \in S |-> k + 1]
  <2>1. f \in [S -> T]  BY <1>1
  <2>2. \A a, b \in S : f[a] = f[b] => a = b  BY <1>1
  <2>3. ASSUME NEW b \in T PROVE \E a \in S : f[a] = b
    <3>1. b - 1 \in S /\ f[b - 1] = b  BY <1>1
    <3> QED  BY <3>1
  <2> QED  BY <2>1, <2>2, <2>3 DEF Bijection, Injection, Surjection, IsInjective
<1>4. IsFiniteSet(T) /\ Cardinality(T) = Cardinality(S)
  BY <1>2, <1>3, FS_Bijection DEF ExistsBijection
<1>5. {k \in DOMAIN q : q[k] = Done(i)} = IF Head(q) = Done(i) THEN T \cup {1} ELSE T
  BY <1>1
<1>6. 1 \notin T  OBVIOUS
<1>7. WaitingIn(t, i) = Cardinality(S)  BY <1>1 DEF WaitingIn
<1> HIDE DEF S, T
<1>8. Cardinality(T \cup {1}) = Cardinality(T) + 1  BY <1>4, <1>6, FS_AddElement
<1> QED  BY <1>4, <1>5, <1>7, <1>8 DEF WaitingIn, t

-----------------------------------------------------------------------------
(* The invariant: the tasks and the channel, and the inbox.                *)

(* An announcement names a task.                                           *)
ChanOK(q) ==
  /\ q \in Seq(Event) /\ Len(q) <= Cap
  /\ \A k \in DOMAIN q : q[k].type = "done" => q[k].task \in Tasks

EventTypeOK ==
  /\ llm \in BOOLEAN /\ asking \in BOOLEAN
  /\ status \in [Tasks -> {"none", "open", "done"}]
  /\ about \in [Tasks -> Tasks \cup {NoTask}]
  /\ announcing \in [Tasks -> Nat]
  /\ announced \in [Tasks -> Nat] /\ lost \in [Tasks -> Nat]
  /\ ops \in 0..MaxOps

EventInv ==
  /\ EventTypeOK /\ ChanOK(chan)
  /\ asking => llm
  /\ \A j \in Tasks : status[j] = "none" => about[j] = NoTask
  /\ FollowUpsMatch

InboxTypeOK ==
  /\ msg \in [Messages -> Message]
  /\ inbox \in [batch : Seq(Messages), step : Steps]
  /\ handled \in [Messages -> Nat] /\ unsent \in [Messages -> Nat]
  /\ faults \in 0..MaxFaults

(* The loop has unread messages in hand, each once.                        *)
BatchOK ==
  /\ \A i, j \in DOMAIN inbox.batch : inbox.batch[i] = inbox.batch[j] => i = j
  /\ \A i \in DOMAIN inbox.batch : msg[inbox.batch[i]].state = "unread"

(* A message that has been answered but is not marked has cost a fault,    *)
(* unless the loop is about to mark it; an answer that was not inserted    *)
(* has cost one more.                                                      *)
InHand(m) == inbox.batch # <<>> /\ inbox.step = "mark" /\ Head(inbox.batch) = m
Tried(m) == handled[m] >= 1 \/ unsent[m] >= 1
Cost(m) == handled[m] + unsent[m] + unsent[m]
AnswerOK(m) ==
  /\ msg[m].state = "none" => Cost(m) = 0
  /\ msg[m].state = "unread" /\ ~InHand(m) => Cost(m) <= faults
  /\ InHand(m) => Tried(m) /\ Cost(m) <= 1 + faults
  /\ msg[m].state = "read" => Tried(m) /\ Cost(m) <= 1 + faults

InboxInv == InboxTypeOK /\ BatchOK /\ \A m \in Messages : AnswerOK(m)

IInv == EventInv /\ InboxInv

LEMMA Events ==
  /\ \A i \in Tasks : Done(i) \in Event /\ Done(i).type = "done" /\ Done(i).task = i
  /\ \A type \in {"update", "message", "silent"} :
       /\ Ev(type) \in Event /\ Ev(type).type = type
       /\ \A i \in Tasks : Ev(type) # Done(i)
BY DEF Event, Done, Ev

LEMMA WaitingType == \A q \in Seq(Event), i \in Tasks : WaitingIn(q, i) \in Nat
BY Events, WaitingAppend

LEMMA PublishOK ==
  ASSUME NEW q, ChanOK(q), NEW e \in Event, e.type = "done" => e.task \in Tasks
  PROVE  /\ ChanOK(PublishJSON(q, <<e>>))
         /\ \A i \in Tasks : WaitingIn(PublishJSON(q, <<e>>), i) =
              IF e = Done(i) /\ Len(q) < Cap THEN WaitingIn(q, i) + 1
              ELSE WaitingIn(q, i)
<1>1. q \in Seq(Event) /\ Len(q) <= Cap /\ Len(q) \in Nat /\ Cap \in Nat
  BY ManagerAssumption DEF ChanOK
<1>2. CASE Len(q) < Cap
  <2>1. PublishJSON(q, <<e>>) = Append(q, e)  BY <1>1, <1>2, PublishOne
  <2>2. /\ Append(q, e) \in Seq(Event) /\ Len(Append(q, e)) = Len(q) + 1
        /\ DOMAIN Append(q, e) = 1..(Len(q) + 1) /\ DOMAIN q = 1..Len(q)
        /\ \A k \in 1..Len(q) : Append(q, e)[k] = q[k]
        /\ Append(q, e)[Len(q) + 1] = e
    BY <1>1, AppendProperties, LenProperties
  <2>3. ChanOK(Append(q, e))
    <3>1. Len(Append(q, e)) <= Cap  BY <1>1, <1>2, <2>2
    <3>2. \A k \in 1..(Len(q) + 1) : k \in 1..Len(q) \/ k = Len(q) + 1  BY <1>1
    <3> QED  BY <2>2, <3>1, <3>2 DEF ChanOK
  <2>4. \A i \in Tasks : WaitingIn(Append(q, e), i) =
          IF e = Done(i) THEN WaitingIn(q, i) + 1 ELSE WaitingIn(q, i)
    BY <1>1, WaitingAppend
  <2> QED  BY <1>2, <2>1, <2>3, <2>4
<1>3. CASE ~(Len(q) < Cap)
  BY <1>1, <1>3, PublishOne
<1> QED  BY <1>2, <1>3

(* An event that is not an announcement leaves those that wait.            *)
LEMMA PublishOther ==
  ASSUME NEW q, ChanOK(q), NEW type \in {"update", "message", "silent"},
         NEW events \in {<<Ev(type)>>, <<Ev(type), Ev(type)>>}
  PROVE  /\ ChanOK(PublishJSON(q, events))
         /\ \A i \in Tasks : WaitingIn(PublishJSON(q, events), i) = WaitingIn(q, i)
<1>1. Ev(type) \in Event /\ Ev(type).type # "done" /\ \A i \in Tasks : Ev(type) # Done(i)
  BY Events
<1> DEFINE p == PublishJSON(q, <<Ev(type)>>)
<1>2. ChanOK(p) /\ \A i \in Tasks : WaitingIn(p, i) = WaitingIn(q, i)
  BY <1>1, PublishOK
<1>3. /\ ChanOK(PublishJSON(p, <<Ev(type)>>))
      /\ \A i \in Tasks : WaitingIn(PublishJSON(p, <<Ev(type)>>), i) = WaitingIn(p, i)
  <2> HIDE DEF p
  <2> QED  BY <1>1, <1>2, PublishOK
<1>4. PublishJSON(q, <<Ev(type), Ev(type)>>) = PublishJSON(p, <<Ev(type)>>)
  BY <1>1, PublishTwo DEF ChanOK
<1> QED  BY <1>2, <1>3, <1>4

LEMMA TailOK ==
  ASSUME NEW q, ChanOK(q), q # <<>>
  PROVE  /\ ChanOK(Tail(q)) /\ Head(q) \in Event
         /\ Head(q).type = "done" => Head(q).task \in Tasks /\ Head(q) = Done(Head(q).task)
         /\ \A i \in Tasks : WaitingIn(q, i) =
              IF Head(q) = Done(i) THEN WaitingIn(Tail(q), i) + 1
              ELSE WaitingIn(Tail(q), i)
<1>1. /\ q \in Seq(Event) /\ Tail(q) \in Seq(Event) /\ Len(Tail(q)) = Len(q) - 1
      /\ Len(q) \in Nat /\ Cap \in Nat /\ Len(q) > 0 /\ Len(q) <= Cap
      /\ DOMAIN q = 1..Len(q) /\ DOMAIN Tail(q) = 1..Len(Tail(q))
      /\ \A k \in 1..Len(Tail(q)) : Tail(q)[k] = q[k + 1]
      /\ Head(q) = q[1] /\ Head(q) \in Event
  BY HeadTailProperties, LenProperties, EmptySeq, ManagerAssumption DEF ChanOK
<1>2. ChanOK(Tail(q))
  <2>1. Len(Tail(q)) <= Cap  BY <1>1
  <2>2. \A k \in 1..Len(Tail(q)) : k + 1 \in 1..Len(q)  BY <1>1
  <2> QED  BY <1>1, <2>1, <2>2 DEF ChanOK
<1>3. 1 \in DOMAIN q  BY <1>1
<1>4. Head(q).type = "done" => Head(q).task \in Tasks /\ Head(q) = Done(Head(q).task)
  BY <1>1, <1>3 DEF ChanOK, Event, Done
<1> QED  BY <1>1, <1>2, <1>4, WaitingTail

-----------------------------------------------------------------------------
(* The counts that FollowUpsMatch relates.                                 *)

LEMMA FollowUpsType ==
  ASSUME EventTypeOK, NEW i \in Tasks
  PROVE  FollowUps(i) \in Nat /\ Waiting(i) = WaitingIn(chan, i)
<1>1. IsFiniteSet({j \in Tasks : about[j] = i})  BY Numbers, FS_Subset
<1>2. FollowUps(i) \in Nat  BY <1>1, FS_CardinalityType DEF FollowUps
<1> QED  BY <1>2 DEF Waiting, WaitingIn

(* A new task is the follow-up of at most one.                             *)
LEMMA OneMore ==
  ASSUME EventInv, NEW of \in Tasks \cup {NoTask}, CreateTask(of)
  PROVE  /\ status' \in [Tasks -> {"none", "open", "done"}]
         /\ about' \in [Tasks -> Tasks \cup {NoTask}]
         /\ \A j \in Tasks : status'[j] = "none" => about'[j] = NoTask
         /\ \A i \in Tasks : FollowUps(i)' =
              IF of = i THEN FollowUps(i) + 1 ELSE FollowUps(i)
<1> DEFINE f == First(FreeTask)
<1>1. f \in FreeTask
  <2>1. FreeTask \in SUBSET Nat /\ IsFiniteSet(FreeTask)
    BY Numbers, FS_Subset DEF FreeTask
  <2> QED  BY <2>1, FirstIn DEF CreateTask
<1>2. f \in Tasks /\ status[f] = "none" /\ about[f] = NoTask
  BY <1>1 DEF FreeTask, EventInv
<1>3. status' = [status EXCEPT ![f] = "open"] /\ about' = [about EXCEPT ![f] = of]
  BY DEF CreateTask
<1> HIDE DEF f
<1>4. ASSUME NEW i \in Tasks
      PROVE  FollowUps(i)' = IF of = i THEN FollowUps(i) + 1 ELSE FollowUps(i)
  <2> DEFINE S == {j \in Tasks : about[j] = i}
  <2>1. IsFiniteSet(S) /\ f \notin S  BY <1>2, Numbers, FS_Subset
  <2>2. {j \in Tasks : about'[j] = i} = IF of = i THEN S \cup {f} ELSE S
    BY <1>2, <1>3, Numbers DEF EventInv, EventTypeOK
  <2> HIDE DEF S
  <2>3. Cardinality(S \cup {f}) = Cardinality(S) + 1  BY <2>1, FS_AddElement
  <2> QED  BY <2>2, <2>3 DEF FollowUps, S
<1> QED  BY <1>2, <1>3, <1>4 DEF EventInv, EventTypeOK

-----------------------------------------------------------------------------
(* What leaves one half of the invariant alone.                            *)

LEMMA EventFrame ==
  ASSUME EventInv, UNCHANGED <<llm, asking, tables, announcing, chan, announced, lost>>,
         ops' \in 0..MaxOps
  PROVE  EventInv'
BY DEF EventInv, EventTypeOK, ChanOK, FollowUpsMatch, FollowUps, Pending, Waiting, tables

LEMMA InboxFrame ==
  ASSUME InboxInv, UNCHANGED <<msg, inbox, handled, unsent>>,
         faults' = faults \/ (faults < MaxFaults /\ faults' = faults + 1)
  PROVE  InboxInv'
<1>1. /\ faults \in Nat /\ faults' \in 0..MaxFaults /\ faults <= faults'
      /\ faults' \in Nat
  BY ManagerAssumption DEF InboxInv, InboxTypeOK
<1>2. \A m \in Messages : Cost(m) \in Nat  BY DEF InboxInv, InboxTypeOK, Cost
<1>3. InboxTypeOK' /\ BatchOK'  BY <1>1 DEF InboxInv, InboxTypeOK, BatchOK
<1>4. ASSUME NEW m \in Messages PROVE AnswerOK(m)'
  <2>1. InHand(m)' = InHand(m) /\ Cost(m)' = Cost(m) /\ Tried(m)' = Tried(m)
    BY DEF InHand, Cost, Tried
  <2> QED  BY <1>1, <1>2, <2>1 DEF InboxInv, AnswerOK
<1> QED  BY <1>3, <1>4 DEF InboxInv

(* The tasks and the counters as they are, and another channel in which    *)
(* as many announcements wait.                                             *)
LEMMA OnlyEvents ==
  ASSUME EventInv, ChanOK(chan'),
         ~llm => \A i \in Tasks : WaitingIn(chan', i) = WaitingIn(chan, i),
         ~llm => \A i \in Tasks : FollowUps(i)' = FollowUps(i),
         \A j \in Tasks : status'[j] = "none" => about'[j] = NoTask,
         EventTypeOK', asking' => llm, llm' = llm,
         UNCHANGED <<announcing, announced, lost>>
  PROVE  EventInv'
<1>1. ~llm => \A i \in Tasks : Pending(i)' = Pending(i)
  BY DEF Pending, Waiting, WaitingIn
<1>2. FollowUpsMatch'  BY <1>1 DEF EventInv, FollowUpsMatch
<1> QED  BY <1>2 DEF EventInv

-----------------------------------------------------------------------------
(* Tasks that become done.                                                 *)

LEMMA FinishStep ==
  ASSUME IInv, NEW i \in Tasks, Finish(i)
  PROVE  IInv'
<1> USE DEF IInv
<1>1. InboxInv'  BY InboxFrame DEF Finish
<1>2. /\ EventTypeOK' /\ ops \in Nat /\ announcing[i] \in Nat /\ announced[i] \in Nat
  BY ManagerAssumption DEF EventInv, EventTypeOK, Finish
<1>3. \A j \in Tasks : status'[j] = "none" => about'[j] = NoTask
  BY DEF EventInv, EventTypeOK, Finish
<1>4. ASSUME ~llm, NEW j \in Tasks
      PROVE  announced'[j] = FollowUps(j)' + lost'[j] + Pending(j)'
  <2>1. FollowUps(j)' = FollowUps(j) /\ Waiting(j)' = Waiting(j) /\ lost'[j] = lost[j]
    BY DEF Finish, FollowUps, Waiting
  <2>2. /\ FollowUps(j) \in Nat /\ Waiting(j) \in Nat /\ lost[j] \in Nat
        /\ announcing[j] \in Nat /\ announced[j] \in Nat
    BY FollowUpsType, WaitingType DEF EventInv, EventTypeOK, ChanOK
  <2>3. announced[j] = FollowUps(j) + lost[j] + Waiting(j) + announcing[j]
    BY <1>4, <2>2 DEF EventInv, FollowUpsMatch, Pending
  <2>4. \/ announced'[j] = announced[j] /\ announcing'[j] = announcing[j]
        \/ announced'[j] = announced[j] + 1 /\ announcing'[j] = announcing[j] + 1
    BY DEF Finish, EventInv, EventTypeOK
  <2> QED  BY <2>1, <2>2, <2>3, <2>4 DEF Pending
<1>5. FollowUpsMatch'  BY <1>4 DEF FollowUpsMatch, Finish
<1>6. ChanOK(chan')  BY DEF Finish, EventInv
<1> QED  BY <1>1, <1>2, <1>3, <1>5, <1>6 DEF EventInv, Finish

LEMMA AnnounceStep ==
  ASSUME IInv, NEW i \in Tasks, Announce(i)
  PROVE  IInv'
<1> USE DEF IInv
<1>1. InboxInv'  BY InboxFrame DEF Announce
<1>2. /\ ChanOK(chan) /\ Done(i) \in Event /\ Done(i).task \in Tasks
  BY Events DEF EventInv
<1>3. /\ ChanOK(chan')
      /\ \A j \in Tasks : WaitingIn(chan', j) =
           IF Done(i) = Done(j) /\ Len(chan) < Cap THEN WaitingIn(chan, j) + 1
           ELSE WaitingIn(chan, j)
  BY <1>2, PublishOK DEF Announce
<1>4. announcing[i] \in Nat /\ announcing[i] > 0 /\ lost[i] \in Nat
  BY DEF EventInv, EventTypeOK, Announce
<1>5. EventTypeOK'  BY <1>4 DEF EventInv, EventTypeOK, Announce, tables
<1>6. ASSUME ~llm, NEW j \in Tasks
      PROVE  announced'[j] = FollowUps(j)' + lost'[j] + Pending(j)'
  <2>1. /\ FollowUps(j)' = FollowUps(j) /\ announced'[j] = announced[j]
        /\ Waiting(j)' = WaitingIn(chan', j)
    BY DEF Announce, FollowUps, Waiting, WaitingIn, tables
  <2>2. /\ FollowUps(j) \in Nat /\ Waiting(j) \in Nat /\ lost[j] \in Nat
        /\ announcing[j] \in Nat /\ announced[j] \in Nat
        /\ Waiting(j) = WaitingIn(chan, j)
    BY FollowUpsType, WaitingType DEF EventInv, EventTypeOK, ChanOK
  <2>3. announced[j] = FollowUps(j) + lost[j] + Waiting(j) + announcing[j]
    BY <1>6, <2>2 DEF EventInv, FollowUpsMatch, Pending
  <2>4. CASE j = i
    <3>1. announcing'[j] = announcing[j] - 1
      BY <2>4 DEF Announce, EventInv, EventTypeOK
    <3>2. lost'[j] = IF Len(chan) < Cap THEN lost[j] ELSE lost[j] + 1
      BY <2>4 DEF Announce, EventInv, EventTypeOK
    <3>3. Waiting(j)' = IF Len(chan) < Cap THEN Waiting(j) + 1 ELSE Waiting(j)
      BY <1>3, <2>1, <2>2, <2>4
    <3>4. lost'[j] + Waiting(j)' = lost[j] + Waiting(j) + 1
      <4>1. CASE Len(chan) < Cap  BY <2>2, <3>2, <3>3, <4>1
      <4>2. CASE ~(Len(chan) < Cap)  BY <2>2, <3>2, <3>3, <4>2
      <4> QED  BY <4>1, <4>2
    <3>5. lost'[j] \in Nat /\ Waiting(j)' \in Nat  BY <2>2, <3>2, <3>3
    <3> QED  BY <2>1, <2>2, <2>3, <3>1, <3>4, <3>5 DEF Pending
  <2>5. CASE j # i
    <3>1. announcing'[j] = announcing[j] /\ lost'[j] = lost[j]
      BY <2>5 DEF Announce, EventInv, EventTypeOK
    <3>2. Done(i) # Done(j)  BY <2>5, Events
    <3>3. Waiting(j)' = Waiting(j)  BY <1>3, <2>1, <2>2, <3>2
    <3> QED  BY <2>1, <2>2, <2>3, <3>1, <3>3 DEF Pending
  <2> QED  BY <2>4, <2>5
<1>7. FollowUpsMatch'  BY <1>6 DEF FollowUpsMatch, Announce
<1> QED  BY <1>1, <1>3, <1>5, <1>7 DEF EventInv, Announce, tables

(* The follow-up of the announcement that was at the head.                 *)
LEMMA FollowUpStep ==
  ASSUME IInv, FollowUp
  PROVE  IInv'
<1> USE DEF IInv
<1> DEFINE of == Head(chan).task
<1>1. InboxInv'  BY InboxFrame DEF FollowUp, history
<1>2. ChanOK(chan) /\ chan # <<>> /\ Head(chan).type = "done"
  BY DEF EventInv, FollowUp
<1>3. of \in Tasks /\ Head(chan) = Done(of) /\ ChanOK(Tail(chan))  BY <1>2, TailOK
<1>4. \A j \in Tasks : WaitingIn(chan, j) =
        IF of = j THEN WaitingIn(Tail(chan), j) + 1 ELSE WaitingIn(Tail(chan), j)
  <2>1. \A j \in Tasks : Head(chan) = Done(j) <=> of = j  BY <1>3, Events
  <2> QED  BY <1>2, <2>1, TailOK
<1>5. /\ ChanOK(chan')
      /\ \A j \in Tasks : WaitingIn(chan', j) = WaitingIn(Tail(chan), j)
  BY <1>3, PublishOther DEF FollowUp
<1>6. CreateTask(of)  BY DEF FollowUp
<1> HIDE DEF of
<1>7. /\ EventTypeOK' /\ \A j \in Tasks : status'[j] = "none" => about'[j] = NoTask
      /\ \A j \in Tasks : FollowUps(j)' =
           IF of = j THEN FollowUps(j) + 1 ELSE FollowUps(j)
  BY <1>3, <1>6, OneMore DEF EventInv, EventTypeOK, FollowUp, history
<1>8. ASSUME ~llm, NEW j \in Tasks
      PROVE  announced'[j] = FollowUps(j)' + lost'[j] + Pending(j)'
  <2>1. /\ Waiting(j)' = WaitingIn(Tail(chan), j)
    BY <1>5 DEF Waiting, WaitingIn
  <2>2. /\ FollowUps(j) \in Nat /\ Waiting(j) \in Nat /\ lost[j] \in Nat
        /\ announcing[j] \in Nat /\ announced[j] \in Nat
        /\ Waiting(j) = WaitingIn(chan, j) /\ WaitingIn(Tail(chan), j) \in Nat
    BY <1>3, FollowUpsType, WaitingType DEF EventInv, EventTypeOK, ChanOK
  <2>3. announced[j] = FollowUps(j) + lost[j] + Waiting(j) + announcing[j]
    BY <1>8, <2>2 DEF EventInv, FollowUpsMatch, Pending
  <2>4. announced'[j] = announced[j] /\ lost'[j] = lost[j] /\ announcing'[j] = announcing[j]
    BY DEF FollowUp, history
  <2>5. CASE of = j
    BY <1>4, <1>7, <2>1, <2>2, <2>3, <2>4, <2>5 DEF Pending
  <2>6. CASE of # j
    BY <1>4, <1>7, <2>1, <2>2, <2>3, <2>4, <2>6 DEF Pending
  <2> QED  BY <2>5, <2>6
<1>9. FollowUpsMatch'  BY <1>8 DEF FollowUpsMatch, FollowUp
<1> QED  BY <1>1, <1>5, <1>7, <1>9 DEF EventInv, FollowUp

LEMMA FollowUpFailsStep ==
  ASSUME IInv, FollowUpFails
  PROVE  IInv'
<1> USE DEF IInv
<1> DEFINE of == Head(chan).task
<1>1. InboxInv'  BY InboxFrame DEF FollowUpFails
<1>2. ChanOK(chan) /\ chan # <<>> /\ Head(chan).type = "done"
  BY DEF EventInv, FollowUpFails
<1>3. of \in Tasks /\ Head(chan) = Done(of) /\ ChanOK(Tail(chan))  BY <1>2, TailOK
<1>4. \A j \in Tasks : WaitingIn(chan, j) =
        IF of = j THEN WaitingIn(Tail(chan), j) + 1 ELSE WaitingIn(Tail(chan), j)
  <2>1. \A j \in Tasks : Head(chan) = Done(j) <=> of = j  BY <1>3, Events
  <2> QED  BY <1>2, <2>1, TailOK
<1>5. chan' = Tail(chan) /\ lost' = [lost EXCEPT ![of] = @ + 1]  BY DEF FollowUpFails
<1> HIDE DEF of
<1>6. EventTypeOK'
  <2>1. lost[of] + 1 \in Nat  BY <1>3 DEF EventInv, EventTypeOK
  <2> QED  BY <1>3, <1>5, <2>1 DEF EventInv, EventTypeOK, FollowUpFails, tables
<1>7. ASSUME ~llm, NEW j \in Tasks
      PROVE  announced'[j] = FollowUps(j)' + lost'[j] + Pending(j)'
  <2>1. /\ Waiting(j)' = WaitingIn(Tail(chan), j) /\ FollowUps(j)' = FollowUps(j)
        /\ announced'[j] = announced[j] /\ announcing'[j] = announcing[j]
    BY <1>5 DEF Waiting, WaitingIn, FollowUps, FollowUpFails, tables
  <2>2. /\ FollowUps(j) \in Nat /\ Waiting(j) \in Nat /\ lost[j] \in Nat
        /\ announcing[j] \in Nat /\ announced[j] \in Nat
        /\ Waiting(j) = WaitingIn(chan, j) /\ WaitingIn(Tail(chan), j) \in Nat
    BY <1>3, FollowUpsType, WaitingType DEF EventInv, EventTypeOK, ChanOK
  <2>3. announced[j] = FollowUps(j) + lost[j] + Waiting(j) + announcing[j]
    BY <1>7, <2>2 DEF EventInv, FollowUpsMatch, Pending
  <2>4. lost'[j] = IF of = j THEN lost[j] + 1 ELSE lost[j]
    BY <1>5 DEF EventInv, EventTypeOK
  <2>5. CASE of = j
    BY <1>4, <2>1, <2>2, <2>3, <2>4, <2>5 DEF Pending
  <2>6. CASE of # j
    BY <1>4, <2>1, <2>2, <2>3, <2>4, <2>6 DEF Pending
  <2> QED  BY <2>5, <2>6
<1>8. FollowUpsMatch'  BY <1>7 DEF FollowUpsMatch, FollowUpFails
<1> QED  BY <1>1, <1>3, <1>5, <1>6, <1>8 DEF EventInv, FollowUpFails, tables

(* An event that is not an announcement, or one that a model is asked      *)
(* about, is taken from the channel.                                       *)
LEMMA IgnoreStep ==
  ASSUME IInv, Ignore
  PROVE  IInv'
<1> USE DEF IInv
<1>1. InboxInv'  BY InboxFrame DEF Ignore, history
<1>2. ChanOK(chan) /\ chan # <<>> /\ chan' = Tail(chan)  BY DEF EventInv, Ignore
<1>3. ~llm => \A i \in Tasks : Head(chan) # Done(i)  BY Events DEF Ignore
<1>4. /\ ChanOK(chan')
      /\ ~llm => \A i \in Tasks : WaitingIn(chan', i) = WaitingIn(chan, i)
  BY <1>2, <1>3, TailOK
<1>5. EventTypeOK'  BY DEF EventInv, EventTypeOK, Ignore, tables, history
<1>6. EventInv'
  BY <1>4, <1>5, OnlyEvents DEF EventInv, Ignore, tables, history, FollowUps
<1> QED  BY <1>1, <1>6

LEMMA LLMStep ==
  ASSUME IInv, AskLLM \/ LLMAnswered
  PROVE  IInv'
<1> USE DEF IInv
<1>1. InboxInv'  BY InboxFrame DEF AskLLM, LLMAnswered, history
<1>2. llm  BY DEF AskLLM, LLMAnswered, EventInv
<1>3. ChanOK(chan')  BY TailOK DEF AskLLM, LLMAnswered, EventInv
<1>4. EventTypeOK'
  BY DEF EventInv, EventTypeOK, AskLLM, LLMAnswered, tables, history
<1>5. EventInv'
  BY <1>2, <1>3, <1>4, OnlyEvents DEF EventInv, AskLLM, LLMAnswered, tables, history
<1> QED  BY <1>1, <1>5

LEMMA OpsType ==
  ASSUME EventTypeOK, ops < MaxOps
  PROVE  ops + 1 \in 0..MaxOps
BY ManagerAssumption DEF EventTypeOK

LEMMA OtherEventStep ==
  ASSUME IInv, NEW type \in {"update", "silent"}, OtherEvent(type)
  PROVE  IInv'
<1> USE DEF IInv
<1>1. InboxInv'  BY InboxFrame DEF OtherEvent, history
<1>2. /\ ChanOK(chan')
      /\ \A i \in Tasks : WaitingIn(chan', i) = WaitingIn(chan, i)
  BY PublishOther DEF OtherEvent, EventInv
<1>3. EventTypeOK'
  BY OpsType DEF EventInv, EventTypeOK, OtherEvent, tables, history
<1>4. EventInv'
  BY <1>2, <1>3, OnlyEvents DEF EventInv, OtherEvent, tables, history, FollowUps
<1> QED  BY <1>1, <1>4

-----------------------------------------------------------------------------
(* The inbox.                                                              *)

LEMMA CreateMessageType ==
  ASSUME InboxTypeOK, NEW from \in {"human", "manager"}, NEW kind \in Kinds,
         CreateMessage(from, kind)
  PROVE  /\ msg' \in [Messages -> Message]
         /\ \E f \in FreeMessage :
              /\ msg'[f].state = "unread"
              /\ \A m \in Messages \ {f} : msg'[m] = msg[m]
<1>1. First(FreeMessage) \in FreeMessage
  <2>1. FreeMessage \in SUBSET Nat /\ IsFiniteSet(FreeMessage)
    BY Numbers, FS_Subset DEF FreeMessage
  <2> QED  BY <2>1, FirstIn DEF CreateMessage
<1>2. First(FreeMessage) \in Messages  BY <1>1 DEF FreeMessage
<1> QED  BY <1>1, <1>2 DEF CreateMessage, InboxTypeOK, Message

(* A row that was free becomes an unread message that nobody answered.     *)
LEMMA CreateMessageStep ==
  ASSUME InboxInv, NEW from \in {"human", "manager"}, NEW kind \in Kinds,
         CreateMessage(from, kind), UNCHANGED <<inbox, handled, unsent, faults>>
  PROVE  InboxInv'
<1>1. InboxTypeOK'  BY CreateMessageType DEF InboxInv, InboxTypeOK
<1>2. PICK f \in FreeMessage :
        /\ msg'[f].state = "unread"
        /\ \A m \in Messages \ {f} : msg'[m] = msg[m]
  BY CreateMessageType DEF InboxInv
<1>3. f \in Messages /\ msg[f].state = "none"  BY DEF FreeMessage
<1>4. \A i \in DOMAIN inbox.batch : inbox.batch[i] \in Messages
  BY DEF InboxInv, InboxTypeOK
<1>5. BatchOK'  BY <1>2, <1>3, <1>4 DEF InboxInv, BatchOK
<1>6. ASSUME NEW m \in Messages PROVE AnswerOK(m)'
  <2>1. InHand(m)' = InHand(m) /\ Cost(m)' = Cost(m) /\ Tried(m)' = Tried(m)
    BY DEF InHand, Cost, Tried
  <2>2. CASE m # f  BY <1>2, <2>1, <2>2 DEF InboxInv, AnswerOK
  <2>3. CASE m = f
    <3>1. Cost(m)' = 0 /\ 0 <= faults'
      BY <1>3, <2>1, <2>3, ManagerAssumption DEF InboxInv, InboxTypeOK, AnswerOK
    <3>2. ~InHand(m)
      <4>1. inbox.batch # <<>> => 1 \in DOMAIN inbox.batch /\ Head(inbox.batch) = inbox.batch[1]
        BY DEF InboxInv, InboxTypeOK
      <4> QED  BY <1>3, <2>3, <4>1 DEF InboxInv, BatchOK, InHand
    <3> QED  BY <1>2, <2>1, <2>3, <3>1, <3>2 DEF AnswerOK
  <2> QED  BY <2>2, <2>3
<1> QED  BY <1>1, <1>5, <1>6 DEF InboxInv

LEMMA PostStep ==
  ASSUME IInv, NEW from \in {"human", "manager"}, NEW kind \in Kinds, Post(from, kind)
  PROVE  IInv'
<1> USE DEF IInv
<1>1. InboxInv'  BY CreateMessageStep DEF Post, history
<1>2. /\ ChanOK(chan')
      /\ \A i \in Tasks : WaitingIn(chan', i) = WaitingIn(chan, i)
  BY PublishOther DEF Post, EventInv
<1>3. EventTypeOK'  BY OpsType DEF EventInv, EventTypeOK, Post, tables, history
<1>4. EventInv'
  BY <1>2, <1>3, OnlyEvents DEF EventInv, Post, tables, history, FollowUps
<1> QED  BY <1>1, <1>4

LEMMA ExecuteLLMToolStep ==
  ASSUME IInv, ExecuteLLMTool
  PROVE  IInv'
<1> USE DEF IInv
<1>1. llm /\ ops + 1 \in 0..MaxOps  BY OpsType DEF ExecuteLLMTool, EventInv
<1>2. InboxInv'
  <2>1. CASE UNCHANGED msg  BY <2>1, InboxFrame DEF ExecuteLLMTool, history
  <2>2. CASE \E kind \in Kinds : CreateMessage("manager", kind)
    BY <2>2, CreateMessageStep DEF ExecuteLLMTool, history
  <2> QED  BY <2>1, <2>2 DEF ExecuteLLMTool
<1>3. ChanOK(chan')  BY PublishOther DEF ExecuteLLMTool, EventInv
<1>4. /\ status' \in [Tasks -> {"none", "open", "done"}]
      /\ about' \in [Tasks -> Tasks \cup {NoTask}]
      /\ \A j \in Tasks : status'[j] = "none" => about'[j] = NoTask
  <2>1. CASE CreateTask(NoTask)  BY <2>1, OneMore
  <2>2. CASE UNCHANGED tables  BY <2>2 DEF EventInv, EventTypeOK, tables
  <2>3. CASE /\ UNCHANGED about
             /\ \E i \in Tasks \ FreeTask, s \in {"open", "done"} :
                  status' = [status EXCEPT ![i] = s]
    BY <2>3 DEF EventInv, EventTypeOK
  <2> QED  BY <2>1, <2>2, <2>3 DEF ExecuteLLMTool
<1>5. EventTypeOK'  BY <1>1, <1>4 DEF EventInv, EventTypeOK, ExecuteLLMTool, history
<1>6. EventInv'
  BY <1>1, <1>3, <1>4, <1>5, OnlyEvents DEF EventInv, ExecuteLLMTool, history
<1> QED  BY <1>2, <1>6

LEMMA ListStep ==
  ASSUME IInv, ListUnprocessedMessages
  PROVE  IInv'
<1> USE DEF IInv
<1>1. EventInv'
  BY EventFrame DEF ListUnprocessedMessages, history, EventInv, EventTypeOK
<1> DEFINE b == Oldest(Unread, Batch)
<1>2. /\ b \in Seq(Unread) /\ b \in Seq(Messages)
      /\ \A i, j \in DOMAIN b : b[i] = b[j] => i = j
      /\ \A i \in DOMAIN b : b[i] \in Unread
  <2>1. Unread \in SUBSET Messages /\ Batch \in Nat \ {0}
    BY ManagerAssumption DEF Unread
  <2>2. b \in Seq(Unread)  BY <2>1, OldestLists
  <2>3. b \in Seq(Messages)  BY <2>1, <2>2, SeqMonotonic
  <2>4. \A i, j \in DOMAIN b : b[i] = b[j] => i = j  BY <2>1, OldestLists
  <2> HIDE DEF b
  <2> QED  BY <2>2, <2>3, <2>4, LenProperties
<1>3. inbox' = [batch |-> b, step |-> "handle"]  BY DEF ListUnprocessedMessages
<1> HIDE DEF b
<1>4. InboxTypeOK'
  BY <1>2, <1>3 DEF InboxInv, InboxTypeOK, ListUnprocessedMessages, history, Steps
<1>5. BatchOK'
  <2>1. inbox'.batch = b /\ msg' = msg  BY <1>3 DEF ListUnprocessedMessages
  <2>2. \A i \in DOMAIN b : msg[b[i]].state = "unread"  BY <1>2 DEF Unread
  <2> QED  BY <1>2, <2>1, <2>2 DEF BatchOK
<1>6. ASSUME NEW m \in Messages PROVE AnswerOK(m)'
  <2>1. /\ ~InHand(m) /\ ~InHand(m)'
        /\ Cost(m)' = Cost(m) /\ Tried(m)' = Tried(m)
    BY <1>3 DEF InHand, Cost, Tried, ListUnprocessedMessages, history
  <2> QED  BY <2>1 DEF InboxInv, AnswerOK, ListUnprocessedMessages, history
<1> QED  BY <1>1, <1>4, <1>5, <1>6 DEF InboxInv

(* The message in hand.                                                    *)
LEMMA HeadOfBatch ==
  ASSUME InboxInv, inbox.batch # <<>>
  PROVE  /\ Head(inbox.batch) \in Messages /\ msg[Head(inbox.batch)].state = "unread"
         /\ Rest \in [batch : Seq(Messages), step : Steps]
         /\ \A i, j \in DOMAIN Rest.batch : Rest.batch[i] = Rest.batch[j] => i = j
         /\ \A i \in DOMAIN Rest.batch :
              Rest.batch[i] # Head(inbox.batch) /\ msg[Rest.batch[i]].state = "unread"
<1> DEFINE b == inbox.batch
           t == Tail(b)
<1>1. b \in Seq(Messages)  BY DEF InboxInv, InboxTypeOK
<1>2. \A i, j \in DOMAIN b : b[i] = b[j] => i = j  BY DEF InboxInv, BatchOK
<1>3. \A i \in DOMAIN b : msg[b[i]].state = "unread"  BY DEF InboxInv, BatchOK
<1> HIDE DEF b
<1>4. /\ Len(b) \in Nat /\ Len(b) > 0 /\ t \in Seq(Messages) /\ Len(t) = Len(b) - 1
      /\ \A k \in 1..Len(t) : t[k] = b[k + 1]
      /\ DOMAIN b = 1..Len(b) /\ DOMAIN t = 1..Len(t)
      /\ Head(b) = b[1] /\ Head(b) \in Messages
  BY <1>1, HeadTailProperties, LenProperties, EmptySeq DEF b
<1> HIDE DEF t
<1>5. \A k \in 1..Len(t) : k + 1 \in 1..Len(b) /\ k + 1 # 1 /\ 1 \in 1..Len(b)  BY <1>4
<1>6. Rest = [batch |-> t, step |-> "handle"]  BY DEF Rest, t, b
<1>7. \A i, j \in 1..Len(t) : t[i] = t[j] => i = j
  <2> SUFFICES ASSUME NEW i \in 1..Len(t), NEW j \in 1..Len(t), t[i] = t[j] PROVE i = j
    OBVIOUS
  <2>1. i + 1 = j + 1  BY <1>2, <1>4, <1>5
  <2> QED  BY <1>4, <2>1
<1>8. 1 \in 1..Len(b)  BY <1>4
<1>9. \A i \in 1..Len(t) : t[i] # Head(b) /\ msg[t[i]].state = "unread"
  BY <1>2, <1>3, <1>4, <1>5
<1>10. Rest.batch = t  BY <1>6
<1>11. Rest \in [batch : Seq(Messages), step : Steps]  BY <1>4, <1>6 DEF Steps
<1>12. Head(b) \in Messages /\ msg[Head(b)].state = "unread"  BY <1>3, <1>4, <1>8
<1>13. \A i, j \in DOMAIN Rest.batch : Rest.batch[i] = Rest.batch[j] => i = j
  BY <1>4, <1>7, <1>10
<1>14. \A i \in DOMAIN Rest.batch :
         Rest.batch[i] # Head(b) /\ msg[Rest.batch[i]].state = "unread"
  BY <1>4, <1>9, <1>10
<1> QED  BY <1>11, <1>12, <1>13, <1>14 DEF b

(* The handler decides; a task may be created.                             *)
LEMMA HandleStep ==
  ASSUME IInv, HandleInboxMessage
  PROVE  IInv'
<1> USE DEF IInv
<1>1. inbox.batch # <<>> /\ inbox.step = "handle"  BY DEF HandleInboxMessage
<1>2. PICK s \in {"output", "created", "got"} : inbox' = [inbox EXCEPT !.step = s]
  BY DEF HandleInboxMessage
<1>3. CreateTask(NoTask) \/ UNCHANGED tables  BY DEF HandleInboxMessage
<1>4. faults' = faults \/ (faults < MaxFaults /\ faults' = faults + 1)
  BY DEF HandleInboxMessage, Fault
<1>5. UNCHANGED <<llm, asking, announcing, chan, msg, ops, announced, lost, handled, unsent>>
  BY DEF HandleInboxMessage, history
<1>6. /\ status' \in [Tasks -> {"none", "open", "done"}]
      /\ about' \in [Tasks -> Tasks \cup {NoTask}]
      /\ \A j \in Tasks : status'[j] = "none" => about'[j] = NoTask
      /\ \A i \in Tasks : FollowUps(i)' = FollowUps(i)
  <2>1. CASE CreateTask(NoTask)
    <3>1. \A i \in Tasks : NoTask # i  BY Numbers
    <3> QED  BY <2>1, <3>1, OneMore
  <2>2. CASE UNCHANGED tables
    BY <2>2 DEF EventInv, EventTypeOK, tables, FollowUps
  <2> QED  BY <1>3, <2>1, <2>2
<1>7. EventTypeOK'  BY <1>5, <1>6 DEF EventInv, EventTypeOK
<1>8. EventInv'
  BY <1>5, <1>6, <1>7, OnlyEvents DEF EventInv, ChanOK, WaitingIn
<1>9. /\ inbox' \in [batch : Seq(Messages), step : Steps]
      /\ inbox'.batch = inbox.batch /\ inbox'.step # "mark"
  BY <1>2 DEF InboxInv, InboxTypeOK, Steps
<1>10. /\ faults \in Nat /\ faults' \in 0..MaxFaults /\ faults <= faults'
       /\ faults' \in Nat
  BY <1>4, ManagerAssumption DEF InboxInv, InboxTypeOK
<1>11. InboxTypeOK' /\ BatchOK'
  BY <1>5, <1>9, <1>10 DEF InboxInv, InboxTypeOK, BatchOK
<1>12. ASSUME NEW m \in Messages PROVE AnswerOK(m)'
  <2>1. ~InHand(m) /\ ~InHand(m)'  BY <1>1, <1>9 DEF InHand
  <2>2. Cost(m)' = Cost(m) /\ Tried(m)' = Tried(m)  BY <1>5 DEF Cost, Tried
  <2>3. Cost(m) \in Nat  BY DEF Cost, InboxInv, InboxTypeOK
  <2>4. Cost(m) <= faults => Cost(m) <= faults'  BY <1>10, <2>3
  <2>5. Cost(m) <= 1 + faults => Cost(m) <= 1 + faults'  BY <1>10, <2>3
  <2> QED  BY <1>5, <2>1, <2>2, <2>4, <2>5 DEF InboxInv, AnswerOK
<1> QED  BY <1>8, <1>11, <1>12 DEF InboxInv

(* The reply is inserted, or is not; the loop goes on to mark the message. *)
LEMMA ReplyStep ==
  ASSUME IInv, ReplyToSender
  PROVE  IInv'
<1> USE DEF IInv
<1> DEFINE h == Head(inbox.batch)
<1>1. /\ h \in Messages /\ msg[h].state = "unread" /\ inbox.batch # <<>>
      /\ inbox.step \in {"output", "created", "got"}
  BY HeadOfBatch DEF ReplyToSender, ReplyKinds
<1>2. /\ ChanOK(chan')
      /\ \A i \in Tasks : WaitingIn(chan', i) = WaitingIn(chan, i)
  BY PublishOther DEF ReplyToSender, EventInv
<1>3. UNCHANGED <<llm, asking, tables, announcing, ops, announced, lost>>
  BY DEF ReplyToSender
<1>4. EventTypeOK' /\ \A i \in Tasks : FollowUps(i)' = FollowUps(i)
  BY <1>3 DEF EventInv, EventTypeOK, tables, FollowUps
<1>5. EventInv'
  BY <1>2, <1>3, <1>4, OnlyEvents DEF EventInv, tables
<1>6. /\ inbox' \in [batch : Seq(Messages), step : Steps]
      /\ inbox'.batch = inbox.batch /\ inbox'.step = "mark"
  BY DEF ReplyToSender, InboxInv, InboxTypeOK, Steps
<1>7. /\ msg' \in [Messages -> Message]
      /\ \A m \in Messages :
           msg'[m] = msg[m] \/ (msg[m].state = "none" /\ msg'[m].state = "unread")
  <2>1. CASE UNCHANGED msg  BY <2>1 DEF InboxInv, InboxTypeOK
  <2>2. CASE \E kind \in Kinds : CreateMessage("manager", kind)
    BY <2>2, CreateMessageType DEF InboxInv, FreeMessage
  <2>3. ReplyKinds[inbox.step] \subseteq Kinds  BY <1>1 DEF Kinds, ReplyKinds
  <2> QED  BY <2>1, <2>2, <2>3 DEF ReplyToSender, InsertReply
<1>8. \A m \in Messages : handled[m] \in Nat /\ unsent[m] \in Nat
  BY DEF InboxInv, InboxTypeOK
<1>9. /\ handled' \in [Messages -> Nat] /\ unsent' \in [Messages -> Nat]
      /\ \A m \in Messages \ {h} : handled'[m] = handled[m] /\ unsent'[m] = unsent[m]
      /\ \/ faults' = faults /\ handled'[h] = handled[h] + 1 /\ unsent'[h] = unsent[h]
         \/ /\ faults < MaxFaults /\ faults' = faults + 1
            /\ handled'[h] = handled[h] /\ unsent'[h] = unsent[h] + 1
  <2>1. handled \in [Messages -> Nat] /\ unsent \in [Messages -> Nat]
    BY DEF InboxInv, InboxTypeOK
  <2>2. \/ handled' = [handled EXCEPT ![h] = @ + 1] /\ UNCHANGED <<faults, unsent>>
        \/ Fault /\ unsent' = [unsent EXCEPT ![h] = @ + 1] /\ UNCHANGED handled
    BY DEF ReplyToSender
  <2> HIDE DEF h
  <2>3. CASE handled' = [handled EXCEPT ![h] = @ + 1] /\ UNCHANGED <<faults, unsent>>
    BY <1>1, <1>8, <2>1, <2>3
  <2>4. CASE Fault /\ unsent' = [unsent EXCEPT ![h] = @ + 1] /\ UNCHANGED handled
    BY <1>1, <1>8, <2>1, <2>4 DEF Fault
  <2> QED  BY <2>2, <2>3, <2>4
<1>10. /\ faults \in Nat /\ faults' \in Nat /\ faults <= faults'
       /\ faults' \in 0..MaxFaults
  BY <1>9, ManagerAssumption DEF InboxInv, InboxTypeOK
<1>11. InboxTypeOK'  BY <1>6, <1>7, <1>9, <1>10 DEF InboxTypeOK
<1>12. BatchOK'
  <2>1. \A i \in DOMAIN inbox.batch :
          inbox.batch[i] \in Messages /\ msg[inbox.batch[i]].state = "unread"
    BY DEF InboxInv, InboxTypeOK, BatchOK
  <2> QED  BY <1>6, <1>7, <2>1 DEF InboxInv, BatchOK
<1>13. ASSUME NEW m \in Messages PROVE AnswerOK(m)'
  <2>1. ~InHand(m) /\ (InHand(m)' <=> m = h)  BY <1>1, <1>6 DEF InHand
  <2> HIDE DEF h
  <2>2. CASE m = h
    <3>1. handled[h] + unsent[h] + unsent[h] <= faults
      BY <1>1, <2>1, <2>2 DEF InboxInv, AnswerOK, Cost
    <3>2. handled'[h] + unsent'[h] + unsent'[h] <= 1 + faults'
      <4>1. handled[h] \in Nat /\ unsent[h] \in Nat /\ faults \in Nat
        BY <1>1, <1>8, <1>10
      <4>2. \/ faults' = faults /\ handled'[h] = handled[h] + 1 /\ unsent'[h] = unsent[h]
            \/ faults' = faults + 1 /\ handled'[h] = handled[h] /\ unsent'[h] = unsent[h] + 1
        BY <1>9
      <4> QED  BY <3>1, <4>1, <4>2
    <3>3. handled'[h] >= 1 \/ unsent'[h] >= 1  BY <1>1, <1>8, <1>9
    <3>4. msg'[m].state = "unread"  BY <1>1, <1>7, <2>2
    <3>5. Tried(m)' /\ Cost(m)' <= 1 + faults'  BY <2>2, <3>2, <3>3 DEF Tried, Cost
    <3> QED  BY <2>1, <2>2, <3>4, <3>5 DEF AnswerOK
  <2>3. CASE m # h
    <3>1. Cost(m)' = Cost(m) /\ Tried(m)' = Tried(m)
      BY <1>9, <2>3 DEF Cost, Tried
    <3>2. Cost(m) \in Nat  BY <1>8 DEF Cost
    <3>3. /\ Cost(m) <= faults => Cost(m) <= faults'
          /\ Cost(m) <= 1 + faults => Cost(m) <= 1 + faults'
          /\ Cost(m) = 0 => Cost(m) <= faults'
      BY <1>10, <3>2
    <3> QED  BY <1>7, <2>1, <2>3, <3>1, <3>3 DEF InboxInv, AnswerOK
  <2> QED  BY <2>2, <2>3
<1> QED  BY <1>5, <1>11, <1>12, <1>13 DEF InboxInv

LEMMA MarkStep ==
  ASSUME IInv, MarkMessageProcessed \/ MarkFails
  PROVE  IInv'
<1> USE DEF IInv
<1> DEFINE h == Head(inbox.batch)
<1>1. EventInv'
  BY EventFrame DEF MarkMessageProcessed, MarkFails, history, EventInv, EventTypeOK
<1>2. /\ inbox.batch # <<>> /\ inbox.step = "mark" /\ inbox' = Rest
      /\ handled' = handled /\ unsent' = unsent
  BY DEF MarkMessageProcessed, MarkFails, history
<1>3. h \in Messages /\ msg[h].state = "unread"  BY <1>2, HeadOfBatch
<1>4. /\ msg' \in [Messages -> Message]
      /\ \A m \in Messages \ {h} : msg'[m] = msg[m]
      /\ \/ msg' = msg /\ faults < MaxFaults /\ faults' = faults + 1
         \/ msg'[h].state = "read" /\ faults' = faults
  <2>1. CASE MarkFails  BY <2>1 DEF MarkFails, Fault, InboxInv, InboxTypeOK
  <2>2. CASE MarkMessageProcessed
    <3>1. msg \in [Messages -> Message]  BY DEF InboxInv, InboxTypeOK
    <3> DEFINE row == [msg[h] EXCEPT !.state = "read"]
    <3>2. row \in Message /\ row.state = "read"  BY <1>3, <3>1 DEF Message
    <3>3. msg' = [msg EXCEPT ![h] = row]  BY <2>2 DEF MarkMessageProcessed
    <3>4. faults' = faults  BY <2>2 DEF MarkMessageProcessed
    <3> HIDE DEF row, h
    <3> QED  BY <1>3, <3>1, <3>2, <3>3, <3>4
  <2> QED  BY <2>1, <2>2
<1>5. /\ faults \in Nat /\ faults' \in Nat /\ faults <= faults' /\ faults' \in 0..MaxFaults
  BY <1>4, ManagerAssumption DEF InboxInv, InboxTypeOK
<1>6. InboxTypeOK'
  BY <1>2, <1>4, <1>5, HeadOfBatch DEF InboxInv, InboxTypeOK
<1>7. BatchOK'
  <2>1. \A i \in DOMAIN Rest.batch : Rest.batch[i] \in Messages
    <3>1. Rest.batch \in Seq(Messages)  BY <1>2, HeadOfBatch
    <3> QED  BY <3>1
  <2> QED  BY <1>2, <1>4, <2>1, HeadOfBatch DEF BatchOK
<1>8. ASSUME NEW m \in Messages PROVE AnswerOK(m)'
  <2>1. (InHand(m) <=> m = h) /\ ~InHand(m)'  BY <1>2 DEF InHand, Rest
  <2>2. Cost(m)' = Cost(m) /\ Tried(m)' = Tried(m) /\ Cost(m) \in Nat
    BY <1>2 DEF InboxInv, InboxTypeOK, Cost, Tried
  <2> HIDE DEF h
  <2>3. CASE m = h
    <3>1. Tried(m) /\ Cost(m) <= 1 + faults
      BY <2>1, <2>3 DEF InboxInv, AnswerOK
    <3>2. CASE msg' = msg /\ faults' = faults + 1
      BY <1>3, <1>5, <2>1, <2>2, <2>3, <3>1, <3>2 DEF AnswerOK
    <3>3. CASE msg'[h].state = "read" /\ faults' = faults
      BY <2>1, <2>2, <2>3, <3>1, <3>3 DEF AnswerOK
    <3> QED  BY <1>4, <3>2, <3>3
  <2>4. CASE m # h
    <3>1. msg'[m] = msg[m] /\ ~InHand(m)  BY <1>4, <2>1, <2>4
    <3>2. /\ Cost(m) <= faults => Cost(m) <= faults'
          /\ Cost(m) <= 1 + faults => Cost(m) <= 1 + faults'
      BY <1>5, <2>2
    <3> QED  BY <2>1, <2>2, <3>1, <3>2 DEF InboxInv, AnswerOK
  <2> QED  BY <2>3, <2>4
<1> QED  BY <1>1, <1>6, <1>7, <1>8 DEF InboxInv

-----------------------------------------------------------------------------
(* A crash loses what waits in the channel and what was to be announced.   *)
LEMMA CrashStep ==
  ASSUME IInv, Crash
  PROVE  IInv'
<1> USE DEF IInv
<1>1. /\ faults \in Nat /\ faults' = faults + 1 /\ faults' \in 0..MaxFaults
  BY ManagerAssumption DEF Crash, InboxInv, InboxTypeOK
<1>2. InboxInv'
  <2>1. InboxTypeOK' /\ BatchOK'
    BY <1>1 DEF Crash, Asleep, Steps, InboxInv, InboxTypeOK, BatchOK
  <2>2. ASSUME NEW m \in Messages PROVE AnswerOK(m)'
    <3>1. /\ ~InHand(m)' /\ msg'[m] = msg[m] /\ Cost(m) \in Nat
          /\ Cost(m)' = Cost(m) /\ Tried(m)' = Tried(m)
      BY DEF Crash, Asleep, InHand, Cost, Tried, InboxInv, InboxTypeOK
    <3>2. /\ Cost(m) <= faults => Cost(m) <= faults'
          /\ Cost(m) <= 1 + faults => Cost(m) <= faults' /\ Cost(m) <= 1 + faults'
      BY <1>1, <3>1
    <3> QED  BY <3>1, <3>2 DEF InboxInv, AnswerOK
  <2> QED  BY <2>1, <2>2 DEF InboxInv
<1>3. ASSUME NEW j \in Tasks
      PROVE  /\ FollowUps(j) \in Nat /\ Waiting(j) \in Nat /\ lost[j] \in Nat
             /\ announcing[j] \in Nat /\ announced[j] \in Nat
  BY FollowUpsType, WaitingType DEF EventInv, EventTypeOK, ChanOK
<1>4. /\ lost' = [i \in Tasks |-> lost[i] + Waiting(i) + announcing[i]]
      /\ announcing' = [i \in Tasks |-> 0] /\ chan' = <<>>
  BY DEF Crash
<1>5. EventTypeOK'
  <2>1. lost' \in [Tasks -> Nat]  BY <1>3, <1>4
  <2>2. announcing' \in [Tasks -> Nat]  BY <1>4
  <2> QED  BY <2>1, <2>2 DEF EventInv, EventTypeOK, Crash, tables
<1>6. ChanOK(chan')  BY <1>4, ManagerAssumption DEF ChanOK
<1>7. ASSUME ~llm, NEW j \in Tasks
      PROVE  announced'[j] = FollowUps(j)' + lost'[j] + Pending(j)'
  <2>1. Waiting(j)' = 0
    <3>1. {k \in DOMAIN chan' : chan'[k] = Done(j)} = {}  BY <1>4
    <3> QED  BY <3>1, FS_EmptySet DEF Waiting
  <2>2. announced[j] = FollowUps(j) + lost[j] + Waiting(j) + announcing[j]
    BY <1>3, <1>7 DEF EventInv, FollowUpsMatch, Pending
  <2>3. announced'[j] = announced[j] /\ FollowUps(j)' = FollowUps(j)
    BY DEF Crash, FollowUps, tables
  <2>4. lost'[j] = lost[j] + Waiting(j) + announcing[j] /\ announcing'[j] = 0
    BY <1>4
  <2> QED  BY <1>3, <2>1, <2>2, <2>3, <2>4 DEF Pending
<1>8. FollowUpsMatch'  BY <1>7 DEF FollowUpsMatch, Crash
<1> QED  BY <1>2, <1>5, <1>6, <1>8 DEF EventInv, Crash, tables

-----------------------------------------------------------------------------
LEMMA InitIInv == Init => IInv
<1> SUFFICES ASSUME Init PROVE IInv  OBVIOUS
<1>1. EventTypeOK
  <2>1. llm \in BOOLEAN /\ asking \in BOOLEAN  BY DEF Init
  <2>2. /\ status \in [Tasks -> {"none", "open", "done"}]
        /\ about \in [Tasks -> Tasks \cup {NoTask}]
        /\ announcing \in [Tasks -> Nat]
        /\ announced \in [Tasks -> Nat] /\ lost \in [Tasks -> Nat]
        /\ ops \in 0..MaxOps
    BY ManagerAssumption DEF Init
  <2> QED  BY <2>1, <2>2 DEF EventTypeOK
<1>2. ChanOK(chan)  BY ManagerAssumption DEF Init, ChanOK
<1>3. FollowUpsMatch
  <2> SUFFICES ASSUME NEW i \in Tasks
               PROVE  announced[i] = FollowUps(i) + lost[i] + Pending(i)
    BY DEF FollowUpsMatch
  <2>1. {k \in DOMAIN chan : chan[k] = Done(i)} = {}  BY DEF Init
  <2>2. {j \in Tasks : about[j] = i} = {}  BY Numbers DEF Init
  <2>3. Waiting(i) = 0 /\ FollowUps(i) = 0  BY <2>1, <2>2, FS_EmptySet DEF Waiting, FollowUps
  <2>4. announced[i] = 0 /\ lost[i] = 0 /\ announcing[i] = 0  BY DEF Init
  <2> QED  BY <2>3, <2>4 DEF Pending
<1>4. EventInv  BY <1>1, <1>2, <1>3 DEF Init, EventInv
<1>5. InboxTypeOK
  BY ManagerAssumption DEF Init, InboxTypeOK, Message, NoMessage, Kinds, Asleep, Steps
<1>6. BatchOK /\ \A m \in Messages : AnswerOK(m)
  BY DEF Init, BatchOK, AnswerOK, InHand, Cost, Tried, Asleep, NoMessage
<1> QED  BY <1>4, <1>5, <1>6 DEF IInv, InboxInv

LEMMA NextIInv ==
  ASSUME IInv, [Next]_vars
  PROVE  IInv'
<1>1. CASE UNCHANGED vars
  <2>1. EventInv'  BY <1>1, EventFrame DEF vars, IInv, tables, EventInv, EventTypeOK
  <2>2. InboxInv'  BY <1>1, InboxFrame DEF vars, IInv
  <2> QED  BY <2>1, <2>2 DEF IInv
<1>2. CASE EventStep
  BY <1>2, FollowUpStep, FollowUpFailsStep, IgnoreStep, LLMStep DEF EventStep
<1>3. CASE ExecuteLLMTool  BY <1>3, ExecuteLLMToolStep
<1>4. CASE InboxStep
  BY <1>4, ListStep, HandleStep, ReplyStep, MarkStep DEF InboxStep
<1>5. CASE Crash  BY <1>5, CrashStep
<1>6. CASE \E i \in Tasks : Finish(i) \/ Announce(i)
  BY <1>6, FinishStep, AnnounceStep
<1>7. CASE \E type \in {"update", "silent"} : OtherEvent(type)
  BY <1>7, OtherEventStep
<1>8. CASE \E from \in {"human", "manager"}, kind \in Kinds : Post(from, kind)
  BY <1>8, PostStep
<1> QED  BY <1>1, <1>2, <1>3, <1>4, <1>5, <1>6, <1>7, <1>8 DEF Next

LEMMA Invariant == Spec => []IInv
BY InitIInv, NextIInv, PTL DEF Spec

(* Every reachable state is of its type; the channel is never over Cap.    *)
THEOREM TypeCorrect == Spec => []TypeOK
<1>1. IInv => TypeOK
  BY DEF IInv, EventInv, EventTypeOK, ChanOK, InboxInv, InboxTypeOK, TypeOK
<1> QED  BY <1>1, Invariant, PTL

(* handleEvent: no announcement of a done task is acted on twice or left   *)
(* out unless the hub dropped it, a crash lost it or CreateTask failed.    *)
THEOREM FollowUpsAreAnnouncements == Spec => []FollowUpsMatch
<1>1. IInv => FollowUpsMatch  BY DEF IInv, EventInv
<1> QED  BY <1>1, Invariant, PTL

(* PollInbox: a message is marked only after an answer was attempted, and  *)
(* is answered again at most once per fault that did not cost an answer.   *)
THEOREM AnswersAreCounted == Spec => []AnsweredOnce
<1>1. IInv => AnsweredOnce
  <2> SUFFICES ASSUME IInv, NEW m \in Messages
               PROVE  /\ msg[m].state = "read" /\ handled[m] = 0 => unsent[m] >= 1
                      /\ handled[m] + unsent[m] <= 1 + (faults - unsent[m])
    BY DEF AnsweredOnce
  <2>1. /\ handled[m] \in Nat /\ unsent[m] \in Nat /\ faults \in Nat
        /\ AnswerOK(m) /\ msg[m].state \in {"none", "unread", "read"}
    BY ManagerAssumption DEF IInv, InboxInv, InboxTypeOK, Message
  <2>2. Cost(m) = 0 \/ Cost(m) <= faults \/ Cost(m) <= 1 + faults
    BY <2>1 DEF AnswerOK
  <2>3. handled[m] + unsent[m] <= 1 + (faults - unsent[m])  BY <2>1, <2>2 DEF Cost
  <2>4. msg[m].state = "read" => handled[m] >= 1 \/ unsent[m] >= 1
    BY <2>1 DEF AnswerOK, Tried
  <2>5. msg[m].state = "read" /\ handled[m] = 0 => unsent[m] >= 1  BY <2>1, <2>4
  <2> QED  BY <2>3, <2>5
<1> QED  BY <1>1, Invariant, PTL

=============================================================================
