-------------------------- MODULE MigrationsProofs --------------------------
(***************************************************************************)
(* Migrations are applied in order and once, and recorded when they are    *)
(* applied, for any number of processes and of migrations.  What makes     *)
(* this inductive: what a process has not on its list is recorded, and     *)
(* what it is about to record is in the schema.                            *)
(***************************************************************************)
EXTENDS Migrations, TLAPS

Busy(p) == step[p] \in {"migrate", "execute", "record"}

InOrder == \A m \in schema : \A k \in Versions : k < m => k \in schema

ListIsComplete == \A p \in Processes : Busy(p) => Versions \ todo[p] \subseteq recorded

RecordsApplied ==
  \A p \in Processes, m \in Versions : step[p] = "record" /\ First(p, m) => m \in schema

TwoStatements ==
  \A p \in Processes : step[p] \in {"execute", "record"} => driver = "postgres"

OpenIsWhole == \A p \in Processes : step[p] = "open" => recorded = Versions

IInv ==
  /\ TypeOK
  /\ RecordedIsApplied
  /\ InOrder
  /\ ListIsComplete
  /\ RecordsApplied
  /\ TwoStatements
  /\ OpenIsWhole

-----------------------------------------------------------------------------
(* The initial states: whatever an older program has left.                 *)
LEMMA InitInv == Init => IInv
<1> SUFFICES ASSUME Init PROVE IInv
  OBVIOUS
<1> USE MigrationsAssumption
<1>1. PICK k \in 0..Last : schema = 1..k /\ recorded = 1..k
  BY DEF Init
<1>2. schema \subseteq Versions /\ recorded \subseteq Versions
  BY <1>1 DEF Versions
<1>3. seeded \subseteq Seeding
  BY DEF Init
<1>4. TypeOK
  BY <1>2, <1>3 DEF Init, TypeOK, Steps
<1>5. RecordedIsApplied
  BY <1>1 DEF RecordedIsApplied
<1>6. InOrder
  BY <1>1 DEF InOrder, Versions
<1>7. ListIsComplete /\ RecordsApplied /\ TwoStatements /\ OpenIsWhole
  BY DEF Init, ListIsComplete, RecordsApplied, TwoStatements, OpenIsWhole, Busy
<1> QED
  BY <1>4, <1>5, <1>6, <1>7 DEF IInv

(* Every step leaves the types as they are.                                *)
LEMMA TypeStep == TypeOK /\ [Next]_vars => TypeOK'
<1> SUFFICES ASSUME TypeOK, [Next]_vars PROVE TypeOK'
  OBVIOUS
<1> USE MigrationsAssumption
<1>1. CASE UNCHANGED vars
  BY <1>1 DEF vars, TypeOK
<1>2. CASE Next
  <2>1. PICK p \in Processes :
          \/ Open(p) \/ Advance(p) \/ ReadInPart(p) \/ Fail(p) \/ Close(p)
          \/ \E m \in Seeding : Configure(p, m)
    BY <1>2 DEF Next
  <2>2. CASE Open(p) \/ Close(p)
    BY <2>2 DEF Open, Close, Goto, database, TypeOK, Steps
  <2>3. ASSUME NEW seen \in SUBSET Versions, Goto(p, "read", "migrate"),
               todo' = [todo EXCEPT ![p] = Versions \ seen],
               faults' \in 0..MaxFaults, UNCHANGED <<database, before>>
        PROVE  TypeOK'
    <3>1. step' \in [Processes -> Steps]
      BY <2>3 DEF Goto, TypeOK, Steps
    <3>2. todo' \in [Processes -> SUBSET Versions]
      BY <2>3 DEF TypeOK
    <3> QED
      BY <2>3, <3>1, <3>2 DEF database, TypeOK
  <2>3a. CASE Read(p)
    BY <2>3, <2>3a DEF Read, TypeOK
  <2>3b. CASE ReadInPart(p)
    <3>1. PICK seen \in SUBSET recorded : todo' = [todo EXCEPT ![p] = Versions \ seen]
      BY <2>3b DEF ReadInPart
    <3>2. seen \in SUBSET Versions /\ faults' \in 0..MaxFaults
      BY <2>3b DEF ReadInPart, TypeOK
    <3> QED
      BY <2>3, <2>3b, <3>1, <3>2 DEF ReadInPart
  <2>4. CASE Execute(p) \/ Opened(p)
    BY <2>4 DEF Execute, Opened, Goto, database, TypeOK, Steps
  <2>5. ASSUME NEW m \in Versions, ApplyMigration(p, m) PROVE TypeOK'
    <3>1. CASE m \in schema \cup recorded
      BY <2>5, <3>1 DEF ApplyMigration, ReturnError, TypeOK, Steps
    <3>2. CASE m \notin schema \cup recorded
      <4>1. /\ schema' = schema \cup {m} /\ recorded' = recorded \cup {m}
            /\ seeded' = seeded \cup ({m} \cap Seeding)
            /\ todo' = [todo EXCEPT ![p] = @ \ {m}]
            /\ UNCHANGED <<driver, step, before, faults>>
        BY <2>5, <3>2 DEF ApplyMigration, Done
      <4>2. todo' \in [Processes -> SUBSET Versions]
        BY <4>1 DEF TypeOK
      <4> QED
        BY <4>1, <4>2 DEF TypeOK
    <3> QED
      BY <3>1, <3>2
  <2>6. ASSUME NEW m \in Versions, Execution(p, m) PROVE TypeOK'
    BY <2>6 DEF Execution, Executed, ReturnError, TypeOK, Steps
  <2>7. ASSUME NEW m \in Versions, Record(p, m) PROVE TypeOK'
    BY <2>7 DEF Record, Done, TypeOK, Steps
  <2>8. CASE Fail(p)
    BY <2>8 DEF Fail, ReturnError, database, TypeOK, Steps
  <2>9. ASSUME NEW m \in Seeding, Configure(p, m) PROVE TypeOK'
    BY <2>9 DEF Configure, TypeOK
  <2> QED
    BY <2>1, <2>2, <2>3a, <2>3b, <2>4, <2>5, <2>6, <2>7, <2>8, <2>9 DEF Advance
<1> QED
  BY <1>1, <1>2 DEF Next

-----------------------------------------------------------------------------
(* What a process opens, reads, leaves or configures: the schema and what  *)
(* is recorded stay.                                                       *)
LEMMA QuietStep ==
  ASSUME IInv, TypeOK', UNCHANGED <<driver, schema, recorded>>,
         NEW p \in Processes,
         \A q \in Processes \ {p} : step'[q] = step[q] /\ todo'[q] = todo[q],
         Busy(p)' => Versions \ todo'[p] \subseteq recorded,
         step'[p] # "record",
         step'[p] = "execute" => driver = "postgres",
         step'[p] = "open" => recorded = Versions
  PROVE  IInv'
<1>1. RecordedIsApplied' /\ InOrder'
  BY DEF IInv, RecordedIsApplied, InOrder
<1>2. ListIsComplete'
  BY DEF IInv, ListIsComplete, Busy
<1>3. RecordsApplied'
  BY DEF IInv, RecordsApplied, First
<1>4. TwoStatements' /\ OpenIsWhole'
  BY DEF IInv, TwoStatements, OpenIsWhole
<1> QED
  BY <1>1, <1>2, <1>3, <1>4 DEF IInv

(* The first of a complete list follows on the schema.                     *)
LEMMA FirstIsNext ==
  ASSUME IInv, NEW p \in Processes, Busy(p), NEW m \in Versions, First(p, m)
  PROVE  \A k \in Versions : k < m => k \in schema
<1> USE MigrationsAssumption
<1>1. ASSUME NEW k \in Versions, k < m PROVE k \notin todo[p]
  BY <1>1 DEF First, Versions
<1>2. Versions \ todo[p] \subseteq schema
  BY DEF IInv, ListIsComplete, RecordedIsApplied
<1> QED
  BY <1>1, <1>2

LEMMA ApplyStep ==
  ASSUME IInv, TypeOK', NEW p \in Processes, NEW m \in Versions, ApplyMigration(p, m)
  PROVE  IInv'
<1>1. CASE m \in schema \cup recorded
  <2>1. /\ UNCHANGED <<driver, schema, recorded>>
        /\ step'[p] = "closed"
        /\ \A q \in Processes \ {p} : step'[q] = step[q] /\ todo'[q] = todo[q]
    BY <1>1 DEF ApplyMigration, ReturnError, IInv, TypeOK
  <2> QED
    BY <2>1, QuietStep DEF Busy
<1>2. CASE m \notin schema \cup recorded
  <2>1. /\ driver = "sqlite" /\ driver' = driver /\ step' = step
        /\ Busy(p) /\ First(p, m)
        /\ schema' = schema \cup {m} /\ recorded' = recorded \cup {m}
        /\ todo'[p] = todo[p] \ {m}
        /\ \A q \in Processes \ {p} : todo'[q] = todo[q]
    BY <1>2 DEF ApplyMigration, Done, Busy, IInv, TypeOK
  <2>2. RecordedIsApplied'
    BY <2>1 DEF IInv, RecordedIsApplied
  <2>3. InOrder'
    BY <2>1, FirstIsNext DEF IInv, InOrder
  <2>4. ListIsComplete'
    BY <2>1 DEF IInv, ListIsComplete, Busy
  <2>5. TwoStatements' /\ RecordsApplied'
    BY <2>1 DEF IInv, TwoStatements, RecordsApplied
  <2>6. OpenIsWhole'
    BY <2>1 DEF IInv, OpenIsWhole, TypeOK
  <2> QED
    BY <2>2, <2>3, <2>4, <2>5, <2>6 DEF IInv
<1> QED
  BY <1>1, <1>2

LEMMA ExecutionStep ==
  ASSUME IInv, TypeOK', NEW p \in Processes, NEW m \in Versions, Execution(p, m)
  PROVE  IInv'
<1>1. /\ driver = "postgres" /\ driver' = driver /\ recorded' = recorded
      /\ Busy(p) /\ First(p, m)
      /\ \A q \in Processes \ {p} : step'[q] = step[q] /\ todo'[q] = todo[q]
  BY DEF Execution, Executed, ReturnError, Busy, IInv, TypeOK
<1>2. CASE step'[p] = "closed"
  <2>1. UNCHANGED schema
    BY <1>2 DEF Execution, Executed, IInv, TypeOK
  <2> QED
    BY <1>1, <1>2, <2>1, QuietStep DEF Busy
<1>3. CASE step'[p] # "closed"
  <2>1. /\ step'[p] = "record" /\ todo' = todo
        /\ schema' = schema \cup {m}
    BY <1>3 DEF Execution, Executed, ReturnError, Overtaken, IInv, TypeOK
  <2>2. RecordedIsApplied'
    BY <1>1, <2>1 DEF IInv, RecordedIsApplied
  <2>3. InOrder'
    BY <1>1, <2>1, FirstIsNext DEF IInv, InOrder
  <2>4. ListIsComplete'
    BY <1>1, <2>1 DEF IInv, ListIsComplete, Busy
  <2>5. RecordsApplied'
    <3>1. ASSUME NEW n \in Versions, First(p, n) PROVE n = m
      BY <1>1, <3>1, MigrationsAssumption DEF First, Versions
    <3> QED
      BY <1>1, <2>1, <3>1 DEF IInv, RecordsApplied, First
  <2>6. TwoStatements' /\ OpenIsWhole'
    BY <1>1, <2>1 DEF IInv, TwoStatements, OpenIsWhole
  <2> QED
    BY <2>2, <2>3, <2>4, <2>5, <2>6 DEF IInv
<1> QED
  BY <1>2, <1>3

LEMMA RecordStep ==
  ASSUME IInv, TypeOK', NEW p \in Processes, NEW m \in Versions, Record(p, m)
  PROVE  IInv'
<1>1. /\ UNCHANGED <<driver, schema>>
      /\ step[p] = "record" /\ First(p, m) /\ step'[p] = "migrate"
      /\ recorded' = recorded \cup {m}
      /\ todo'[p] = todo[p] \ {m}
      /\ \A q \in Processes \ {p} : step'[q] = step[q] /\ todo'[q] = todo[q]
  BY DEF Record, Done, IInv, TypeOK
<1>2. driver = "postgres" /\ m \in schema
  BY <1>1 DEF IInv, TwoStatements, RecordsApplied
<1>3. RecordedIsApplied' /\ InOrder'
  BY <1>1, <1>2 DEF IInv, RecordedIsApplied, InOrder
<1>4. ListIsComplete'
  BY <1>1 DEF IInv, ListIsComplete, Busy
<1>5. RecordsApplied' /\ TwoStatements'
  BY <1>1 DEF IInv, RecordsApplied, TwoStatements, First
<1>6. OpenIsWhole'
  BY <1>1 DEF IInv, OpenIsWhole, TypeOK
<1> QED
  BY <1>3, <1>4, <1>5, <1>6 DEF IInv

LEMMA InvStep == IInv /\ [Next]_vars => IInv'
<1> SUFFICES ASSUME IInv, [Next]_vars PROVE IInv'
  OBVIOUS
<1>1. TypeOK'
  BY TypeStep DEF IInv
<1>2. CASE UNCHANGED vars
  BY <1>2, <1>1 DEF vars, IInv, RecordedIsApplied, InOrder, ListIsComplete, Busy,
     RecordsApplied, First, TwoStatements, OpenIsWhole
<1>3. CASE Next
  <2>1. PICK p \in Processes :
          \/ Open(p) \/ Advance(p) \/ ReadInPart(p) \/ Fail(p) \/ Close(p)
          \/ \E m \in Seeding : Configure(p, m)
    BY <1>3 DEF Next
  <2>2. CASE Open(p) \/ Close(p) \/ Fail(p)
    <3>1. /\ UNCHANGED <<driver, schema, recorded>>
          /\ step'[p] \in {"closed", "read"}
          /\ \A q \in Processes \ {p} : step'[q] = step[q] /\ todo'[q] = todo[q]
      BY <2>2 DEF Open, Close, Fail, Goto, ReturnError, database, IInv, TypeOK
    <3> QED
      BY <3>1, <1>1, QuietStep DEF Busy
  <2>3. CASE Read(p) \/ ReadInPart(p)
    <3>1. /\ UNCHANGED <<driver, schema, recorded>>
          /\ step'[p] = "migrate"
          /\ \A q \in Processes \ {p} : step'[q] = step[q] /\ todo'[q] = todo[q]
      BY <2>3 DEF Read, ReadInPart, Goto, database, IInv, TypeOK
    <3>2. CASE Read(p)
      BY <3>2, <1>1, <3>1, QuietStep DEF Read, IInv, TypeOK
    <3>3. CASE ReadInPart(p)
      <4>1. PICK seen \in SUBSET recorded : todo' = [todo EXCEPT ![p] = Versions \ seen]
        BY <3>3 DEF ReadInPart
      <4>2. Versions \ todo'[p] \subseteq recorded
        BY <4>1 DEF IInv, TypeOK
      <4> QED
        BY <1>1, <3>1, <4>2, QuietStep
    <3> QED
      BY <2>3, <3>2, <3>3
  <2>4. CASE Execute(p)
    <3>1. /\ UNCHANGED <<driver, schema, recorded, todo>>
          /\ driver = "postgres" /\ step[p] = "migrate" /\ step'[p] = "execute"
          /\ \A q \in Processes \ {p} : step'[q] = step[q]
      BY <2>4 DEF Execute, Goto, database, IInv, TypeOK
    <3>2. Versions \ todo'[p] \subseteq recorded
      BY <3>1 DEF IInv, ListIsComplete, Busy
    <3> QED
      BY <3>1, <3>2, <1>1, QuietStep
  <2>5. CASE Opened(p)
    <3>1. /\ UNCHANGED <<driver, schema, recorded, todo>>
          /\ todo[p] = {} /\ step[p] = "migrate" /\ step'[p] = "open"
          /\ \A q \in Processes \ {p} : step'[q] = step[q]
      BY <2>5 DEF Opened, Goto, database, IInv, TypeOK
    <3>2. recorded = Versions
      BY <3>1 DEF IInv, ListIsComplete, Busy, TypeOK
    <3> QED
      BY <3>1, <3>2, <1>1, QuietStep DEF Busy
  <2>6. ASSUME NEW m \in Seeding, Configure(p, m) PROVE IInv'
    BY <2>6, <1>1 DEF Configure, IInv, RecordedIsApplied, InOrder, ListIsComplete, Busy,
       RecordsApplied, First, TwoStatements, OpenIsWhole
  <2> QED
    BY <2>1, <2>2, <2>3, <2>4, <2>5, <2>6, <1>1, ApplyStep, ExecutionStep, RecordStep
       DEF Advance
<1> QED
  BY <1>2, <1>3

LEMMA Invariance == Spec => []IInv
<1>1. IInv /\ [Next]_vars => IInv'
  BY InvStep
<1> QED
  BY <1>1, InitInv, PTL DEF Spec

-----------------------------------------------------------------------------
(* The variables have their types.                                         *)
THEOREM Typing == Spec => []TypeOK
<1>1. IInv => TypeOK
  BY DEF IInv
<1> QED
  BY <1>1, Invariance, PTL

(* What is recorded is in the schema, after any crash of any process; with *)
(* SQLite, the two are the same.                                           *)
THEOREM RecordingIsSafe == Spec => []RecordedIsApplied
<1>1. IInv => RecordedIsApplied
  BY DEF IInv
<1> QED
  BY <1>1, Invariance, PTL

(* With SQLite, only the users of an open store change the rows that a     *)
(* recorded migration has inserted.                                        *)
THEOREM SeedingIsOnce == Spec => NotSeededAgain
<1>1. ASSUME IInv, [Next]_vars
      PROVE  [driver = "sqlite" =>
               \A m \in (seeded' \ seeded) \cap recorded :
                 \E p \in Processes : Configure(p, m)]_vars
  <2> SUFFICES ASSUME Next, driver = "sqlite", NEW m \in (seeded' \ seeded) \cap recorded
               PROVE  \E p \in Processes : Configure(p, m)
    BY <1>1
  <2>1. PICK p \in Processes :
          \/ Open(p) \/ Advance(p) \/ ReadInPart(p) \/ Fail(p) \/ Close(p)
          \/ \E n \in Seeding : Configure(p, n)
    BY DEF Next
  <2>2. ~(Open(p) \/ Close(p) \/ Fail(p) \/ Read(p) \/ ReadInPart(p) \/ Execute(p) \/ Opened(p))
    BY DEF Open, Close, Fail, Read, ReadInPart, Execute, Opened, database
  <2>3. ASSUME NEW n \in Versions, Execution(p, n) \/ Record(p, n) PROVE FALSE
    BY <2>3 DEF Execution, Record
  <2>4. ASSUME NEW n \in Versions, ApplyMigration(p, n) PROVE FALSE
    BY <2>4 DEF ApplyMigration
  <2>5. PICK n \in Seeding : Configure(p, n)
    BY <2>1, <2>2, <2>3, <2>4 DEF Advance
  <2>6. n = m
    BY <2>5 DEF Configure
  <2> QED
    BY <2>5, <2>6
<1> QED
  BY <1>1, Invariance, PTL DEF Spec, NotSeededAgain

-----------------------------------------------------------------------------
(* Both drivers implement SchemaUpgrade.                                   *)
LEMMA UpgradeInit == Init => Upgrade!Init
  BY DEF Init, Upgrade!Init

LEMMA UpgradeStep ==
  IInv /\ [Next]_vars => [Upgrade!Next]_<<schema, {p \in Processes : step[p] = "open"}>>
<1> SUFFICES ASSUME IInv, [Next]_vars
             PROVE  [Upgrade!Next]_<<schema, {p \in Processes : step[p] = "open"}>>
  OBVIOUS
<1> DEFINE open == {p \in Processes : step[p] = "open"}
<1>1. CASE UNCHANGED vars
  BY <1>1 DEF vars
<1>2. CASE Next
  <2>1. PICK p \in Processes :
          \/ Open(p) \/ Advance(p) \/ ReadInPart(p) \/ Fail(p) \/ Close(p)
          \/ \E m \in Seeding : Configure(p, m)
    BY <1>2 DEF Next
  <2>2. CASE Open(p) \/ Read(p) \/ ReadInPart(p) \/ Fail(p) \/ Execute(p)
    <3>1. schema' = schema /\ open' = open
      BY <2>2 DEF Open, Read, ReadInPart, Fail, Execute, Goto, ReturnError, database, IInv, TypeOK
    <3> QED
      BY <3>1
  <2>3. CASE Close(p)
    <3>1. schema' = schema /\ open' = open \ {p}
      BY <2>3 DEF Close, Goto, database, IInv, TypeOK
    <3> QED
      BY <3>1 DEF Upgrade!Next, Upgrade!Close
  <2>4. CASE Opened(p)
    <3>1. schema' = schema /\ open' = open \cup {p}
      BY <2>4 DEF Opened, Goto, database, IInv, TypeOK
    <3>2. schema = Upgrade!Versions
      BY <2>4 DEF Opened, Goto, IInv, ListIsComplete, Busy, RecordedIsApplied, TypeOK,
         Versions, Upgrade!Versions
    <3> QED
      BY <3>1, <3>2 DEF Upgrade!Next, Upgrade!Open
  <2>5. ASSUME NEW m \in Versions, First(p, m), Busy(p),
               schema' = schema \cup {m}, open' = open
        PROVE  [Upgrade!Next]_<<schema, open>>
    <3>1. CASE m \in schema
      BY <2>5, <3>1
    <3>2. CASE m \notin schema
      <4>1. 1..(m - 1) \subseteq schema
        BY <2>5, FirstIsNext, MigrationsAssumption DEF Versions
      <4> QED
        BY <2>5, <3>2, <4>1 DEF Upgrade!Next, Upgrade!Apply, Upgrade!Versions, Versions
    <3> QED
      BY <3>1, <3>2
  <2>6. ASSUME NEW m \in Versions, ApplyMigration(p, m) \/ Execution(p, m)
        PROVE  [Upgrade!Next]_<<schema, open>>
    <3>1. open' = open
      BY <2>6 DEF ApplyMigration, Execution, Executed, ReturnError, IInv, TypeOK
    <3>2. Busy(p) /\ First(p, m)
      BY <2>6 DEF ApplyMigration, Execution, Busy
    <3>3. schema' = schema \/ schema' = schema \cup {m}
      BY <2>6 DEF ApplyMigration, Execution, Executed
    <3> QED
      BY <3>1, <3>2, <3>3, <2>5
  <2>7. ASSUME NEW m \in Versions, Record(p, m) PROVE [Upgrade!Next]_<<schema, open>>
    <3>1. schema' = schema /\ open' = open
      BY <2>7 DEF Record, IInv, TypeOK
    <3> QED
      BY <3>1
  <2>8. ASSUME NEW m \in Seeding, Configure(p, m) PROVE [Upgrade!Next]_<<schema, open>>
    <3>1. schema' = schema /\ open' = open
      BY <2>8 DEF Configure
    <3> QED
      BY <3>1
  <2> QED
    BY <2>1, <2>2, <2>3, <2>4, <2>6, <2>7, <2>8 DEF Advance
<1> QED
  BY <1>1, <1>2

(* However many processes open a database, on either driver: its schema    *)
(* grows by one version after the other, and who has it open has them all. *)
THEOREM UpgradeImplemented == Spec => ImplementsUpgrade
<1>1. IInv /\ [Next]_vars => [Upgrade!Next]_<<schema, {p \in Processes : step[p] = "open"}>>
  BY UpgradeStep
<1> QED
  BY <1>1, UpgradeInit, Invariance, PTL DEF Spec, ImplementsUpgrade, Upgrade!Spec

=============================================================================
