----------------------------- MODULE Migrations -----------------------------
(***************************************************************************)
(* Opening a store: the migrations that are not recorded are executed in   *)
(* the order of their versions and recorded.  The processes are the        *)
(* daemons and commands that open the same database, at the same time or   *)
(* after one another; each may end or lose its connection anywhere.        *)
(*                                                                         *)
(* With SQLite the statements of a migration and the row that records it   *)
(* are one transaction.  With PostgreSQL they are two: the statements can  *)
(* be executed a second time, which their IF NOT EXISTS makes harmless for *)
(* the schema, and two processes can execute them at the same time.        *)
(***************************************************************************)
EXTENDS Naturals

CONSTANTS
  Processes,
  Drivers,          \* of "sqlite" and "postgres", those considered
  Last,             \* the migrations have the versions 1, 2, ..., Last
  Seeding,          \* those that insert a row as well: 002, the allowlist's '*'
  MaxFaults         \* bound: crashes, lost connections and failed statements

ASSUME MigrationsAssumption ==
  /\ Drivers \subseteq {"sqlite", "postgres"}
  /\ Last \in Nat /\ MaxFaults \in Nat
  /\ Seeding \subseteq 1..Last

Versions == 1..Last

VARIABLES
  driver,
  schema,           \* the migrations whose tables and columns are there
  seeded,           \* the rows inserted by migrations that are there
  recorded,         \* the rows of schema_migrations
  step,             \* what each process does,
  todo,             \*   the migrations it has found not to be recorded
  before,           \*   the schema when its statement began
  faults

database == <<driver, schema, seeded, recorded>>
vars == <<driver, schema, seeded, recorded, step, todo, before, faults>>

Steps == {"closed", "read", "migrate", "execute", "record", "open"}

Init ==
  /\ driver \in Drivers
  /\ \E k \in 0..Last : schema = 1..k /\ recorded = 1..k
  /\ seeded \in SUBSET (Seeding \cap schema)
  /\ step = [p \in Processes |-> "closed"]
  /\ todo = [p \in Processes |-> {}]
  /\ before = [p \in Processes |-> {}]
  /\ faults = 0

Goto(p, from, to) == step[p] = from /\ step' = [step EXCEPT ![p] = to]
ReturnError(p) ==
  step' = [step EXCEPT ![p] = "closed"] /\ todo' = [todo EXCEPT ![p] = {}]
Done(p, m) == todo' = [todo EXCEPT ![p] = @ \ {m}]

(* The next one of a process, in the order of versions.                    *)
BadFirst(p, m) == m \in todo[p]                         \* not sorted
First(p, m) == m \in todo[p] /\ \A k \in todo[p] : m <= k

-----------------------------------------------------------------------------
Open(p) ==
  /\ Goto(p, "closed", "read")
  /\ UNCHANGED <<database, todo, before, faults>>

Read(p) ==
  /\ Goto(p, "read", "migrate")
  /\ todo' = [todo EXCEPT ![p] = Versions \ recorded]
  /\ UNCHANGED <<database, before, faults>>

(* PostgreSQL: an error while the rows are read ends the reading, and what *)
(* has been read is taken for all that is recorded.                        *)
ReadInPart(p) ==
  /\ driver = "postgres" /\ faults < MaxFaults
  /\ Goto(p, "read", "migrate")
  /\ \E seen \in SUBSET recorded : todo' = [todo EXCEPT ![p] = Versions \ seen]
  /\ faults' = faults + 1
  /\ UNCHANGED <<database, before>>

-----------------------------------------------------------------------------
BadApplyMigration(p, m) ==                              \* without a transaction
  /\ driver = "sqlite" /\ step[p] = "migrate" /\ First(p, m)
  /\ seeded' = seeded \cup ({m} \cap Seeding)
  /\ IF m \in schema
     THEN ReturnError(p) /\ UNCHANGED <<schema, recorded>>
     ELSE /\ schema' = schema \cup {m} /\ recorded' = recorded \cup {m}
          /\ Done(p, m) /\ UNCHANGED step
  /\ UNCHANGED <<driver, before, faults>>

(* SQLite.  Of a migration that another process has applied meanwhile, a   *)
(* column or the recorded version is a duplicate: all of it is rolled back *)
(* and the store is not opened.                                            *)
ApplyMigration(p, m) ==
  /\ driver = "sqlite" /\ step[p] = "migrate" /\ First(p, m)
  /\ IF m \in schema \cup recorded
     THEN ReturnError(p) /\ UNCHANGED <<schema, seeded, recorded>>
     ELSE /\ schema' = schema \cup {m} /\ recorded' = recorded \cup {m}
          /\ seeded' = seeded \cup ({m} \cap Seeding)
          /\ Done(p, m) /\ UNCHANGED step
  /\ UNCHANGED <<driver, before, faults>>

(* PostgreSQL: the statements of a migration, from their begin ...         *)
Execute(p) ==
  /\ driver = "postgres" /\ todo[p] # {}
  /\ Goto(p, "migrate", "execute")
  /\ before' = [before EXCEPT ![p] = schema]
  /\ UNCHANGED <<database, todo, faults>>

BadExecuted(p, m) ==                                    \* of the next version
  /\ UNCHANGED todo
  /\ step' = [step EXCEPT ![p] = "record"]
  /\ schema' = schema \cup {m + 1}
  /\ seeded' = seeded \cup ({m} \cap Seeding)

Executed(p, m) ==
  /\ UNCHANGED todo
  /\ step' = [step EXCEPT ![p] = "record"]
  /\ schema' = schema \cup {m}
  /\ seeded' = seeded \cup ({m} \cap Seeding)

(* What may fail because another process executes the same: a duplicate.   *)
Overtaken(p, m) == m \in schema \ before[p]

BadExecution(p, m) ==                                   \* every error is passed over
  /\ driver = "postgres" /\ step[p] = "execute" /\ First(p, m)
  /\ \/ Executed(p, m)
     \/ step' = [step EXCEPT ![p] = "record"] /\ UNCHANGED <<schema, seeded, todo>>
  /\ before' = [before EXCEPT ![p] = {}]
  /\ UNCHANGED <<driver, recorded, faults>>

(* ... to their end.  An error that says "already exists" is passed over,  *)
(* any other one ends the opening, and both undo all of the statements.    *)
Execution(p, m) ==
  /\ driver = "postgres" /\ step[p] = "execute" /\ First(p, m)
  /\ \/ Executed(p, m)
     \/ /\ Overtaken(p, m)
        /\ \/ step' = [step EXCEPT ![p] = "record"] /\ UNCHANGED todo
           \/ ReturnError(p)
        /\ UNCHANGED <<schema, seeded>>
  /\ before' = [before EXCEPT ![p] = {}]
  /\ UNCHANGED <<driver, recorded, faults>>

BadRecord(p, m) ==                                      \* the same one again
  /\ step[p] = "record" /\ First(p, m)
  /\ step' = [step EXCEPT ![p] = "migrate"]
  /\ recorded' = recorded \cup {m}
  /\ UNCHANGED <<driver, schema, seeded, todo, before, faults>>

Record(p, m) ==
  /\ step[p] = "record" /\ First(p, m)
  /\ step' = [step EXCEPT ![p] = "migrate"]
  /\ recorded' = recorded \cup {m}
  /\ Done(p, m)
  /\ UNCHANGED <<driver, schema, seeded, before, faults>>

(* SQLite then prepares statements that name the tables and columns.       *)
Opened(p) ==
  /\ todo[p] = {}
  /\ Goto(p, "migrate", "open")
  /\ UNCHANGED <<database, todo, before, faults>>

-----------------------------------------------------------------------------
Close(p) ==
  /\ Goto(p, "open", "closed")
  /\ UNCHANGED <<database, todo, before, faults>>

(* The allowlist belongs to the users of an open store.                    *)
Configure(p, m) ==
  /\ step[p] = "open"
  /\ seeded' = IF m \in seeded THEN seeded \ {m} ELSE seeded \cup {m}
  /\ UNCHANGED <<driver, schema, recorded, step, todo, before, faults>>

(* A crash, a failed statement, a lost connection or a locked database.    *)
Fail(p) ==
  /\ step[p] \notin {"closed", "open"} /\ faults < MaxFaults
  /\ ReturnError(p)
  /\ before' = [before EXCEPT ![p] = {}]
  /\ faults' = faults + 1
  /\ UNCHANGED database

Advance(p) ==
  \/ Read(p) \/ Execute(p) \/ Opened(p)
  \/ \E m \in Versions : ApplyMigration(p, m) \/ Execution(p, m) \/ Record(p, m)

Next ==
  \E p \in Processes :
    \/ Open(p) \/ Advance(p) \/ ReadInPart(p) \/ Fail(p) \/ Close(p)
    \/ \E m \in Seeding : Configure(p, m)

Spec == Init /\ [][Next]_vars

(* Who opens a store goes on until it is open or an error is returned.     *)
FairSpec == Spec /\ \A p \in Processes : WF_vars(Advance(p))

-----------------------------------------------------------------------------
(* Properties.                                                             *)

TypeOK ==
  /\ driver \in Drivers
  /\ schema \subseteq Versions /\ recorded \subseteq Versions
  /\ seeded \subseteq Seeding
  /\ step \in [Processes -> Steps]
  /\ todo \in [Processes -> SUBSET Versions]
  /\ before \in [Processes -> SUBSET Versions]
  /\ faults \in 0..MaxFaults

(* Nothing is recorded that is not in the schema, although PostgreSQL      *)
(* records in a statement of its own and passes over errors that say       *)
(* "already exists"; with SQLite the two never differ, whoever crashes.    *)
RecordedIsApplied ==
  /\ recorded \subseteq schema
  /\ driver = "sqlite" => recorded = schema

(* Both drivers keep the promise of SchemaUpgrade: in order, each once,    *)
(* and a store that is open has all of them.                               *)
Upgrade == INSTANCE SchemaUpgrade
             WITH applied <- schema, open <- {p \in Processes : step[p] = "open"}
ImplementsUpgrade == Upgrade!Spec

(* applyMigration is one transaction: a row that a migration has inserted  *)
(* and a user has removed since is not inserted again by a process that    *)
(* read the versions before.  It does not hold with PostgreSQL.            *)
NotSeededAgain ==
  [][driver = "sqlite" =>
       \A m \in (seeded' \ seeded) \cap recorded :
         \E p \in Processes : Configure(p, m)]_vars

(* Of the processes that open a database at the same time, each of which   *)
(* can make the others fail, one gets through with all the migrations: if  *)
(* one begins when nothing else fails any more.                            *)
SomeoneMigrates ==
  (\E p \in Processes : step[p] = "read") /\ faults = MaxFaults ~> recorded = Versions

=============================================================================
