-------------------------- MODULE AllowlistProofs ---------------------------
(***************************************************************************)
(* Proofs about Allowlist, for all sets of clients and domains.            *)
(***************************************************************************)
EXTENDS Allowlist, TLAPS

(* Names for the alternatives of Next, of which every proof has a step.    *)
BeginAny(c) ==
  \E op \in Ops \ {"none"}, d \in Domains \cup {Star, Blank} : Begin(c, op, d)

(* Every state reached has the types of the table and of the clients, one  *)
(* of whose operations at a time is between two of its statements          *)
(* (queries.go, AllowDomain, DisallowDomain and ResetAllowlist).           *)
THEOREM TypeCorrect == Spec => []TypeOK
<1>1. Init => TypeOK
  <2> SUFFICES ASSUME Init PROVE TypeOK
    OBVIOUS
  <2>1. Idle \in [op : Ops, domain : Domains \cup {Star}, step : Steps]
    BY DEF Idle, Ops, Steps
  <2>2. alone \in [Clients -> BOOLEAN] /\ broken \in BOOLEAN
    BY DEF Init
  <2>3. QED
    BY <2>1, <2>2 DEF Init, TypeOK
<1>2. TypeOK /\ [Next]_vars => TypeOK'
  <2> SUFFICES ASSUME TypeOK, [Next]_vars PROVE TypeOK'
    OBVIOUS
  <2> USE DEF TypeOK
  <2>1. CASE UNCHANGED vars
    BY <2>1 DEF vars
  <2>2. ASSUME NEW c \in Clients, BeginAny(c) PROVE TypeOK'
    <3>1. PICK op \in Ops \ {"none"}, d \in Domains \cup {Star, Blank} : Begin(c, op, d)
      BY <2>2 DEF BeginAny
    <3>2. FirstStep(op, d) \in Steps
      BY DEF FirstStep, Steps
    <3>3. cmd' \in [Clients -> [op : Ops, domain : Domains \cup {Star}, step : Steps]]
      BY <3>1, <3>2 DEF Begin
    <3>4. alone' \in [Clients -> BOOLEAN]
      BY <3>1 DEF Begin
    <3>5. before' \in [Clients -> SUBSET (Domains \cup {Star})]
      BY <3>1 DEF Begin
    <3>6. QED
      BY <3>1, <3>3, <3>4, <3>5 DEF Begin
  <2>3. ASSUME NEW c \in Clients, Statement(c) PROVE TypeOK'
    <3>1. cmd' \in [Clients -> [op : Ops, domain : Domains \cup {Star}, step : Steps]]
      BY <2>3 DEF Statement, Unwild, UnwildFails, Insert, Delete, List, Clear, Default,
         Goto, Return, Idle, Ops, Steps
    <3>2. list' \subseteq Domains \cup {Star}
      BY <2>3 DEF Statement, Unwild, UnwildFails, Insert, Delete, List, Clear, Default
    <3>3. alone' \in [Clients -> BOOLEAN]
      BY <2>3, Zenon DEF Statement, Unwild, UnwildFails, Insert, Delete, List, Clear, Default
    <3>4. UNCHANGED <<before, broken>>
      BY <2>3 DEF Statement, Unwild, UnwildFails, Insert, Delete, List, Clear, Default
    <3>5. QED
      BY <3>1, <3>2, <3>3, <3>4
  <2>4. ASSUME NEW c \in Clients, Abort(c) PROVE TypeOK'
    BY <2>4 DEF Abort, Return, Idle, Ops, Steps
  <2>5. QED
    BY <2>1, <2>2, <2>3, <2>4 DEF Next, BeginAny
<1>3. QED
  BY <1>1, <1>2, PTL DEF Spec

-----------------------------------------------------------------------------
(* "Never allow empty set": an operation returns only when the list has a  *)
(* row, because the one that empties it is not finished (queries.go,       *)
(* DisallowDomain), whatever the other clients do meanwhile.  The          *)
(* invariant needs nothing but the types.                                  *)
THEOREM FilledAgain == Spec => []NeverLeftEmpty
<1>1. Init => NeverLeftEmpty
  BY DEF Init, NeverLeftEmpty
<1>2. TypeOK /\ NeverLeftEmpty /\ [Next]_vars => NeverLeftEmpty'
  <2> SUFFICES ASSUME TypeOK, NeverLeftEmpty, [Next]_vars, list' = {}
               PROVE  broken' \/ \E c \in Clients : Busy(c)'
    BY DEF NeverLeftEmpty
  <2>1. CASE UNCHANGED vars
    BY <2>1 DEF vars, NeverLeftEmpty, Busy
  <2>2. ASSUME NEW c \in Clients, BeginAny(c) PROVE Busy(c)'
    BY <2>2 DEF BeginAny, Begin, Busy, TypeOK
  <2>3. ASSUME NEW c \in Clients, Statement(c) PROVE Busy(c)'
    BY <2>3 DEF Statement, Unwild, UnwildFails, Insert, Delete, List, Clear, Default,
       At, Goto, Busy, TypeOK
  <2>4. ASSUME NEW c \in Clients, Abort(c) PROVE broken'
    BY <2>4 DEF Abort
  <2>5. QED
    BY <2>1, <2>2, <2>3, <2>4 DEF Next, BeginAny
<1>3. QED
  BY <1>1, <1>2, TypeCorrect, PTL DEF Spec

-----------------------------------------------------------------------------
(* How far an operation has come, when nothing has disturbed it: what each *)
(* statement has made of the list that the first one found.                *)
SoFar(c) ==
  LET op == cmd[c].op  d == cmd[c].domain  step == cmd[c].step  old == before[c]
  IN  /\ step = "unwild" => op = "allow" /\ d # Star /\ list = old
      /\ step = "insert" => op = "allow" /\ d # Star /\ list = old \ {Star}
      /\ step = "delete" => op = "disallow" /\ list = old
      /\ step = "list" => op = "disallow" /\ list = old \ {d}
      /\ step = "clear" => Result(op, d, old) = {Star}
      /\ step = "default" => Result(op, d, old) = {Star} /\ list = {}

Undisturbed ==
  \A c \in Clients :
    Busy(c) /\ alone[c] => SoFar(c) /\ \A y \in Clients \ {c} : ~Busy(y)

LEMMA UndisturbedInv == Spec => []Undisturbed
<1>1. Init => Undisturbed
  BY DEF Init, Undisturbed, Busy, Idle
<1>2. TypeOK /\ Undisturbed /\ [Next]_vars => Undisturbed'
  <2> SUFFICES ASSUME TypeOK, Undisturbed, [Next]_vars,
                      NEW c \in Clients, Busy(c)', alone'[c]
               PROVE  SoFar(c)' /\ \A y \in Clients \ {c} : ~Busy(y)'
    BY DEF Undisturbed
  <2>1. CASE UNCHANGED vars
    BY <2>1 DEF vars, Undisturbed, Busy, SoFar, Result
  <2>2. ASSUME NEW x \in Clients, BeginAny(x)
        PROVE  SoFar(c)' /\ \A y \in Clients \ {c} : ~Busy(y)'
    <3>1. PICK op \in Ops \ {"none"}, d \in Domains \cup {Star, Blank} : Begin(x, op, d)
      BY <2>2 DEF BeginAny
    <3>2. x = c /\ \A y \in Clients : ~Busy(y)
      BY <3>1 DEF Begin
    <3>3. /\ cmd'[c] = [op |-> op, domain |-> d, step |-> FirstStep(op, d)]
          /\ before'[c] = list /\ list' = list
          /\ \A y \in Clients \ {c} : cmd'[y] = cmd[y]
      BY <3>1, <3>2 DEF Begin, TypeOK
    <3>4. \A y \in Clients \ {c} : ~Busy(y)'
      BY <3>2, <3>3 DEF Busy
    <3>5. SoFar(c)'
      BY <3>3 DEF SoFar, Result, FirstStep, ToStar, Ops
    <3>6. QED
      BY <3>4, <3>5
  <2>3. ASSUME NEW x \in Clients, Statement(x)
        PROVE  SoFar(c)' /\ \A y \in Clients \ {c} : ~Busy(y)'
    <3>1. alone[c] /\ Busy(x) /\ before' = before
      BY <2>3 DEF Statement, Unwild, UnwildFails, Insert, Delete, List, Clear, Default,
         At, TypeOK
    <3>2. \A y \in Clients \ {x} : cmd'[y] = cmd[y]
      BY <2>3 DEF Statement, Unwild, UnwildFails, Insert, Delete, List, Clear, Default,
         Goto, Return, TypeOK
    <3>3. Busy(c)
      BY <2>3, <3>1, <3>2 DEF Busy
    <3>4. x = c /\ SoFar(c) /\ \A y \in Clients \ {c} : ~Busy(y)
      BY <3>1, <3>3 DEF Undisturbed
    <3>5. \A y \in Clients \ {c} : ~Busy(y)'
      BY <3>2, <3>4 DEF Busy
    <3>6. SoFar(c)'
      <4> USE <3>1, <3>4 DEF At, TypeOK, SoFar, Result, ToStar, Ops
      <4>1. CASE Unwild(c)
        BY <4>1 DEF Unwild, Goto
      <4>2. CASE UnwildFails(c)
        BY <4>2 DEF UnwildFails
      <4>3. CASE Insert(c)
        BY <4>3 DEF Insert, Return, Idle, Busy
      <4>4. CASE Delete(c)
        BY <4>4 DEF Delete, Goto
      <4>5. CASE List(c)
        BY <4>5 DEF List, Goto, Return, Idle, Busy
      <4>6. CASE Clear(c)
        BY <4>6 DEF Clear, Goto
      <4>7. CASE Default(c)
        BY <4>7 DEF Default, Return, Idle, Busy
      <4>8. QED
        BY <2>3, <4>1, <4>2, <4>3, <4>4, <4>5, <4>6, <4>7 DEF Statement
    <3>7. QED
      BY <3>5, <3>6
  <2>4. ASSUME NEW x \in Clients, Abort(x)
        PROVE  SoFar(c)' /\ \A y \in Clients \ {c} : ~Busy(y)'
    <3>1. x # c /\ Busy(x) /\ Busy(c) /\ alone[c]
      BY <2>4 DEF Abort, Return, Busy, TypeOK
    <3>2. QED
      BY <3>1 DEF Undisturbed
  <2>5. QED
    BY <2>1, <2>2, <2>3, <2>4 DEF Next, BeginAny
<1>3. QED
  BY <1>1, <1>2, TypeCorrect, PTL DEF Spec

(* An operation that nothing disturbs has its meaning, however the ones    *)
(* before it overlapped or were cut short (queries.go, AllowDomain,        *)
(* DisallowDomain and ResetAllowlist, none of which is a transaction).     *)
THEOREM UndisturbedIsAtomic == Spec => AloneIsAtomic
<1>1. TypeOK /\ Undisturbed /\ [Next]_vars =>
        [\A c \in Clients :
           Busy(c) /\ cmd'[c].op = "none" /\ alone[c] /\ alone'[c]
             => list' = Result(cmd[c].op, cmd[c].domain, before[c])]_vars
  <2> SUFFICES ASSUME TypeOK, Undisturbed, Next, NEW c \in Clients,
                      Busy(c), cmd'[c].op = "none", alone[c], alone'[c]
               PROVE  list' = Result(cmd[c].op, cmd[c].domain, before[c])
    BY DEF Next
  <2>1. SoFar(c)
    BY DEF Undisturbed
  <2>2. ASSUME NEW x \in Clients, BeginAny(x) PROVE FALSE
    BY <2>2 DEF BeginAny, Begin, Busy, TypeOK, Ops
  <2>3. ASSUME NEW x \in Clients, Abort(x) PROVE FALSE
    BY <2>3 DEF Abort, Return, Busy, TypeOK
  <2>4. ASSUME NEW x \in Clients, Statement(x)
        PROVE  list' = Result(cmd[c].op, cmd[c].domain, before[c])
    <3>1. x = c
      BY <2>4 DEF Statement, Unwild, UnwildFails, Insert, Delete, List, Clear, Default,
         At, Goto, Return, Busy, TypeOK
    <3>2. Insert(c) \/ List(c) \/ Default(c)
      BY <2>4, <3>1 DEF Statement, Unwild, UnwildFails, Delete, Clear, Goto, Busy, TypeOK
    <3> USE <2>1 DEF SoFar, Result, ToStar, At, TypeOK
    <3>3. CASE Insert(c)
      BY <3>3 DEF Insert
    <3>4. CASE List(c)
      BY <3>4 DEF List, Goto, Busy
    <3>5. CASE Default(c)
      BY <3>5 DEF Default
    <3>6. QED
      BY <3>2, <3>3, <3>4, <3>5
  <2>5. QED
    BY <2>2, <2>3, <2>4 DEF Next, BeginAny
<1>2. QED
  BY <1>1, TypeCorrect, UndisturbedInv, PTL DEF Spec, AloneIsAtomic

=============================================================================
