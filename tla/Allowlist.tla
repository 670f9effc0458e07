----------------------------- MODULE Allowlist ------------------------------
(***************************************************************************)
(* The network allowlist: a table of domains, of which Star allows all,    *)
(* and the operations allow, disallow and reset, each of which is several  *)
(* statements without a transaction.  Requests and commands overlap; a     *)
(* statement may fail, and a client may go away in between.                *)
(***************************************************************************)
CONSTANTS
  Clients,
  Domains,
  Star,       \* "*", unrestricted
  Blank       \* "", refused

ASSUME AllowlistAssumption == Star \notin Domains /\ Blank \notin Domains \cup {Star}

VARIABLES
  list,       \* the rows of network_allowlist
  cmd,        \* what each client does
  before,     \* history: the list when the client began,
  alone,      \*   whether it has been undisturbed since,
  broken      \*   and whether any operation was left half done

vars == <<list, cmd, before, alone, broken>>

Ops == {"none", "allow", "disallow", "reset"}
Steps == {"unwild", "insert", "delete", "list", "clear", "default"}
Idle == [op |-> "none", domain |-> Star, step |-> "clear"]
Busy(c) == cmd[c].op # "none"

(* Migration 002 inserts the wildcard.                                     *)
Init ==
  /\ list = {Star}
  /\ cmd = [c \in Clients |-> Idle]
  /\ before = [c \in Clients |-> {}]
  /\ alone = [c \in Clients |-> FALSE]
  /\ broken = FALSE

ToStar(op, d) == op = "reset" \/ (op = "allow" /\ d = Star)
FirstStep(op, d) ==
  IF ToStar(op, d) THEN "clear" ELSE IF op = "allow" THEN "unwild" ELSE "delete"

BadBegin(c, op, d) ==                                   \* no check of the domain
  /\ ~Busy(c)
  /\ cmd' = [cmd EXCEPT ![c] = [op |-> op, domain |-> d, step |-> FirstStep(op, d)]]
  /\ before' = [before EXCEPT ![c] = list]
  /\ alone' = [x \in Clients |-> (x = c) /\ \A y \in Clients : ~Busy(y)]
  /\ UNCHANGED <<list, broken>>

Begin(c, op, d) ==
  /\ ~Busy(c) /\ d # Blank
  /\ cmd' = [cmd EXCEPT ![c] = [op |-> op, domain |-> d, step |-> FirstStep(op, d)]]
  /\ before' = [before EXCEPT ![c] = list]
  /\ alone' = [x \in Clients |-> (x = c) /\ \A y \in Clients : ~Busy(y)]
  /\ UNCHANGED <<list, broken>>

-----------------------------------------------------------------------------
(* The statements.                                                         *)

At(c, step) == Busy(c) /\ cmd[c].step = step
Goto(c, step) ==
  cmd' = [cmd EXCEPT ![c] = [op |-> cmd[c].op, domain |-> cmd[c].domain, step |-> step]]
Return(c) == cmd' = [cmd EXCEPT ![c] = Idle]

(* DELETE WHERE domain = '*': an error is ignored.                         *)
BadUnwild(c) ==                                         \* the wildcard stays
  /\ At(c, "unwild")
  /\ Goto(c, "insert")
  /\ UNCHANGED <<list, before, alone, broken>>

Unwild(c) ==
  /\ At(c, "unwild")
  /\ Goto(c, "insert")
  /\ list' = list \ {Star}
  /\ UNCHANGED <<before, alone, broken>>

UnwildFails(c) ==
  /\ At(c, "unwild")
  /\ Goto(c, "insert")
  /\ alone' = [alone EXCEPT ![c] = FALSE]
  /\ UNCHANGED <<list, before, broken>>

Insert(c) ==
  /\ At(c, "insert")
  /\ list' = list \cup {cmd[c].domain}
  /\ Return(c)
  /\ UNCHANGED <<before, alone, broken>>

Delete(c) ==
  /\ At(c, "delete")
  /\ list' = list \ {cmd[c].domain}
  /\ Goto(c, "list")
  /\ UNCHANGED <<before, alone, broken>>

BadList(c) ==                                           \* an empty list stays
  /\ At(c, "list")
  /\ Return(c)
  /\ UNCHANGED <<list, before, alone, broken>>

List(c) ==
  /\ At(c, "list")
  /\ IF list = {} THEN Goto(c, "clear") ELSE Return(c)
  /\ UNCHANGED <<list, before, alone, broken>>

(* ResetAllowlist.                                                         *)
Clear(c) ==
  /\ At(c, "clear")
  /\ list' = {}
  /\ Goto(c, "default")
  /\ UNCHANGED <<before, alone, broken>>

Default(c) ==
  /\ At(c, "default")
  /\ list' = list \cup {Star}
  /\ Return(c)
  /\ UNCHANGED <<before, alone, broken>>

(* Another statement fails, or the client's context or process ends: the   *)
(* rest is not executed.                                                   *)
Abort(c) ==
  /\ Busy(c)
  /\ Return(c)
  /\ alone' = [alone EXCEPT ![c] = FALSE]
  /\ broken' = TRUE
  /\ UNCHANGED <<list, before>>

Statement(c) ==
  \/ Unwild(c) \/ UnwildFails(c) \/ Insert(c) \/ Delete(c) \/ List(c)
  \/ Clear(c) \/ Default(c)

Next ==
  \E c \in Clients :
    \/ \E op \in Ops \ {"none"}, d \in Domains \cup {Star, Blank} : Begin(c, op, d)
    \/ Statement(c) \/ Abort(c)

Spec == Init /\ [][Next]_vars

-----------------------------------------------------------------------------
(* Properties.                                                             *)

TypeOK ==
  /\ list \subseteq Domains \cup {Star}
  /\ cmd \in [Clients -> [op : Ops, domain : Domains \cup {Star}, step : Steps]]
  /\ before \in [Clients -> SUBSET (Domains \cup {Star})]
  /\ alone \in [Clients -> BOOLEAN]
  /\ broken \in BOOLEAN

(* "Never allow empty set; default to unrestricted": however the           *)
(* operations overlap, an empty list is on its way to be filled.  It is    *)
(* empty in between, and stays so when an operation was left half done.    *)
NeverLeftEmpty == list = {} => broken \/ \E c \in Clients : Busy(c)

(* What an operation means.                                                *)
Result(op, d, old) ==
  IF ToStar(op, d) THEN {Star}
  ELSE IF op = "allow" THEN (old \ {Star}) \cup {d}
  ELSE IF old \ {d} = {} THEN {Star} ELSE old \ {d}

(* An operation that nothing disturbs from its first statement to its last *)
(* has its meaning, whatever mixture earlier ones have left.               *)
AloneIsAtomic ==
  [][\A c \in Clients :
       Busy(c) /\ cmd'[c].op = "none" /\ alone[c] /\ alone'[c]
         => list' = Result(cmd[c].op, cmd[c].domain, before[c])]_vars

=============================================================================
