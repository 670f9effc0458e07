--------------------------- MODULE SchemaUpgrade ----------------------------
(***************************************************************************)
(* What opening a store promises, whichever driver it has and whoever else *)
(* opens it: migrations take effect one by one, in the order of their      *)
(* versions and each of them once, and nobody has a store open that lacks  *)
(* one of them.                                                            *)
(***************************************************************************)
EXTENDS Naturals

CONSTANTS Processes, Last        \* the last version of a migration

Versions == 1..Last

VARIABLES applied, open

Init ==
  /\ \E k \in 0..Last : applied = 1..k         \* left by an older program
  /\ open = {}

Apply(m) ==
  /\ m \notin applied /\ 1..(m - 1) \subseteq applied
  /\ applied' = applied \cup {m}
  /\ UNCHANGED open

Open(p) ==
  /\ applied = Versions
  /\ open' = open \cup {p}
  /\ UNCHANGED applied

Close(p) ==
  /\ open' = open \ {p}
  /\ UNCHANGED applied

Next ==
  \/ \E m \in Versions : Apply(m)
  \/ \E p \in Processes : Open(p) \/ Close(p)

Spec == Init /\ [][Next]_<<applied, open>>

=============================================================================
