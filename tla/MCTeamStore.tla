---------------------------- MODULE MCTeamStore -----------------------------
(***************************************************************************)
(* Constants of TeamStore for TLC.                                         *)
(***************************************************************************)
EXTENDS TeamStore, TLC

CONSTANTS c1, c2, alice

Symmetric == Permutations({c1, c2})

=============================================================================
