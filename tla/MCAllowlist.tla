---------------------------- MODULE MCAllowlist -----------------------------
(***************************************************************************)
(* Constants of Allowlist for TLC.                                         *)
(***************************************************************************)
EXTENDS Allowlist

CONSTANTS c1, c2, d1, d2

=============================================================================
