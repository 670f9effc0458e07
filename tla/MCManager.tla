----------------------------- MODULE MCManager ------------------------------
(***************************************************************************)
(* Constants of Manager for TLC.                                           *)
(***************************************************************************)
EXTENDS Manager

=============================================================================
