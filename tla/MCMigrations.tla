---------------------------- MODULE MCMigrations ----------------------------
(***************************************************************************)
(* Constants of Migrations for TLC.                                        *)
(***************************************************************************)
EXTENDS Migrations

CONSTANTS p1, p2, p3

=============================================================================
