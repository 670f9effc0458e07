-------------------------- MODULE MCSchedulerTick ---------------------------
(***************************************************************************)
(* Constants of SchedulerTick for TLC.                                     *)
(***************************************************************************)
EXTENDS SchedulerTick

CONSTANTS t1, t2, g1, g2, g3

=============================================================================
