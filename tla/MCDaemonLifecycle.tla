------------------------- MODULE MCDaemonLifecycle --------------------------
(***************************************************************************)
(* Constants of DaemonLifecycle for TLC.                                   *)
(***************************************************************************)
EXTENDS DaemonLifecycle

CONSTANTS p1, p2, c1, c2

=============================================================================
