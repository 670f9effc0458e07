--------------------------- MODULE MCEventStream ----------------------------
(***************************************************************************)
(* Constants of EventStream for TLC.                                       *)
(***************************************************************************)
EXTENDS EventStream

CONSTANTS t1, r1, s1

(* A line that is too long with more to come than the pipe holds after it, *)
(* and one with less.                                                      *)
MCScripts ==
  [t \in Turns |-> {<<"event", "text">>, <<"text", "long">>, <<"long", "event", "event">>}]

=============================================================================
