---------------------------- MODULE MCListPages ----------------------------
(* Instances of ListPages for TLC. *)
EXTENDS ListPages

CONSTANTS u1, u2

TwoUsers == {u1, u2}
=============================================================================
