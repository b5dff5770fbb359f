------------------------------ MODULE MCEvent ------------------------------
(***************************************************************************)
(* The timeouts of the small instance: none, and a second and a half.      *)
(***************************************************************************)
EXTENDS KEvent

Waits == {-1, 3}
=============================================================================
