------------------------------ MODULE MCMessenger ------------------------------
(***************************************************************************)
(* A small instance of Messenger for TLC: somebody types at every end.     *)
(***************************************************************************)
EXTENDS Messenger

MCTypists == Ends
=============================================================================
