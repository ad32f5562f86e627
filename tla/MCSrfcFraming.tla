----------------------------- MODULE MCSrfcFraming -----------------------------
(***************************************************************************)
(* Small instances of SrfcFraming for TLC: a message that is header only,  *)
(* one with a payload longer than a read, one in between.                  *)
(***************************************************************************)
EXTENDS SrfcFraming

CONSTANTS short, middle, long

MCSize == [m \in Messages |-> CASE m = short -> 3 [] m = middle -> 4 [] m = long -> 5]
MCHeader == [m \in Messages |-> 3]
MCGarbage == {-1, 0, 3}
=============================================================================
