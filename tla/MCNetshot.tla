------------------------------- MODULE MCNetshot -------------------------------
(***************************************************************************)
(* A small instance of Netshot for TLC: the directory holds a screenshot   *)
(* of each day.                                                            *)
(***************************************************************************)
EXTENDS Netshot

MCExisting == {<<1, 2>>, <<2, 1>>}
=============================================================================
