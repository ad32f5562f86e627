--------------------------- MODULE MCSrfcConnection ---------------------------
(***************************************************************************)
(* Small instances of SrfcConnection for TLC.  Calls are interchangeable,  *)
(* and so are request ids: rid starts as any function, the rest of Init    *)
(* and every action treat them alike.                                      *)
(***************************************************************************)
EXTENDS SrfcConnection, TLC

CONSTANTS r1, m1

MCMethodOf == [r \in Requests |-> m1]

MCSymmetry == Permutations(Calls) \cup Permutations(Ids)
=============================================================================
