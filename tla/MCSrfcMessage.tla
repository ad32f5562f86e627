----------------------------- MODULE MCSrfcMessage -----------------------------
(***************************************************************************)
(* A small instance of SrfcMessage for TLC: names with and without a       *)
(* separator, values that may be empty, sizes and ids of one and of two    *)
(* digits, and a payload with a NUL in it.                                 *)
(***************************************************************************)
EXTENDS SrfcMessage

MCParams == {<<<<"a", "blank", "b">>, <<"b">>>>, <<<<"a">>, <<>>>>}
MCCharacter == {"nul", "uninitialised", "a", "b", "m"} \cup Separators \cup Keywords \cup ToSet(Digit)
MCMethods == {<<"m">>}
MCPayloads == {[i \in 1..10 |-> IF i = 4 THEN "nul" ELSE ":"]}
MCStatuses == {0, 503}

(* Bound: no step is taken from a state in which both have parameters.      *)
FewParameters == \E o \in Objects : request[o].parameters = <<>>

MCSymmetry == Permutations(Objects)
=============================================================================
