---------------------------- MODULE MessageChannel ----------------------------
(***************************************************************************)
(* What the framing of SRFC messages over a byte stream promises: messages *)
(* sent one after another are handed over whole, in order and once each.   *)
(***************************************************************************)
EXTENDS Sequences, Integers

CONSTANT Messages

VARIABLES sent,      \* the messages sent, in order
          delivered  \* the messages handed to the handlers, in order

Init == sent = <<>> /\ delivered = <<>>

Send == /\ \E m \in Messages : sent' = Append(sent, m)
        /\ UNCHANGED delivered

Deliver == /\ Len(delivered) < Len(sent)
           /\ delivered' = SubSeq(sent, 1, Len(delivered) + 1)
           /\ UNCHANGED sent

Next == Send \/ Deliver

Spec == Init /\ [][Next]_<<sent, delivered>>
=============================================================================
