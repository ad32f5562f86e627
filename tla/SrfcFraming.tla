------------------------------ MODULE SrfcFraming ------------------------------
(***************************************************************************)
(* How messages cross the byte stream between two connections: __send__ at *)
(* one end, and the body of the loop of __listener__, from __receive__ to  *)
(* the dispatch, at the other.  SrfcConnection takes messages as whole;    *)
(* this module is about cutting them out of the stream.                    *)
(*                                                                         *)
(* A message m is Size[m] units long.  The first Preamble units hold the   *)
(* size, the first Header[m] are what is_valid_message looks at, the rest  *)
(* is payload.  The unit i of message m is the pair <<m, i>>.              *)
(***************************************************************************)
EXTENDS Integers, Sequences, FiniteSets

CONSTANTS Messages,      \* the messages sent, each once
          Size, Header,  \* functions of the message
          Preamble,      \* 32 bytes in the code
          BufSize,       \* the most one read returns: 1024 bytes in the code
          Capacity,      \* what the kernel holds of the stream
          OneSender,     \* TRUE: the application runs one send at a time
          Garbage        \* what std::stoul may make of 32 bytes that are no
                         \* preamble: a set of sizes, -1 an exception

ASSUME FramingAssumption ==
  /\ Preamble \in Nat \ {0} /\ BufSize \in Nat \ {0} /\ Capacity \in Nat \ {0}
  /\ Size \in [Messages -> Nat] /\ Header \in [Messages -> Nat]
  /\ \A m \in Messages : Preamble <= Header[m] /\ Header[m] <= Size[m]
  /\ OneSender \in BOOLEAN
  /\ Garbage \subseteq Nat \cup {-1}

Unit == Messages \X (Nat \ {0})

VARIABLES written,       \* written[m]: units of m given to the kernel
          wire,          \* the units in the kernel
          receivedData,  \* the listener's buffer
          dispatched,    \* the frames passed to handlers, in order
          order,         \* auxiliary: messages in the order their sends began
          overlapped     \* auxiliary: a send began while another was running

vars == <<written, wire, receivedData, dispatched, order, overlapped>>

Init == /\ written = [m \in Messages |-> 0]
        /\ wire = <<>> /\ receivedData = <<>> /\ dispatched = <<>>
        /\ order = <<>> /\ overlapped = FALSE

Units(m, from, to) == [i \in 1..(to - from + 1) |-> <<m, from + i - 1>>]

Sending(m) == written[m] \in 1..(Size[m] - 1)

-----------------------------------------------------------------------------
(* Mutant: a send that continues starts over at the size of the message.   *)
Send_ForgetsProgress(m, n) ==
  /\ n <= Size[m] /\ Len(wire) + n <= Capacity
  /\ OneSender => \A k \in Messages \ {m} : ~Sending(k)
  /\ written' = [written EXCEPT ![m] = @ + n]
  /\ wire' = wire \o Units(m, written[m] + 1, written[m] + n)
  /\ order' = IF written[m] = 0 THEN Append(order, m) ELSE order
  /\ overlapped' = (overlapped \/ \E k \in Messages \ {m} : Sending(k))
  /\ UNCHANGED <<receivedData, dispatched>>

(* __send__: ::send blocks until the kernel has taken the whole message,   *)
(* n units at a time as there is room.  Nothing in the code keeps the      *)
(* threads that send over one socket apart.                                *)
Send(m, n) ==
  /\ n <= Size[m] - written[m] /\ Len(wire) + n <= Capacity
  /\ OneSender => \A k \in Messages \ {m} : ~Sending(k)
  /\ written' = [written EXCEPT ![m] = @ + n]
  /\ wire' = wire \o Units(m, written[m] + 1, written[m] + n)
  /\ order' = IF written[m] = 0 THEN Append(order, m) ELSE order
  /\ overlapped' = (overlapped \/ \E k \in Messages \ {m} : Sending(k))
  /\ UNCHANGED <<receivedData, dispatched>>

(* get_size_from_preamble                                                  *)
SizeFromPreamble(data) ==
  LET whose == {m \in Messages : \A i \in 1..Preamble : data[i] = <<m, i>>}
  IN IF whose = {} THEN Garbage ELSE {Size[m] : m \in whose}

(* is_valid_message: preamble and header are in place, the size is right;  *)
(* the payload can be anything.                                            *)
IsValid(frame) ==
  \E m \in Messages : /\ Len(frame) = Size[m]
                      /\ \A i \in 1..Header[m] : frame[i] = <<m, i>>

(* A whole message is cut off the front and passed on if it is valid.      *)
Extract(data, size) ==
  LET frame == SubSeq(data, 1, size)
  IN /\ receivedData' = SubSeq(data, size + 1, Len(data))
     /\ dispatched' = IF IsValid(frame) THEN Append(dispatched, frame) ELSE dispatched

(* Mutant: what is no whole message yet is dropped.                        *)
Keep_Discards(data) == receivedData' = <<>> /\ UNCHANGED dispatched

Keep(data) == receivedData' = data /\ UNCHANGED dispatched

(* One round of the loop of __listener__: a read of n units.               *)
Receive(n) ==
  /\ n <= Len(wire)
  /\ wire' = SubSeq(wire, n + 1, Len(wire))
  /\ LET data == receivedData \o SubSeq(wire, 1, n)
     IN \/ Len(data) < Preamble /\ Keep(data)
        \/ /\ Len(data) >= Preamble
           /\ \E size \in SizeFromPreamble(data) :
                \/ size = -1 /\ Keep(<<>>)                 \* invalid preamble
                \/ size > Len(data) /\ Keep(data)
                \/ size \in 0..Len(data) /\ Extract(data, size)
  /\ UNCHANGED <<written, order, overlapped>>

Next == \/ \E m \in Messages, n \in 1..Capacity : Send(m, n)
        \/ \E n \in 1..BufSize : Receive(n)

Spec == Init /\ [][Next]_vars

-----------------------------------------------------------------------------
(* The whole of message m, as one frame.                                   *)
Whole(m) == Units(m, 1, Size[m])

(* The messages sent in full: until two sends overlap, all but possibly    *)
(* the last.                                                               *)
Complete == IF order # <<>> /\ Sending(order[Len(order)])
            THEN SubSeq(order, 1, Len(order) - 1) ELSE order

(* A message received whole is passed to its handler: when all is read,    *)
(* nothing is left in the buffer.                                          *)
ReceivedIsDispatched ==
  wire = <<>> /\ (\A m \in Messages : written[m] = Size[m])
    => Len(dispatched) = Cardinality(Messages)

(* The framing implements MessageChannel up to the first overlap of two    *)
(* sends: every message whole, in order and once.                          *)
MessageOf(frame) == IF \E m \in Messages : frame = Whole(m)
                    THEN CHOOSE m \in Messages : frame = Whole(m) ELSE <<>>

Channel == INSTANCE MessageChannel
             WITH sent <- Complete,
                  delivered <- [i \in DOMAIN dispatched |-> MessageOf(dispatched[i])]

ImplementsChannel ==
  /\ Channel!Init
  /\ [][Channel!Next \/ overlapped']_<<Complete, dispatched, overlapped>>

(* Every variable has its type.                                            *)
TypeOK == /\ written \in [Messages -> Nat]
          /\ \A m \in Messages : written[m] <= Size[m]
          /\ wire \in Seq(Unit) /\ Len(wire) <= Capacity
          /\ receivedData \in Seq(Unit)
          /\ dispatched \in Seq(Seq(Unit))
          /\ order \in Seq(Messages)
          /\ overlapped \in BOOLEAN
=============================================================================
