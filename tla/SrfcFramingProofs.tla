--------------------------- MODULE SrfcFramingProofs ---------------------------
(***************************************************************************)
(* Proofs about SrfcFraming: types, and that __send__ and the loop of      *)
(* __listener__ implement MessageChannel until two sends overlap, for      *)
(* every set of messages, every size of them, of the reads and of the      *)
(* kernel's buffer.                                                        *)
(***************************************************************************)
EXTENDS SrfcFraming, SequenceTheorems, TLAPS

(* What was written and not yet dispatched.                                *)
Stream == receivedData \o wire

(* Sends come one after another.                                           *)
OrderInv ==
  /\ \A m \in Messages : written[m] > 0 <=> \E j \in 1..Len(order) : order[j] = m
  /\ \A j \in 1..(Len(order) - 1) : written[order[j]] = Size[order[j]]

(* What was dispatched is what was sent first.                             *)
DispatchedInv ==
  /\ Len(dispatched) <= Len(order)
  /\ \A j \in 1..Len(dispatched) : /\ dispatched[j] = Whole(order[j])
                                   /\ written[order[j]] = Size[order[j]]

(* start[j] is the place in stream of the first unit of the message        *)
(* names[j], of which lens[j] units are there, for j after the first d of  *)
(* all; the last of start is the end of the stream.                        *)
Layout(start, d, all, size, lens, stream, names) ==
  /\ start[d + 1] = 1 /\ start[all + 1] = size + 1
  /\ \A j, k \in (d + 1)..(all + 1) : j <= k => start[j] <= start[k]
  /\ \A j \in (d + 1)..all : start[j + 1] = start[j] + lens[j]
  /\ \A j \in (d + 1)..all : \A k \in 1..lens[j] : stream[start[j] + k - 1] = <<names[j], k>>

(* How much of each message was written, in the order of the sends.        *)
Lengths == [j \in 1..Len(order) |-> written[order[j]]]

Laid(start) == Layout(start, Len(dispatched), Len(order), Len(Stream), Lengths, Stream, order)

(* What is in the stream are the messages that are not dispatched, one     *)
(* after another.                                                          *)
StreamInv == \E start \in [1..(Len(order) + 1) -> Int] : Laid(start)

FrameInv == overlapped \/ (OrderInv /\ DispatchedInv /\ StreamInv)

-----------------------------------------------------------------------------
LEMMA UnitsAre ==
  ASSUME NEW m \in Messages, NEW from \in Nat \ {0}, NEW to \in Nat, to >= from
  PROVE  /\ Units(m, from, to) \in Seq(Unit)
         /\ Len(Units(m, from, to)) = to - from + 1
         /\ \A k \in 1..(to - from + 1) : Units(m, from, to)[k] = <<m, from + k - 1>>
  BY DEF Units, Unit

(* A piece of a sequence, and what a read or a cut leaves of two joined.   *)
LEMMA Piece ==
  ASSUME NEW S, NEW s \in Seq(S), NEW j \in Nat \ {0}, NEW k \in Nat, j <= k + 1, k <= Len(s)
  PROVE  /\ SubSeq(s, j, k) \in Seq(S)
         /\ Len(SubSeq(s, j, k)) = k - j + 1
         /\ \A i \in 1..(k - j + 1) : SubSeq(s, j, k)[i] = s[i + j - 1]
  <1>1. \A i \in j..k : s[i] \in S
    OBVIOUS
  <1>2. /\ SubSeq(s, j, k) \in Seq(S)
        /\ Len(SubSeq(s, j, k)) = IF j <= k THEN k - j + 1 ELSE 0
        /\ \A i \in 1..(k - j + 1) : SubSeq(s, j, k)[i] = s[j + i - 1]
    BY <1>1, SubSeqProperties
  <1> QED
    BY <1>2

LEMMA Front ==
  ASSUME NEW S, NEW s \in Seq(S), NEW k \in Nat, k <= Len(s)
  PROVE  /\ SubSeq(s, 1, k) \in Seq(S) /\ Len(SubSeq(s, 1, k)) = k
         /\ \A i \in 1..k : SubSeq(s, 1, k)[i] = s[i]
  <1> DEFINE f == SubSeq(s, 1, k)
  <1>1. f \in Seq(S) /\ Len(f) = k - 1 + 1 /\ \A i \in 1..(k - 1 + 1) : f[i] = s[i + 1 - 1]
    BY Piece
  <1> HIDE DEF f
  <1>2. f \in Seq(S) /\ Len(f) = k /\ \A i \in 1..k : f[i] = s[i]
    BY <1>1
  <1> QED
    BY <1>2 DEF f

LEMMA ReadLengths ==
  ASSUME NEW S, NEW a \in Seq(S), NEW b \in Seq(S), NEW n \in 0..Len(b)
  PROVE  /\ a \o SubSeq(b, 1, n) \in Seq(S)
         /\ Len(a \o SubSeq(b, 1, n)) = Len(a) + n
         /\ SubSeq(b, n + 1, Len(b)) \in Seq(S)
         /\ Len(SubSeq(b, n + 1, Len(b))) = Len(b) - n
  OBVIOUS

LEMMA ReadJoins ==
  ASSUME NEW S, NEW a \in Seq(S), NEW b \in Seq(S), NEW n \in 0..Len(b)
  PROVE  (a \o SubSeq(b, 1, n)) \o SubSeq(b, n + 1, Len(b)) = a \o b
  <1> DEFINE front == SubSeq(b, 1, n)
             rest  == SubSeq(b, n + 1, Len(b))
  <1>1. /\ front \in Seq(S) /\ Len(front) = n
        /\ \A i \in 1..n : front[i] = b[i]
    BY Front
  <1>2. /\ rest \in Seq(S) /\ Len(rest) = Len(b) - n
        /\ \A i \in 1..(Len(b) - n) : rest[i] = b[i + n]
    <2>1. /\ rest \in Seq(S) /\ Len(rest) = Len(b) - (n + 1) + 1
          /\ \A i \in 1..(Len(b) - (n + 1) + 1) : rest[i] = b[i + (n + 1) - 1]
      BY Piece
    <2> HIDE DEF rest
    <2> QED
      BY <2>1
  <1> HIDE DEF front, rest
  <1>3. front \o rest = b
    <2>1. /\ front \o rest \in Seq(S)
          /\ Len(front \o rest) = Len(front) + Len(rest)
          /\ \A i \in 1..(Len(front) + Len(rest)) : (front \o rest)[i] =
               IF i <= Len(front) THEN front[i] ELSE rest[i - Len(front)]
      BY <1>1, <1>2, ConcatProperties
    <2>2. Len(front \o rest) = Len(b)
      BY <1>1, <1>2, <2>1
    <2>3. \A i \in 1..Len(b) : (front \o rest)[i] = b[i]
      BY <1>1, <1>2, <2>1
    <2> QED
      BY <2>1, <2>2, <2>3, SeqEqual
  <1>4. (a \o front) \o rest = a \o b
    <2>1. (a \o front) \o rest = a \o (front \o rest)
      BY <1>1, <1>2, ConcatAssociative
    <2> QED
      BY <1>3, <2>1
  <1> QED
    BY <1>4 DEF front, rest

LEMMA CutJoins ==
  ASSUME NEW S, NEW a \in Seq(S), NEW b \in Seq(S), NEW k \in 0..Len(a)
  PROVE  LET back == SubSeq(a, k + 1, Len(a))
         IN  /\ back \in Seq(S) /\ Len(back \o b) = Len(a \o b) - k
             /\ \A i \in 1..(Len(a \o b) - k) : (back \o b)[i] = (a \o b)[i + k]
  <1> DEFINE back == SubSeq(a, k + 1, Len(a))
  <1>1. /\ back \in Seq(S) /\ Len(back) = Len(a) - k
        /\ \A i \in 1..(Len(a) - k) : back[i] = a[i + k]
    <2>1. /\ back \in Seq(S) /\ Len(back) = Len(a) - (k + 1) + 1
          /\ \A i \in 1..(Len(a) - (k + 1) + 1) : back[i] = a[i + (k + 1) - 1]
      BY Piece
    <2> HIDE DEF back
    <2> QED
      BY <2>1
  <1> HIDE DEF back
  <1>2. /\ Len(back \o b) = Len(back) + Len(b)
        /\ \A i \in 1..(Len(back) + Len(b)) : (back \o b)[i] =
             IF i <= Len(back) THEN back[i] ELSE b[i - Len(back)]
    BY <1>1, ConcatProperties
  <1>3. /\ Len(a \o b) = Len(a) + Len(b)
        /\ \A i \in 1..(Len(a) + Len(b)) : (a \o b)[i] =
             IF i <= Len(a) THEN a[i] ELSE b[i - Len(a)]
    BY ConcatProperties
  <1>4. Len(back \o b) = Len(a \o b) - k
    BY <1>1, <1>2, <1>3
  <1>5. \A i \in 1..(Len(a \o b) - k) : (back \o b)[i] = (a \o b)[i + k]
    BY <1>1, <1>2, <1>3
  <1> QED
    BY <1>1, <1>4, <1>5 DEF back

-----------------------------------------------------------------------------
LEMMA TypeInit == Init => TypeOK
  <1> SUFFICES ASSUME Init PROVE TypeOK
    OBVIOUS
  <1>1. written \in [Messages -> Nat] /\ \A m \in Messages : written[m] <= Size[m]
    BY FramingAssumption DEF Init
  <1>2. Len(wire) <= Capacity
    BY FramingAssumption DEF Init
  <1>3. /\ wire \in Seq(Unit) /\ receivedData \in Seq(Unit) /\ dispatched \in Seq(Seq(Unit))
        /\ order \in Seq(Messages)
    BY EmptySeq DEF Init
  <1> QED
    BY <1>1, <1>2, <1>3 DEF Init, TypeOK

LEMMA TypeSend ==
  ASSUME TypeOK, NEW m \in Messages, NEW n \in 1..Capacity, Send(m, n)
  PROVE  TypeOK'
  <1>1. written[m] \in Nat /\ Size[m] \in Nat /\ n <= Size[m] - written[m]
    BY FramingAssumption DEF TypeOK, Send
  <1>2. written' \in [Messages -> Nat] /\ \A k \in Messages : written'[k] <= Size[k]
    <2>1. written' = [written EXCEPT ![m] = written[m] + n]
      BY DEF Send
    <2>2. written \in [Messages -> Nat] /\ \A k \in Messages : Size[k] \in Nat /\ written[k] <= Size[k]
      BY FramingAssumption DEF TypeOK
    <2> QED
      BY ONLY <1>1, <2>1, <2>2, n \in 1..Capacity, FramingAssumption
  <1>3. wire' \in Seq(Unit) /\ Len(wire') <= Capacity
    <2> DEFINE sent == Units(m, written[m] + 1, written[m] + n)
    <2> DEFINE from == written[m] + 1
               to   == written[m] + n
    <2>1. from \in Nat \ {0} /\ to \in Nat /\ to >= from /\ to - from + 1 = n
      BY <1>1
    <2> HIDE DEF from, to
    <2>2. Units(m, from, to) \in Seq(Unit) /\ Len(Units(m, from, to)) = n
      BY <2>1, UnitsAre
    <2>3. sent \in Seq(Unit) /\ Len(sent) = n
      BY <2>2 DEF from, to
    <2> HIDE DEF sent
    <2> QED
      BY <2>3, FramingAssumption DEF TypeOK, Send, sent
  <1> QED
    BY <1>2, <1>3 DEF TypeOK, Send

LEMMA TypeReceive == ASSUME TypeOK, NEW n \in 1..BufSize, Receive(n) PROVE TypeOK'
  <1> DEFINE data == receivedData \o SubSeq(wire, 1, n)
  <1>1. n \in 0..Len(wire) /\ data \in Seq(Unit)
    BY FramingAssumption, ReadLengths DEF TypeOK, Receive
  <1>2. wire' \in Seq(Unit) /\ Len(wire') <= Capacity
    BY <1>1, FramingAssumption DEF TypeOK, Receive
  <1>3. SizeFromPreamble(data) \subseteq Nat \cup {-1}
    BY FramingAssumption DEF SizeFromPreamble
  <1>4. receivedData' \in Seq(Unit) /\ dispatched' \in Seq(Seq(Unit))
    <2>1. CASE Keep(data) \/ Keep(<<>>)
      BY <1>1, <2>1, EmptySeq DEF Keep, TypeOK
    <2>2. CASE \E size \in SizeFromPreamble(data) : size \in 0..Len(data) /\ Extract(data, size)
      <3>1. PICK size \in 0..Len(data) : Extract(data, size)
        BY <2>2
      <3>2. SubSeq(data, 1, size) \in Seq(Unit) /\ SubSeq(data, size + 1, Len(data)) \in Seq(Unit)
        BY <1>1
      <3> QED
        BY <3>1, <3>2 DEF Extract, TypeOK
    <2> QED
      BY <2>1, <2>2 DEF Receive
  <1> QED
    BY <1>2, <1>4 DEF Receive, TypeOK

LEMMA TypeNext == TypeOK /\ [Next]_vars => TypeOK'
  <1> SUFFICES ASSUME TypeOK, [Next]_vars PROVE TypeOK'
    OBVIOUS
  <1>1. CASE UNCHANGED vars
    BY <1>1 DEF vars, TypeOK
  <1> QED
    BY <1>1, TypeSend, TypeReceive DEF Next

(* Every variable has its type, whatever garbage a preamble may hold.      *)
THEOREM TypeCorrect == Spec => []TypeOK
  BY TypeInit, TypeNext, PTL DEF Spec

-----------------------------------------------------------------------------
(* A send that overlaps no other: m is the last of order afterwards, and   *)
(* every other message in it is complete.                                  *)
LEMMA SendAlone ==
  ASSUME TypeOK, OrderInv, NEW m \in Messages, NEW n \in 1..Capacity, Send(m, n),
         ~overlapped, ~overlapped'
  PROVE  /\ written' = [written EXCEPT ![m] = written[m] + n]
         /\ written[m] \in Nat /\ n \in Nat \ {0} /\ written[m] + n <= Size[m]
         /\ Size[m] \in Nat
         /\ \/ /\ written[m] = 0 /\ order' = Append(order, m)
               /\ \A j \in 1..Len(order) : order[j] # m /\ written[order[j]] = Size[order[j]]
            \/ /\ written[m] > 0 /\ order' = order /\ Len(order) > 0 /\ order[Len(order)] = m
               /\ \A j \in 1..(Len(order) - 1) : order[j] # m
  <1>1. /\ written' = [written EXCEPT ![m] = written[m] + n]
        /\ written[m] \in Nat /\ n \in Nat \ {0} /\ written[m] + n <= Size[m]
        /\ Size[m] \in Nat /\ order \in Seq(Messages) /\ Len(order) \in Nat
    <2>1. written' = [written EXCEPT ![m] = written[m] + n]
      BY DEF Send
    <2>2. n \in Nat \ {0} /\ Size[m] \in Nat
      BY FramingAssumption
    <2>3. written[m] \in Nat /\ order \in Seq(Messages) /\ Len(order) \in Nat
      BY DEF TypeOK
    <2>4. n <= Size[m] - written[m]
      BY DEF Send
    <2> QED
      BY <2>1, <2>2, <2>3, <2>4
  <1>2. \A d \in Messages \ {m} : ~Sending(d)
    BY DEF Send, TypeOK
  <1>3. ASSUME NEW j \in 1..Len(order), order[j] # m
        PROVE  written[order[j]] = Size[order[j]]
    <2>1. order[j] \in Messages
      BY <1>1
    <2>2. written[order[j]] \in Nat /\ Size[order[j]] \in Nat
          /\ written[order[j]] <= Size[order[j]]
      BY <2>1, FramingAssumption DEF TypeOK
    <2>3. written[order[j]] > 0
      BY <2>1 DEF OrderInv
    <2>4. ~Sending(order[j])
      BY <1>2, <1>3, <2>1
    <2> QED
      BY <2>2, <2>3, <2>4 DEF Sending
  <1>4. CASE written[m] = 0
    <2>1. order' = Append(order, m)
      BY <1>4 DEF Send
    <2>2. \A j \in 1..Len(order) : order[j] # m
      BY <1>1, <1>4 DEF OrderInv
    <2> QED
      BY <1>1, <1>3, <1>4, <2>1, <2>2
  <1>5. CASE written[m] > 0
    <2>1. order' = order
      BY <1>1, <1>5 DEF Send
    <2>2. PICK j \in 1..Len(order) : order[j] = m
      BY <1>5 DEF OrderInv
    <2>3. \A i \in 1..(Len(order) - 1) : order[i] # m
      BY <1>1 DEF OrderInv
    <2>4. j = Len(order)
      BY <1>1, <2>2, <2>3
    <2> QED
      BY <1>1, <1>5, <2>1, <2>2, <2>3, <2>4
  <1> QED
    BY <1>1, <1>4, <1>5

LEMMA OrderSend ==
  ASSUME TypeOK, OrderInv, NEW m \in Messages, NEW n \in 1..Capacity, Send(m, n),
         ~overlapped, ~overlapped'
  PROVE  OrderInv'
  <1>1. order \in Seq(Messages) /\ Len(order) \in Nat /\ written \in [Messages -> Nat]
    BY DEF TypeOK
  <1>2. CASE /\ written[m] = 0 /\ order' = Append(order, m)
             /\ \A j \in 1..Len(order) : order[j] # m /\ written[order[j]] = Size[order[j]]
    <2>1. /\ Len(order') = Len(order) + 1 /\ order'[Len(order) + 1] = m
          /\ \A j \in 1..Len(order) : order'[j] = order[j] /\ order[j] \in Messages
      BY <1>1, <1>2
    <2>2. \A d \in Messages : written'[d] > 0 <=> \E j \in 1..Len(order') : order'[j] = d
      <3>1. \A d \in Messages : written'[d] > 0 <=> written[d] > 0 \/ d = m
        BY <1>1, SendAlone
      <3>2. \A d \in Messages : (\E j \in 1..Len(order') : order'[j] = d)
                                 <=> (\E j \in 1..Len(order) : order[j] = d) \/ d = m
        BY <1>1, <2>1
      <3> QED
        BY <3>1, <3>2 DEF OrderInv
    <2>3. \A j \in 1..(Len(order') - 1) : written'[order'[j]] = Size[order'[j]]
      BY <1>1, <1>2, <2>1, SendAlone
    <2> QED
      BY <2>2, <2>3 DEF OrderInv
  <1>3. CASE /\ written[m] > 0 /\ order' = order /\ Len(order) > 0 /\ order[Len(order)] = m
             /\ \A j \in 1..(Len(order) - 1) : order[j] # m
    <2>1. \A d \in Messages : written'[d] > 0 <=> written[d] > 0
      <3>1. written' = [written EXCEPT ![m] = written[m] + n] /\ n \in Nat
        BY SendAlone
      <3> QED
        BY <1>1, <1>3, <3>1
    <2>2. \A j \in 1..(Len(order) - 1) : written'[order[j]] = written[order[j]]
      <3>1. written' = [written EXCEPT ![m] = written[m] + n]
        BY SendAlone
      <3> QED
        BY <1>1, <1>3, <3>1
    <2> QED
      BY <1>3, <2>1, <2>2 DEF OrderInv
  <1> QED
    BY <1>2, <1>3, SendAlone

LEMMA DispatchedSend ==
  ASSUME TypeOK, OrderInv, DispatchedInv, NEW m \in Messages, NEW n \in 1..Capacity,
         Send(m, n), ~overlapped, ~overlapped'
  PROVE  DispatchedInv'
  <1>1. /\ order \in Seq(Messages) /\ Len(order) \in Nat /\ written \in [Messages -> Nat]
        /\ Len(dispatched) \in Nat /\ dispatched' = dispatched
    BY DEF TypeOK, Send
  <1>2. Len(order') >= Len(order) /\ \A j \in 1..Len(order) : order'[j] = order[j]
    <2>1. order' = order \/ order' = Append(order, m)
      BY SendAlone
    <2> QED
      BY <1>1, <2>1
  <1>3. \A j \in 1..Len(dispatched) : order[j] # m
    <2> SUFFICES ASSUME NEW j \in 1..Len(dispatched), order[j] = m PROVE FALSE
      OBVIOUS
    <2>1. j \in 1..Len(order) /\ written[m] = Size[m]
      BY <1>1 DEF DispatchedInv
    <2> QED
      BY <2>1, SendAlone
  <1>4. \A j \in 1..Len(dispatched) : written'[order[j]] = written[order[j]]
    BY <1>1, <1>3, SendAlone DEF DispatchedInv
  <1>5. Len(dispatched) <= Len(order) /\ Len(dispatched') <= Len(order')
    BY <1>1, <1>2 DEF DispatchedInv
  <1>6. \A j \in 1..Len(dispatched) : order'[j] = order[j]
    BY ONLY <1>1, <1>2, <1>5
  <1> QED
    BY <1>1, <1>4, <1>5, <1>6 DEF DispatchedInv, Whole

-----------------------------------------------------------------------------
(* Before two sends overlap the stream starts with the first message that  *)
(* is not dispatched, and what the preamble says is its size.              *)
LEMMA FirstInStream ==
  ASSUME TypeOK, OrderInv, DispatchedInv,
         NEW start \in [1..(Len(order) + 1) -> Int], Laid(start), Stream # <<>>
  PROVE  LET m == order[Len(dispatched) + 1]
         IN  /\ Len(dispatched) < Len(order) /\ m \in Messages
             /\ \A i \in 1..Len(Stream) : i <= Size[m] => i <= written[m] /\ Stream[i] = <<m, i>>
  <1> DEFINE d == Len(dispatched)
             L == Len(order)
             m == order[d + 1]
             S == Stream
  <1>1. d \in Nat /\ L \in Nat /\ S \in Seq(Unit) /\ Len(S) \in Nat /\ Len(S) > 0
    BY EmptySeq DEF TypeOK, Stream
  <1> HIDE DEF S
  <1>2. /\ start[d + 1] = 1 /\ start[L + 1] = Len(S) + 1
        /\ \A j, k \in (d + 1)..(L + 1) : j <= k => start[j] <= start[k]
        /\ \A j \in (d + 1)..L : start[j + 1] = start[j] + written[order[j]]
        /\ \A j \in (d + 1)..L : \A k \in 1..written[order[j]] :
             S[start[j] + k - 1] = <<order[j], k>>
    <2>1. /\ start[d + 1] = 1 /\ start[L + 1] = Len(S) + 1
          /\ \A j, k \in (d + 1)..(L + 1) : j <= k => start[j] <= start[k]
          /\ \A j \in (d + 1)..L : start[j + 1] = start[j] + Lengths[j]
          /\ \A j \in (d + 1)..L : \A k \in 1..Lengths[j] :
               S[start[j] + k - 1] = <<order[j], k>>
      BY DEF Laid, Layout, S
    <2>2. \A j \in (d + 1)..L : Lengths[j] = written[order[j]]
      BY <1>1 DEF Lengths
    <2> QED
      BY <2>1, <2>2
  <1>3. d <= L
    BY DEF DispatchedInv
  <1>4. d < L
    BY <1>1, <1>2, <1>3
  <1>5. m \in Messages /\ written[m] \in Nat /\ Size[m] \in Nat /\ written[m] <= Size[m]
    <2>1. order \in Seq(Messages) /\ written \in [Messages -> Nat] /\ Size \in [Messages -> Nat]
          /\ \A k \in Messages : written[k] <= Size[k]
      BY FramingAssumption DEF TypeOK
    <2>2. d + 1 \in 1..L
      BY ONLY <1>1, <1>4
    <2> QED
      BY <2>1, <2>2
  <1>6. d + 1 = L \/ written[m] = Size[m]
    BY <1>1, <1>4 DEF OrderInv
  <1>7. \A k \in 1..written[m] : S[k] = <<m, k>>
    <2>1. d + 1 \in (d + 1)..L
      BY <1>1, <1>4
    <2>2. \A k \in 1..written[m] : S[start[d + 1] + k - 1] = <<m, k>>
      BY <1>2, <2>1
    <2>3. \A k \in 1..written[m] : start[d + 1] + k - 1 = k
      BY <1>2, <1>5
    <2> QED
      BY <2>2, <2>3
  <1>8. d + 1 = L => written[m] = Len(S)
    BY <1>1, <1>2, <1>4, <1>5
  <1>9. \A i \in 1..Len(S) : i <= Size[m] => i <= written[m] /\ S[i] = <<m, i>>
    BY <1>1, <1>5, <1>6, <1>7, <1>8
  <1> QED
    BY <1>4, <1>5, <1>9 DEF S

LEMMA PreambleKnown ==
  ASSUME NEW m \in Messages, NEW data \in Seq(Unit), Len(data) >= Preamble,
         \A i \in 1..Len(data) : i <= Size[m] => data[i] = <<m, i>>
  PROVE  SizeFromPreamble(data) = {Size[m]}
  <1>1. Preamble \in Nat \ {0} /\ Size[m] \in Nat /\ Preamble <= Size[m] /\ Len(data) \in Nat
    BY FramingAssumption
  <1>2. \A i \in 1..Preamble : data[i] = <<m, i>>
    BY <1>1
  <1>3. data[1] = <<m, 1>> /\ 1 \in 1..Preamble
    BY <1>1, <1>2
  <1>4. {k \in Messages : \A i \in 1..Preamble : data[i] = <<k, i>>} = {m}
    BY <1>2, <1>3
  <1> QED
    BY <1>4 DEF SizeFromPreamble

LEMMA WholeFrame ==
  ASSUME NEW m \in Messages, NEW data \in Seq(Unit), Len(data) >= Size[m],
         \A i \in 1..Len(data) : i <= Size[m] => data[i] = <<m, i>>
  PROVE  SubSeq(data, 1, Size[m]) = Whole(m) /\ IsValid(Whole(m))
  <1>1. Size[m] \in Nat \ {0} /\ Header[m] \in Nat /\ Header[m] <= Size[m] /\ Len(data) \in Nat
    BY FramingAssumption
  <1>2. /\ Whole(m) \in Seq(Unit) /\ Len(Whole(m)) = Size[m]
        /\ \A k \in 1..Size[m] : Whole(m)[k] = <<m, k>>
    <2> DEFINE from == 1
               to   == Size[m]
    <2>1. from \in Nat \ {0} /\ to \in Nat /\ to >= from
      BY <1>1
    <2>2. /\ Units(m, from, to) \in Seq(Unit)
          /\ Len(Units(m, from, to)) = to - from + 1
          /\ \A k \in 1..(to - from + 1) : Units(m, from, to)[k] = <<m, from + k - 1>>
      BY <2>1, UnitsAre
    <2>3. Whole(m) = Units(m, from, to)
      BY DEF Whole
    <2> HIDE DEF from
    <2>4. from = 1
      BY DEF from
    <2> QED
      BY <1>1, <2>2, <2>3, <2>4
  <1>3. /\ SubSeq(data, 1, Size[m]) \in Seq(Unit) /\ Len(SubSeq(data, 1, Size[m])) = Size[m]
        /\ \A k \in 1..Size[m] : SubSeq(data, 1, Size[m])[k] = data[k]
    BY <1>1, Front
  <1>4. SubSeq(data, 1, Size[m]) = Whole(m)
    <2> DEFINE frame == SubSeq(data, 1, Size[m])
               whole == Whole(m)
    <2>1. /\ frame \in Seq(Unit) /\ Len(frame) = Size[m]
          /\ \A k \in 1..Size[m] : frame[k] = data[k]
      BY <1>3
    <2>2. /\ whole \in Seq(Unit) /\ Len(whole) = Size[m]
          /\ \A k \in 1..Size[m] : whole[k] = <<m, k>>
      BY <1>2
    <2> HIDE DEF frame, whole
    <2>3. \A k \in 1..Size[m] : data[k] = <<m, k>>
      BY <1>1
    <2>4. \A k \in 1..Len(frame) : frame[k] = whole[k]
      BY <2>1, <2>2, <2>3
    <2>5. frame = whole
      BY <2>1, <2>2, <2>4, SeqEqual
    <2> QED
      BY <2>5 DEF frame, whole
  <1>5. IsValid(Whole(m))
    BY <1>1, <1>2 DEF IsValid
  <1> QED
    BY <1>4, <1>5

(* What a round of the loop of __listener__ does until two sends overlap.  *)
LEMMA ReceiveAlone ==
  ASSUME TypeOK, OrderInv, DispatchedInv, StreamInv, NEW n \in 1..BufSize, Receive(n)
  PROVE  /\ written' = written /\ order' = order /\ overlapped' = overlapped
         /\ \/ Stream' = Stream /\ dispatched' = dispatched
            \/ LET m == order[Len(dispatched) + 1]
               IN  /\ Len(dispatched) < Len(order) /\ m \in Messages
                   /\ written[m] = Size[m] /\ Size[m] <= Len(Stream)
                   /\ dispatched' = Append(dispatched, Whole(m))
                   /\ Len(Stream') = Len(Stream) - Size[m]
                   /\ \A i \in 1..Len(Stream') : Stream'[i] = Stream[i + Size[m]]
  <1> DEFINE data == receivedData \o SubSeq(wire, 1, n)
             rest == SubSeq(wire, n + 1, Len(wire))
             m == order[Len(dispatched) + 1]
  <1>1. receivedData \in Seq(Unit) /\ wire \in Seq(Unit) /\ n \in 0..Len(wire) /\ n > 0
    BY FramingAssumption DEF TypeOK, Receive
  <1>2. /\ data \in Seq(Unit) /\ Len(data) = Len(receivedData) + n
        /\ rest \in Seq(Unit) /\ data \o rest = Stream
    <2>1. /\ data \in Seq(Unit) /\ Len(data) = Len(receivedData) + n
          /\ rest \in Seq(Unit) /\ Len(rest) = Len(wire) - n
          /\ data \o rest = receivedData \o wire
      <3>1. data \in Seq(Unit) /\ Len(data) = Len(receivedData) + n
        BY <1>1, ReadLengths
      <3>2. rest \in Seq(Unit) /\ Len(rest) = Len(wire) - n
        BY <1>1, ReadLengths
      <3>3. data \o rest = receivedData \o wire
        BY ONLY <1>1, ReadJoins
      <3> QED
        BY <3>1, <3>2, <3>3
    <2> QED
      BY <2>1 DEF Stream
  <1>3. written' = written /\ order' = order /\ overlapped' = overlapped /\ wire' = rest
    BY DEF Receive
  <1>4. \/ Len(data) < Preamble /\ Keep(data)
        \/ /\ Len(data) >= Preamble
           /\ \E size \in SizeFromPreamble(data) :
                \/ size = -1 /\ Keep(<<>>)
                \/ size > Len(data) /\ Keep(data)
                \/ size \in 0..Len(data) /\ Extract(data, size)
    BY DEF Receive
  <1> HIDE DEF data, rest
  <1>5. Keep(data) => Stream' = Stream /\ dispatched' = dispatched
    BY <1>2, <1>3 DEF Keep, Stream
  <1>6. CASE Len(data) >= Preamble
    <2>1. /\ Stream \in Seq(Unit) /\ Len(data) \in Nat /\ Len(data) > 0 /\ Len(rest) \in Nat
          /\ Len(Stream) = Len(data) + Len(rest)
          /\ \A i \in 1..Len(data) : Stream[i] = data[i]
      <3>1. /\ data \o rest \in Seq(Unit) /\ Len(data \o rest) = Len(data) + Len(rest)
            /\ \A i \in 1..(Len(data) + Len(rest)) : (data \o rest)[i] =
                 IF i <= Len(data) THEN data[i] ELSE rest[i - Len(data)]
        BY <1>2, ConcatProperties
      <3>2. Len(data) \in Nat /\ Len(rest) \in Nat /\ Len(receivedData) \in Nat
        BY <1>1, <1>2
      <3> QED
        <4> DEFINE S == data \o rest
        <4>1. S \in Seq(Unit) /\ Len(S) = Len(data) + Len(rest)
          BY <3>1
        <4>2. \A i \in 1..Len(data) : S[i] = data[i]
          BY <3>1, <3>2
        <4>3. Len(data) > 0
          BY <1>1, <1>2, <3>2
        <4> QED
          BY <1>2, <3>2, <4>1, <4>2, <4>3
    <2>2. Stream # <<>>
      BY <2>1, EmptySeq
    <2>3. /\ Len(dispatched) < Len(order) /\ m \in Messages
          /\ \A i \in 1..Len(Stream) : i <= Size[m] => i <= written[m] /\ Stream[i] = <<m, i>>
      <3>1. PICK start \in [1..(Len(order) + 1) -> Int] : Laid(start)
        BY DEF StreamInv
      <3> QED
        BY <2>2, <3>1, FirstInStream
    <2>4. \A i \in 1..Len(data) : i <= Size[m] => data[i] = <<m, i>>
      BY <2>1, <2>3
    <2>5. SizeFromPreamble(data) = {Size[m]} /\ Size[m] \in Nat \ {0}
      <3> HIDE DEF m
      <3> QED
        <4>1. SizeFromPreamble(data) = {Size[m]}
          BY <1>2, <1>6, <2>3, <2>4, PreambleKnown
        <4>2. Size[m] \in Nat \ {0}
          BY <2>3, FramingAssumption
        <4> QED
          BY <4>1, <4>2
    <2>6. CASE Keep(data)
      BY <1>3, <1>5, <2>6
    <2>7. CASE Size[m] \in 0..Len(data) /\ Extract(data, Size[m])
      <3>1. SubSeq(data, 1, Size[m]) = Whole(m) /\ IsValid(Whole(m))
        <4> HIDE DEF m
        <4> QED
          <5>1. Len(data) >= Size[m]
            BY <2>1, <2>5, <2>7
          <5> QED
            BY <1>2, <2>3, <2>4, <5>1, WholeFrame
      <3>2. dispatched' = Append(dispatched, Whole(m))
        BY <2>7, <3>1 DEF Extract
      <3>3. Stream' = SubSeq(data, Size[m] + 1, Len(data)) \o rest
        BY <1>3, <2>7 DEF Extract, Stream
      <3>4. /\ Len(Stream') = Len(Stream) - Size[m]
            /\ \A i \in 1..(Len(Stream) - Size[m]) : Stream'[i] = Stream[i + Size[m]]
        <4> DEFINE k == Size[m]
        <4>1. k \in 0..Len(data)
          BY <2>7
        <4> HIDE DEF k
        <4> DEFINE back == SubSeq(data, k + 1, Len(data))
        <4>2. /\ back \in Seq(Unit) /\ Len(back \o rest) = Len(data \o rest) - k
              /\ \A i \in 1..(Len(data \o rest) - k) :
                   (back \o rest)[i] = (data \o rest)[i + k]
          <5>1. data \in Seq(Unit) /\ rest \in Seq(Unit)
            BY <1>2
          <5> QED
            BY ONLY <4>1, <5>1, CutJoins
        <4> QED
          BY <1>2, <3>3, <4>2 DEF k
      <3>5. written[m] = Size[m]
        <4>1. written[m] \in Nat /\ written[m] <= Size[m]
          BY <2>3 DEF TypeOK
        <4>2. Size[m] \in 1..Len(Stream)
          BY <2>1, <2>5, <2>7
        <4> QED
          BY <2>3, <2>5, <4>1, <4>2
      <3>6. Size[m] <= Len(Stream)
        BY <2>1, <2>5, <2>7
      <3> HIDE DEF m
      <3>7. \A i \in 1..Len(Stream') : Stream'[i] = Stream[i + Size[m]]
        BY <3>4
      <3> QED
        BY <1>3, <2>3, <3>2, <3>4, <3>5, <3>6, <3>7 DEF m
    <2> QED
      BY <1>1, <1>2, <1>4, <1>6, <2>1, <2>5, <2>6, <2>7
  <1>7. CASE Len(data) < Preamble
    BY <1>1, <1>2, <1>3, <1>4, <1>5, <1>7, FramingAssumption
  <1>8. Len(data) \in Nat /\ Preamble \in Nat
    BY <1>2, FramingAssumption
  <1> QED
    BY <1>6, <1>7, <1>8

-----------------------------------------------------------------------------
(* The layout of the stream when a message is begun, continued, and cut    *)
(* off the front.                                                          *)
LEMMA PlaceWithin ==
  ASSUME NEW start \in Int, NEW next \in Int, NEW len \in Nat, NEW size \in Nat, NEW k \in 1..len,
         1 <= start, next = start + len, next <= size + 1
  PROVE  start + k - 1 \in 1..size
  OBVIOUS

LEMMA LayoutWithin ==
  ASSUME NEW d \in Nat, NEW all \in Nat, NEW size \in Nat, NEW lens \in [1..all -> Nat],
         NEW stream, NEW names, NEW start \in [1..(all + 1) -> Int],
         Layout(start, d, all, size, lens, stream, names),
         NEW j \in (d + 1)..all, NEW k \in 1..lens[j]
  PROVE  start[j] >= 1 /\ start[j] + k - 1 \in 1..size
  <1>1. lens[j] \in Nat /\ start[j] \in Int /\ start[j + 1] \in Int
    OBVIOUS
  <1>2. start[d + 1] = 1 /\ start[d + 1] <= start[j]
    BY DEF Layout
  <1>3. start[all + 1] = size + 1 /\ start[j + 1] <= start[all + 1]
    BY DEF Layout
  <1>4. start[j + 1] = start[j] + lens[j]
    BY DEF Layout
  <1>5. start[j] >= 1 /\ start[j + 1] <= size + 1
    BY ONLY <1>2, <1>3
  <1>6. start[j] + k - 1 \in 1..size
    BY <1>1, <1>4, <1>5, PlaceWithin
  <1> QED
    BY <1>5, <1>6

(* A message is begun: grown, longer and more are stream, lens and names   *)
(* with its units, how many they are, and its name.                        *)
Begins(d, all, size, lens, stream, names, longer, grown, more) ==
  /\ d \in Nat /\ all \in Nat /\ d <= all /\ size \in Nat
  /\ lens \in [1..all -> Nat] /\ longer \in [1..(all + 1) -> Nat]
  /\ \A j \in 1..all : longer[j] = lens[j] /\ more[j] = names[j]
  /\ \A i \in 1..size : grown[i] = stream[i]
  /\ \A i \in 1..longer[all + 1] : grown[size + i] = <<more[all + 1], i>>

LEMMA LayoutNew ==
  ASSUME NEW d, NEW all, NEW size, NEW lens, NEW stream, NEW names, NEW longer, NEW grown,
         NEW more, Begins(d, all, size, lens, stream, names, longer, grown, more),
         NEW start \in [1..(all + 1) -> Int],
         Layout(start, d, all, size, lens, stream, names)
  PROVE  \E to \in [1..(all + 2) -> Int] :
           Layout(to, d, all + 1, size + longer[all + 1], longer, grown, more)
  <1> USE DEF Begins
  <1> DEFINE n == longer[all + 1]
  <1>0. n \in Nat /\ longer[all + 1] = n /\ \A i \in 1..n : grown[size + i] = <<more[all + 1], i>>
    OBVIOUS
  <1> HIDE DEF n
  <1> DEFINE to == [j \in 1..(all + 2) |-> IF j = all + 2 THEN start[all + 1] + n ELSE start[j]]
  <1>1. to \in [1..(all + 2) -> Int] /\ to[all + 2] = start[all + 1] + n
        /\ \A j \in 1..(all + 1) : to[j] = start[j]
    BY <1>0
  <1> HIDE DEF to
  <1>2. start[d + 1] = 1 /\ start[all + 1] = size + 1
    BY DEF Layout
  <1>3. to[d + 1] = 1 /\ to[all + 2] = (size + n) + 1
    BY <1>0, <1>1, <1>2
  <1>4. \A j, k \in (d + 1)..(all + 2) : j <= k => to[j] <= to[k]
    <2> SUFFICES ASSUME NEW j \in (d + 1)..(all + 2), NEW k \in (d + 1)..(all + 2), j <= k
                 PROVE  to[j] <= to[k]
      OBVIOUS
    <2>1. CASE k <= all + 1
      <3>1. start[j] <= start[k]
        BY <2>1 DEF Layout
      <3> QED
        BY <1>1, <2>1, <3>1
    <2>2. CASE k = all + 2 /\ j <= all + 1
      <3>1. start[j] <= start[all + 1]
        BY <2>2 DEF Layout
      <3>2. start[j] \in Int /\ start[all + 1] \in Int
        BY <2>2
      <3>3. to[j] = start[j] /\ to[k] = start[all + 1] + n
        BY <1>1, <2>2
      <3>4. n \in Nat
        BY <1>0
      <3> QED
        BY ONLY <3>1, <3>2, <3>3, <3>4
    <2>3. CASE k = all + 2 /\ j = all + 2
      <3>1. to[j] = start[all + 1] + n /\ start[all + 1] \in Int
        BY <1>1, <2>3
      <3> QED
        BY <1>0, <2>3, <3>1
    <2> QED
      BY <2>1, <2>2, <2>3
  <1>5. \A j \in (d + 1)..(all + 1) : to[j + 1] = to[j] + longer[j]
    <2> SUFFICES ASSUME NEW j \in (d + 1)..(all + 1) PROVE to[j + 1] = to[j] + longer[j]
      OBVIOUS
    <2>1. CASE j \in (d + 1)..all
      <3>1. start[j + 1] = start[j] + lens[j]
        BY <2>1 DEF Layout
      <3> QED
        BY <1>1, <2>1, <3>1
    <2>2. CASE j = all + 1
      BY <1>0, <1>1, <2>2
    <2> QED
      BY <2>1, <2>2
  <1>6. \A j \in (d + 1)..(all + 1) : \A k \in 1..longer[j] :
          grown[to[j] + k - 1] = <<more[j], k>>
    <2> SUFFICES ASSUME NEW j \in (d + 1)..(all + 1), NEW k \in 1..longer[j]
                 PROVE  grown[to[j] + k - 1] = <<more[j], k>>
      OBVIOUS
    <2>1. CASE j \in (d + 1)..all
      <3>1. k \in 1..lens[j] /\ to[j] = start[j] /\ more[j] = names[j]
        BY <1>1, <2>1
      <3>2. stream[start[j] + k - 1] = <<names[j], k>>
        BY <2>1, <3>1 DEF Layout
      <3>3. start[j] + k - 1 \in 1..size
        BY <2>1, <3>1, LayoutWithin
      <3> QED
        BY <3>1, <3>2, <3>3
    <2>2. CASE j = all + 1
      <3>1. k \in 1..n /\ more[j] = more[all + 1] /\ to[j] = start[all + 1]
        BY <1>0, <1>1, <2>2
      <3>2. to[j] + k - 1 = size + k
        <4>1. size \in Nat /\ k \in Int /\ start[all + 1] = size + 1
          BY <1>2, <3>1
        <4> QED
          BY ONLY <3>1, <4>1
      <3>3. grown[size + k] = <<more[all + 1], k>>
        BY ONLY <1>0, <3>1
      <3> QED
        BY ONLY <3>1, <3>2, <3>3
    <2>3. j \in (d + 1)..all \/ j = all + 1
      OBVIOUS
    <2> QED
      BY <2>1, <2>2, <2>3
  <1>7. Layout(to, d, all + 1, size + n, longer, grown, more)
    <2>1. (all + 1) + 1 = all + 2
      OBVIOUS
    <2> QED
      BY <1>3, <1>4, <1>5, <1>6, <2>1 DEF Layout
  <1> QED
    BY <1>1, <1>7 DEF n

LEMMA LayoutMore ==
  ASSUME NEW d \in Nat, NEW all \in Nat, d < all, NEW size \in Nat,
         NEW lens \in [1..all -> Nat], NEW stream, NEW names,
         NEW start \in [1..(all + 1) -> Int],
         Layout(start, d, all, size, lens, stream, names),
         NEW n \in Nat, NEW longer \in [1..all -> Nat], NEW grown,
         \A j \in 1..(all - 1) : longer[j] = lens[j],
         longer[all] = lens[all] + n,
         \A i \in 1..size : grown[i] = stream[i],
         \A i \in 1..n : grown[size + i] = <<names[all], lens[all] + i>>
  PROVE  \E to \in [1..(all + 1) -> Int] :
           Layout(to, d, all, size + n, longer, grown, names)
  <1> DEFINE to == [j \in 1..(all + 1) |-> IF j = all + 1 THEN start[all + 1] + n ELSE start[j]]
  <1>1. to \in [1..(all + 1) -> Int] /\ to[all + 1] = start[all + 1] + n
        /\ \A j \in 1..all : to[j] = start[j]
    <2>1. all \in Nat /\ n \in Nat /\ start \in [1..(all + 1) -> Int]
      OBVIOUS
    <2> QED
      BY ONLY <2>1
  <1> HIDE DEF to
  <1>2. /\ start[d + 1] = 1 /\ start[all + 1] = size + 1
        /\ start[all + 1] = start[all] + lens[all]
    BY DEF Layout
  <1>3. to[d + 1] = 1 /\ to[all + 1] = (size + n) + 1
    BY <1>1, <1>2
  <1>4. \A j, k \in (d + 1)..(all + 1) : j <= k => to[j] <= to[k]
    <2> SUFFICES ASSUME NEW j \in (d + 1)..(all + 1), NEW k \in (d + 1)..(all + 1), j <= k
                 PROVE  to[j] <= to[k]
      OBVIOUS
    <2>1. start[j] <= start[k] /\ start[j] \in Int /\ start[k] \in Int
      <3>1. j \in 1..(all + 1) /\ k \in 1..(all + 1)
        OBVIOUS
      <3>2. start[j] <= start[k]
        BY DEF Layout
      <3> QED
        BY <3>1, <3>2
    <2>2. CASE k = all + 1 /\ j # all + 1
      <3>1. j \in 1..all /\ n \in Nat
        BY <2>2
      <3>2. to[j] = start[j] /\ to[k] = start[k] + n
        BY <1>1, <2>2, <3>1
      <3> QED
        BY ONLY <2>1, <3>1, <3>2
    <2>3. CASE k = all + 1 /\ j = all + 1
      <3>1. to[j] = to[k] /\ to[k] \in Int
        BY <1>1, <2>3
      <3> QED
        BY ONLY <3>1
    <2>4. CASE k # all + 1
      <3>1. j \in 1..all /\ k \in 1..all
        BY <2>4
      <3> QED
        BY <1>1, <2>1, <3>1
    <2> QED
      BY <2>2, <2>3, <2>4
  <1>5. \A j \in (d + 1)..all : to[j + 1] = to[j] + longer[j]
    <2> SUFFICES ASSUME NEW j \in (d + 1)..all PROVE to[j + 1] = to[j] + longer[j]
      OBVIOUS
    <2>1. start[j + 1] = start[j] + lens[j]
      BY DEF Layout
    <2>2. CASE j = all
      <3>1. lens[all] \in Nat /\ start[all] \in Int /\ longer[all] = lens[all] + n
        OBVIOUS
      <3>2. to[all] = start[all] /\ to[all + 1] = start[all] + lens[all] + n
        BY <1>1, <1>2
      <3> QED
        BY <2>2, <3>1, <3>2
    <2>3. CASE j # all
      BY <1>1, <2>1, <2>3
    <2> QED
      BY <2>2, <2>3
  <1>6. \A j \in (d + 1)..all : \A k \in 1..longer[j] :
          grown[to[j] + k - 1] = <<names[j], k>>
    <2> SUFFICES ASSUME NEW j \in (d + 1)..all, NEW k \in 1..longer[j]
                 PROVE  grown[to[j] + k - 1] = <<names[j], k>>
      OBVIOUS
    <2>1. CASE k \in 1..lens[j]
      <3>1. to[j] = start[j]
        BY <1>1
      <3>2. stream[start[j] + k - 1] = <<names[j], k>>
        BY <2>1 DEF Layout
      <3>3. start[j] + k - 1 \in 1..size
        BY <2>1, LayoutWithin
      <3> QED
        BY <3>1, <3>2, <3>3
    <2>2. CASE k \notin 1..lens[j]
      <3>1. lens[all] \in Nat /\ start[all] \in Int /\ lens[j] \in Nat
        OBVIOUS
      <3>2. j = all
        BY <2>2
      <3>3. k - lens[all] \in 1..n /\ lens[all] + (k - lens[all]) = k
        <4>1. k \in 1..(lens[all] + n) /\ ~(k \in 1..lens[all]) /\ n \in Nat
          BY <2>2, <3>2
        <4> QED
          BY ONLY <3>1, <4>1
      <3>4. to[j] = start[all]
        BY <1>1, <3>2
      <3>5. to[j] + k - 1 = size + (k - lens[all])
        <4>1. size + 1 = start[all] + lens[all] /\ size \in Int /\ k \in Int
          BY <1>2
        <4>2. start[all] \in Int /\ lens[all] \in Int
          BY ONLY <3>1
        <4>3. start[all] + k - 1 = size + (k - lens[all])
          <5> DEFINE a == start[all]
                     b == lens[all]
          <5>1. a \in Int /\ b \in Int /\ size \in Int /\ k \in Int /\ size + 1 = a + b
            BY ONLY <4>1, <4>2
          <5> HIDE DEF a, b
          <5>2. a + k - 1 = size + (k - b)
            BY ONLY <5>1
          <5> QED
            BY ONLY <5>2 DEF a, b
        <4> QED
          BY ONLY <3>4, <4>3
      <3>6. grown[size + (k - lens[all])] = <<names[all], k>>
        BY <3>3
      <3> QED
        BY <3>2, <3>5, <3>6
    <2> QED
      BY <2>1, <2>2
  <1>7. Layout(to, d, all, size + n, longer, grown, names)
    BY <1>3, <1>4, <1>5, <1>6 DEF Layout
  <1> QED
    BY <1>1, <1>7

LEMMA LayoutCut ==
  ASSUME NEW d \in Nat, NEW all \in Nat, d < all, NEW size \in Nat,
         NEW lens \in [1..all -> Nat], NEW stream, NEW names,
         NEW start \in [1..(all + 1) -> Int],
         Layout(start, d, all, size, lens, stream, names),
         NEW cut, lens[d + 1] <= size,
         \A i \in 1..(size - lens[d + 1]) : cut[i] = stream[i + lens[d + 1]]
  PROVE  \E to \in [1..(all + 1) -> Int] :
           Layout(to, d + 1, all, size - lens[d + 1], lens, cut, names)
  <1> DEFINE z  == lens[d + 1]
             to == [j \in 1..(all + 1) |-> start[j] - z]
  <1>1. z \in Nat
    OBVIOUS
  <1>2. to \in [1..(all + 1) -> Int] /\ \A j \in 1..(all + 1) : to[j] = start[j] - z
    BY <1>1
  <1>3. start[d + 1] = 1 /\ start[all + 1] = size + 1 /\ start[d + 2] = 1 + z
    BY DEF Layout
  <1>4. z <= size /\ \A i \in 1..(size - z) : cut[i] = stream[i + z]
    OBVIOUS
  <1>5. \A j \in (d + 1)..all : lens[j] \in Nat
    OBVIOUS
  <1> HIDE DEF to, z
  <1>6. to[d + 2] = 1 /\ to[all + 1] = (size - z) + 1
    BY <1>1, <1>2, <1>3
  <1>7. \A j, k \in (d + 2)..(all + 1) : j <= k => to[j] <= to[k]
    <2> SUFFICES ASSUME NEW j \in (d + 2)..(all + 1), NEW k \in (d + 2)..(all + 1), j <= k
                 PROVE  to[j] <= to[k]
      OBVIOUS
    <2>1. start[j] <= start[k] /\ start[j] \in Int /\ start[k] \in Int
      BY DEF Layout
    <2> QED
      BY <1>1, <1>2, <2>1
  <1>8. \A j \in (d + 2)..all : to[j + 1] = to[j] + lens[j]
    <2> SUFFICES ASSUME NEW j \in (d + 2)..all PROVE to[j + 1] = to[j] + lens[j]
      OBVIOUS
    <2>1. start[j + 1] = start[j] + lens[j]
      <3>1. j \in (d + 1)..all
        OBVIOUS
      <3> QED
        BY <3>1 DEF Layout
    <2>2. lens[j] \in Nat /\ start[j] \in Int /\ start[j + 1] \in Int
      OBVIOUS
    <2>3. to[j] = start[j] - z /\ to[j + 1] = start[j + 1] - z
      BY <1>2
    <2> QED
      BY ONLY <1>1, <2>1, <2>2, <2>3
  <1>9. \A j \in (d + 2)..all : \A k \in 1..lens[j] : cut[to[j] + k - 1] = <<names[j], k>>
    <2> SUFFICES ASSUME NEW j \in (d + 2)..all, NEW k \in 1..lens[j]
                 PROVE  cut[to[j] + k - 1] = <<names[j], k>>
      OBVIOUS
    <2>1. stream[start[j] + k - 1] = <<names[j], k>>
      <3>1. j \in (d + 1)..all
        OBVIOUS
      <3> QED
        BY <3>1 DEF Layout
    <2>2. start[j] + k - 1 \in 1..size /\ start[j] \in Int /\ k \in Int /\ k >= 1
      <3>1. j \in (d + 1)..all
        OBVIOUS
      <3>2. start[j] + k - 1 \in 1..size
        BY <3>1, LayoutWithin
      <3> QED
        BY <3>2
    <2>3. start[d + 2] <= start[j]
      BY DEF Layout
    <2>4. to[j] = start[j] - z
      BY <1>2
    <2>5. to[j] + k - 1 \in 1..(size - z) /\ (to[j] + k - 1) + z = start[j] + k - 1
      <3>1. 1 + z <= start[j] /\ size \in Int /\ z \in Int
        BY <1>1, <1>3, <2>3
      <3>2. /\ start[j] - z + k - 1 \in 1..(size - z)
            /\ (start[j] - z + k - 1) + z = start[j] + k - 1
        <4> DEFINE a == start[j]
        <4>1. a \in Int /\ k \in Int /\ k >= 1 /\ a + k - 1 \in 1..size /\ 1 + z <= a
          BY ONLY <2>2, <3>1
        <4> HIDE DEF a
        <4>2. a - z + k - 1 \in 1..(size - z) /\ (a - z + k - 1) + z = a + k - 1
          BY ONLY <3>1, <4>1
        <4> QED
          BY ONLY <4>2 DEF a
      <3> QED
        BY ONLY <2>4, <3>2
    <2> QED
      BY <1>4, <2>1, <2>5
  <1>10. Layout(to, d + 1, all, size - z, lens, cut, names)
    <2>1. (d + 1) + 1 = d + 2
      OBVIOUS
    <2> QED
      BY <1>6, <1>7, <1>8, <1>9, <2>1 DEF Layout
  <1> QED
    BY <1>2, <1>10 DEF z

-----------------------------------------------------------------------------
LEMMA StreamSend ==
  ASSUME TypeOK, OrderInv, DispatchedInv, StreamInv, NEW m \in Messages,
         NEW n \in 1..Capacity, Send(m, n), ~overlapped, ~overlapped'
  PROVE  StreamInv'
  <1> DEFINE d == Len(dispatched)
             L == Len(order)
             len == Len(Stream)
             w == written[m]
  <1>1. PICK start \in [1..(L + 1) -> Int] : Layout(start, d, L, len, Lengths, Stream, order)
    BY DEF StreamInv, Laid
  <1>2. /\ d \in Nat /\ L \in Nat /\ d <= L
        /\ order \in Seq(Messages) /\ written \in [Messages -> Nat]
        /\ receivedData \in Seq(Unit) /\ wire \in Seq(Unit)
    BY DEF TypeOK, DispatchedInv
  <1>3. len \in Nat
    <2>1. Stream \in Seq(Unit)
      BY <1>2, ConcatProperties DEF Stream
    <2> QED
      BY <2>1
  <1>4. /\ w \in Nat /\ n \in Nat \ {0} /\ w + n <= Size[m] /\ Size[m] \in Nat
        /\ written' = [written EXCEPT ![m] = w + n] /\ dispatched' = dispatched
    BY SendAlone DEF Send
  <1>5. /\ Len(Stream') = len + n
        /\ \A i \in 1..len : Stream'[i] = Stream[i]
        /\ \A i \in 1..n : Stream'[len + i] = <<m, w + i>>
    <2> DEFINE from == w + 1
               to   == w + n
               sent == Units(m, from, to)
    <2>1. from \in Nat \ {0} /\ to \in Nat /\ to >= from /\ to - from + 1 = n
      BY <1>4
    <2> HIDE DEF from, to
    <2>2. /\ sent \in Seq(Unit) /\ Len(sent) = n
          /\ \A k \in 1..n : sent[k] = <<m, from + k - 1>>
      BY <2>1, UnitsAre
    <2>3. Stream' = receivedData \o (wire \o sent)
      BY DEF Stream, Send, from, to
    <2> HIDE DEF sent
    <2>4. Stream' = Stream \o sent /\ Stream \in Seq(Unit)
      <3>1. receivedData \o wire \in Seq(Unit)
        BY <1>2, ConcatProperties
      <3>2. (receivedData \o wire) \o sent = receivedData \o (wire \o sent)
        <4>1. receivedData \in Seq(Unit) /\ wire \in Seq(Unit) /\ sent \in Seq(Unit)
          BY <1>2, <2>2
        <4> QED
          BY ONLY <4>1, ConcatAssociative, SMTT(30)
      <3> QED
        BY <2>3, <3>1, <3>2 DEF Stream
    <2>5. /\ Len(Stream \o sent) = len + Len(sent)
          /\ \A i \in 1..(len + Len(sent)) : (Stream \o sent)[i] =
               IF i <= len THEN Stream[i] ELSE sent[i - len]
      BY <2>2, <2>4, ConcatProperties
    <2>6. /\ \A i \in 1..len : Stream'[i] = Stream[i]
          /\ \A i \in 1..n : Stream'[len + i] = sent[i]
      BY <1>3, <1>4, <2>2, <2>4, <2>5
    <2>7. \A k \in 1..n : <<m, from + k - 1>> = <<m, w + k>>
      BY <1>4 DEF from
    <2> QED
      BY <2>2, <2>4, <2>5, <2>6, <2>7
  <1>6. Lengths \in [1..L -> Nat] /\ \A j \in 1..L : Lengths[j] = written[order[j]]
    BY <1>2 DEF Lengths
  <1> HIDE DEF d, L, len, w
  <1>7. CASE /\ w = 0 /\ order' = Append(order, m)
             /\ \A j \in 1..L : order[j] # m
    <2>1. /\ Len(order') = L + 1 /\ order'[L + 1] = m
          /\ \A j \in 1..L : order'[j] = order[j] /\ order[j] \in Messages
      BY <1>2, <1>7 DEF L
    <2>2. Lengths' = [j \in 1..(L + 1) |-> written'[order'[j]]]
      BY <2>1 DEF Lengths
    <2>3. written' \in [Messages -> Nat]
      BY <1>2, <1>4
    <2>4. \A j \in 1..(L + 1) : order'[j] \in Messages
      BY <1>2, <2>1
    <2>5. Lengths' \in [1..(L + 1) -> Nat]
      BY <2>2, <2>3, <2>4
    <2>6. \A j \in 1..L : Lengths'[j] = Lengths[j]
      <3> SUFFICES ASSUME NEW j \in 1..L PROVE Lengths'[j] = Lengths[j]
        OBVIOUS
      <3>1. order'[j] = order[j] /\ order[j] \in Messages /\ order[j] # m
        BY ONLY <1>7, <2>1, j \in 1..L
      <3>2. written'[order[j]] = written[order[j]]
        BY ONLY <1>2, <1>4, <3>1
      <3>3. Lengths'[j] = written'[order'[j]]
        BY <1>2, <2>2
      <3> QED
        BY <1>6, <3>1, <3>2, <3>3
    <2>7. Lengths'[L + 1] = n
      BY <1>2, <1>4, <1>7, <2>1, <2>2
    <2>8. \A i \in 1..n : Stream'[len + i] = <<m, i>>
      BY <1>4, <1>5, <1>7
    <2>9. \E to \in [1..(L + 2) -> Int] :
            Layout(to, d, L + 1, len + n, Lengths', Stream', order')
      <3>1. Begins(d, L, len, Lengths, Stream, order, Lengths', Stream', order')
        <4>1. \A i \in 1..Lengths'[L + 1] : Stream'[len + i] = <<order'[L + 1], i>>
          BY <2>1, <2>7, <2>8
        <4>2. \A j \in 1..L : Lengths'[j] = Lengths[j] /\ order'[j] = order[j]
          BY <2>1, <2>6
        <4> QED
          BY <1>2, <1>3, <1>5, <1>6, <2>5, <4>1, <4>2 DEF Begins
      <3>2. \E to \in [1..(L + 2) -> Int] :
              Layout(to, d, L + 1, len + Lengths'[L + 1], Lengths', Stream', order')
        BY <1>1, <3>1, LayoutNew
      <3> QED
        BY <2>7, <3>2
    <2>10. Len(order') = L + 1 /\ Len(order') + 1 = L + 2 /\ Len(dispatched') = d
      BY <1>2, <1>4, <2>1 DEF d
    <2> QED
      BY <1>5, <2>9, <2>10 DEF StreamInv, Laid
  <1>8. CASE /\ w > 0 /\ order' = order /\ L > 0 /\ order[L] = m
             /\ \A j \in 1..(L - 1) : order[j] # m
    <2>1. d < L
      <3> SUFFICES ASSUME d = L PROVE FALSE
        BY <1>2
      <3>1. written[m] = Size[m]
        BY <1>2, <1>8 DEF DispatchedInv, d, L
      <3> QED
        BY <1>4, <3>1 DEF w
    <2>2. Lengths' = [j \in 1..L |-> written'[order[j]]]
      BY <1>8 DEF Lengths, L
    <2>3. written' \in [Messages -> Nat]
      BY <1>2, <1>4
    <2>4. \A j \in 1..L : order[j] \in Messages
      BY <1>2 DEF L
    <2>5. Lengths' \in [1..L -> Nat]
      BY <2>2, <2>3, <2>4
    <2>6. \A j \in 1..(L - 1) : Lengths'[j] = Lengths[j]
      <3> SUFFICES ASSUME NEW j \in 1..(L - 1) PROVE Lengths'[j] = Lengths[j]
        OBVIOUS
      <3>1. j \in 1..L /\ order[j] \in Messages /\ order[j] # m
        BY <1>2, <1>8, <2>4
      <3>2. written'[order[j]] = written[order[j]]
        BY ONLY <1>2, <1>4, <3>1
      <3> QED
        BY ONLY <1>6, <2>2, <3>1, <3>2
    <2>7. Lengths[L] = w /\ Lengths'[L] = w + n
      BY <1>2, <1>4, <1>6, <1>8, <2>2 DEF w
    <2>8. \A i \in 1..n : Stream'[len + i] = <<order[L], Lengths[L] + i>>
      BY <1>5, <1>8, <2>7
    <2>9. Lengths'[L] = Lengths[L] + n
      BY <2>7
    <2>10. \E to \in [1..(L + 1) -> Int] :
             Layout(to, d, L, len + n, Lengths', Stream', order)
      <3>1. d \in Nat /\ L \in Nat /\ n \in Nat
        BY <1>2, <1>4
      <3>2. Lengths \in [1..L -> Nat] /\ \A i \in 1..len : Stream'[i] = Stream[i]
        BY <1>5, <1>6
      <3> QED
        BY ONLY <1>1, <1>3, <2>1, <2>5, <2>6, <2>8, <2>9, <3>1, <3>2, LayoutMore
    <2> QED
      BY <1>4, <1>5, <1>8, <2>10 DEF StreamInv, Laid, d, L
  <1> QED
    BY <1>7, <1>8, SendAlone DEF L, w

LEMMA StreamReceive ==
  ASSUME TypeOK, OrderInv, DispatchedInv, StreamInv, NEW n \in 1..BufSize, Receive(n)
  PROVE  DispatchedInv' /\ StreamInv'
  <1> DEFINE d == Len(dispatched)
             L == Len(order)
             len == Len(Stream)
             m == order[d + 1]
  <1>1. PICK start \in [1..(L + 1) -> Int] : Layout(start, d, L, len, Lengths, Stream, order)
    BY DEF StreamInv, Laid
  <1>2. written' = written /\ order' = order /\ Lengths' = Lengths
    BY ReceiveAlone DEF Lengths
  <1>3. CASE Stream' = Stream /\ dispatched' = dispatched
    <2>1. DispatchedInv'
      BY <1>2, <1>3 DEF DispatchedInv, Whole
    <2>2. Laid(start)'
      BY <1>1, <1>2, <1>3 DEF Laid
    <2> QED
      BY <1>2, <2>1, <2>2 DEF StreamInv
  <1>4. CASE /\ d < L /\ m \in Messages
             /\ written[m] = Size[m] /\ Size[m] <= len
             /\ dispatched' = Append(dispatched, Whole(m))
             /\ Len(Stream') = len - Size[m]
             /\ \A i \in 1..Len(Stream') : Stream'[i] = Stream[i + Size[m]]
    <2>1. /\ d \in Nat /\ L \in Nat /\ order \in Seq(Messages) /\ written \in [Messages -> Nat]
      BY DEF TypeOK
    <2>2. len \in Nat
      <3>1. Stream \in Seq(Unit)
        BY ConcatProperties DEF TypeOK, Stream
      <3> QED
        BY <3>1
    <2>3. /\ Len(dispatched') = d + 1 /\ dispatched'[d + 1] = Whole(m)
          /\ \A j \in 1..d : dispatched'[j] = dispatched[j]
      BY <1>4 DEF TypeOK
    <2>4. DispatchedInv'
      <3>1. \A j \in 1..(d + 1) : j \in 1..d \/ j = d + 1
        BY <2>1
      <3>2. \A j \in 1..(d + 1) : /\ dispatched'[j] = Whole(order[j])
                                  /\ written[order[j]] = Size[order[j]]
        BY <1>4, <2>3, <3>1 DEF DispatchedInv
      <3>3. d + 1 <= L
        BY <1>4, <2>1
      <3> QED
        BY <1>2, <2>3, <3>2, <3>3 DEF DispatchedInv, Whole
    <2>5. Lengths \in [1..L -> Nat] /\ Lengths[d + 1] = Size[m]
      BY <1>4, <2>1 DEF Lengths
    <2> HIDE DEF d, L, len, m
    <2>6. \E to \in [1..(L + 1) -> Int] :
            Layout(to, d + 1, L, len - Lengths[d + 1], Lengths, Stream', order)
      BY <1>1, <1>4, <2>1, <2>2, <2>5, LayoutCut
    <2> QED
      BY <1>2, <1>4, <2>3, <2>4, <2>5, <2>6 DEF StreamInv, Laid, L
  <1> QED
    BY <1>3, <1>4, ReceiveAlone

LEMMA FrameInit == Init => FrameInv
  <1> SUFFICES ASSUME Init PROVE FrameInv
    OBVIOUS
  <1>1. Len(order) = 0 /\ Len(dispatched) = 0 /\ Stream = <<>> /\ Len(Stream) = 0
    BY EmptySeq, ConcatEmptySeq DEF Init, Stream
  <1>2. OrderInv /\ DispatchedInv
    BY <1>1 DEF Init, OrderInv, DispatchedInv
  <1>3. Laid([j \in 1..1 |-> 1])
    BY <1>1 DEF Laid, Layout
  <1> QED
    BY <1>1, <1>2, <1>3 DEF FrameInv, StreamInv

LEMMA FrameNext == TypeOK /\ FrameInv /\ [Next]_vars => FrameInv'
  <1> SUFFICES ASSUME TypeOK, FrameInv, [Next]_vars, ~overlapped' PROVE FrameInv'
    BY DEF FrameInv
  <1>1. CASE UNCHANGED vars
    <2>1. StreamInv => StreamInv'
      BY <1>1 DEF vars, StreamInv, Laid, Lengths, Stream
    <2> QED
      BY <1>1, <2>1 DEF vars, FrameInv, OrderInv, DispatchedInv, Whole
  <1>2. ASSUME NEW m \in Messages, NEW n \in 1..Capacity, Send(m, n) PROVE FrameInv'
    <2>1. ~overlapped
      BY <1>2 DEF Send, TypeOK
    <2> QED
      BY <1>2, <2>1, OrderSend, DispatchedSend, StreamSend DEF FrameInv
  <1>3. ASSUME NEW n \in 1..BufSize, Receive(n) PROVE FrameInv'
    <2>1. ~overlapped /\ written' = written /\ order' = order
      BY <1>3 DEF Receive
    <2>2. OrderInv /\ DispatchedInv /\ StreamInv
      BY <2>1 DEF FrameInv
    <2>3. OrderInv'
      BY <2>1, <2>2 DEF OrderInv
    <2> QED
      BY <1>3, <2>2, <2>3, StreamReceive DEF FrameInv
  <1> QED
    BY <1>1, <1>2, <1>3 DEF Next

-----------------------------------------------------------------------------
LEMMA WholeDiffer == \A m \in Messages : MessageOf(Whole(m)) = m
  <1> SUFFICES ASSUME NEW m \in Messages PROVE MessageOf(Whole(m)) = m
    OBVIOUS
  <1>1. \A k \in Messages : Whole(k)[1] = <<k, 1>>
    <2> SUFFICES ASSUME NEW k \in Messages PROVE Whole(k)[1] = <<k, 1>>
      OBVIOUS
    <2>1. Size[k] \in Nat /\ Size[k] >= 1
      BY FramingAssumption
    <2> QED
      BY <2>1 DEF Whole, Units
  <1>2. \A k \in Messages : Whole(m) = Whole(k) => k = m
    BY <1>1
  <1> QED
    BY <1>2 DEF MessageOf

LEMMA DeliveredIs ==
  ASSUME NEW frames \in Seq(Seq(Unit)), NEW names \in Seq(Messages),
         Len(frames) <= Len(names), \A j \in 1..Len(frames) : frames[j] = Whole(names[j])
  PROVE  [i \in DOMAIN frames |-> MessageOf(frames[i])] = SubSeq(names, 1, Len(frames))
  <1> DEFINE n    == Len(frames)
             took == SubSeq(names, 1, n)
             D    == [i \in 1..n |-> MessageOf(frames[i])]
  <1>1. n \in Nat /\ DOMAIN frames = 1..n /\ Len(names) \in Nat /\ n <= Len(names)
    OBVIOUS
  <1>2. took \in Seq(Messages) /\ Len(took) = n /\ \A i \in 1..n : took[i] = names[i]
    BY <1>1, Front
  <1>3. \A i \in 1..n : MessageOf(frames[i]) = names[i] /\ names[i] \in Messages
    BY <1>1, WholeDiffer
  <1> HIDE DEF n, took
  <1>4. D \in Seq(Messages) /\ Len(D) = n /\ \A i \in 1..n : D[i] = names[i]
    <2>1. D \in [1..n -> Messages] /\ \A i \in 1..n : D[i] = names[i]
      BY <1>3
    <2> HIDE DEF D
    <2> QED
      BY <1>1, <2>1
  <1> HIDE DEF D
  <1>5. D = took
    <2>1. Len(D) = Len(took) /\ \A i \in 1..Len(D) : D[i] = took[i]
      BY <1>2, <1>4
    <2> QED
      BY <1>2, <1>4, <2>1, SeqEqual
  <1> QED
    BY <1>1, <1>5 DEF D, n, took

(* A send ends the message it sends, or is not noticed.                    *)
LEMMA SendImplements ==
  ASSUME TypeOK, OrderInv, NEW m \in Messages, NEW n \in 1..Capacity, Send(m, n),
         ~overlapped, ~overlapped'
  PROVE  Complete' = Complete \/ Complete' = Append(Complete, m)
  <1> DEFINE L == Len(order)
  <1>1. order \in Seq(Messages) /\ L \in Nat /\ written \in [Messages -> Nat]
    BY DEF TypeOK
  <1>2. /\ written' = [written EXCEPT ![m] = written[m] + n] /\ written[m] \in Nat
        /\ n \in Nat \ {0} /\ written[m] + n <= Size[m] /\ Size[m] \in Nat
    BY SendAlone
  <1>3. written'[m] = written[m] + n
    BY <1>1, <1>2
  <1>4. CASE /\ written[m] = 0 /\ order' = Append(order, m)
             /\ \A j \in 1..L : order[j] # m /\ written[order[j]] = Size[order[j]]
    <2>1. Complete = order
      <3>1. order # <<>> => ~Sending(order[L])
        <4> SUFFICES ASSUME order # <<>> PROVE ~Sending(order[L])
          OBVIOUS
        <4>1. L \in 1..L /\ order[L] \in Messages
          BY <1>1, EmptySeq
        <4>2. written[order[L]] = Size[order[L]] /\ Size[order[L]] \in Nat
          BY <1>4, <4>1, FramingAssumption
        <4> QED
          BY <4>2 DEF Sending
      <3> QED
        BY <3>1 DEF Complete
    <2>2. order' # <<>> /\ Len(order') = L + 1 /\ order'[Len(order')] = m
      BY <1>1, <1>4
    <2>3. SubSeq(order', 1, Len(order') - 1) = order
      <3> DEFINE o == order'
                 f == SubSeq(o, 1, Len(o) - 1)
      <3>1. o \in Seq(Messages) /\ Len(o) = L + 1 /\ \A j \in 1..L : o[j] = order[j]
        BY <1>1, <1>4
      <3> HIDE DEF o
      <3>2. L \in Nat /\ L <= Len(o) /\ Len(o) - 1 = L
        BY <1>1, <3>1
      <3>3. /\ SubSeq(o, 1, L) \in Seq(Messages) /\ Len(SubSeq(o, 1, L)) = L
            /\ \A i \in 1..L : SubSeq(o, 1, L)[i] = o[i]
        BY <3>1, <3>2, Front
      <3>4. f \in Seq(Messages) /\ Len(f) = L /\ \A i \in 1..L : f[i] = order[i]
        <4>1. f = SubSeq(o, 1, L)
          BY <3>2
        <4> HIDE DEF f
        <4> QED
          BY <3>1, <3>3, <4>1
      <3> HIDE DEF f
      <3>5. f = order
        BY <1>1, <3>4, SeqEqual
      <3> QED
        BY <3>5 DEF f, o
    <2>4. Complete' = order \/ Complete' = order'
      BY <2>2, <2>3 DEF Complete
    <2> QED
      BY <1>4, <2>1, <2>4
  <1>5. CASE /\ written[m] > 0 /\ order' = order /\ L > 0 /\ order[L] = m
             /\ \A j \in 1..(L - 1) : order[j] # m
    <2>1. order # <<>> /\ Sending(m)
      BY <1>2, <1>5 DEF Sending
    <2>2. Complete = SubSeq(order, 1, L - 1)
      BY <1>5, <2>1 DEF Complete
    <2>3. Complete' = SubSeq(order, 1, L - 1) \/ Complete' = order
      BY <1>5 DEF Complete
    <2>4. Append(SubSeq(order, 1, L - 1), m) = order
      <3> DEFINE f == SubSeq(order, 1, L - 1)
                 o == Append(f, m)
      <3>1. L - 1 \in Nat /\ L - 1 <= Len(order)
        BY <1>1, <1>5
      <3>3. f \in Seq(Messages) /\ Len(f) = L - 1 /\ \A i \in 1..(L - 1) : f[i] = order[i]
        <4> DEFINE k == L - 1
        <4>1. k \in Nat /\ k <= Len(order) /\ f = SubSeq(order, 1, k)
          BY <3>1
        <4> HIDE DEF f, k
        <4>2. f \in Seq(Messages) /\ Len(f) = k /\ \A i \in 1..k : f[i] = order[i]
          BY <1>1, <4>1, Front
        <4> QED
          BY <4>2 DEF k
      <3> HIDE DEF f
      <3>4. o \in Seq(Messages) /\ Len(o) = L /\ \A i \in 1..L : o[i] = order[i]
        BY <1>1, <1>5, <3>3
      <3> HIDE DEF o
      <3>5. o = order
        BY <1>1, <3>4, SeqEqual
      <3> QED
        BY <3>5 DEF o, f
    <2> QED
      BY <2>2, <2>3, <2>4
  <1> QED
    BY <1>4, <1>5, SendAlone

(* A round of the listener's loop delivers the next complete message, or   *)
(* nothing.                                                                *)
LEMMA ReceiveImplements ==
  ASSUME TypeOK, TypeOK', OrderInv, DispatchedInv, StreamInv, DispatchedInv',
         NEW n \in 1..BufSize, Receive(n), dispatched' # dispatched
  PROVE  Channel!Deliver
  <1> DEFINE d == Len(dispatched)
             L == Len(order)
  <1>1. /\ d \in Nat /\ L \in Nat /\ order \in Seq(Messages)
        /\ dispatched \in Seq(Seq(Unit)) /\ dispatched' \in Seq(Seq(Unit))
    BY DEF TypeOK
  <1>2. /\ written' = written /\ order' = order /\ d < L
        /\ order[d + 1] \in Messages /\ written[order[d + 1]] = Size[order[d + 1]]
        /\ Len(dispatched') = d + 1
    <2>1. /\ written' = written /\ order' = order /\ d < L /\ order[d + 1] \in Messages
          /\ written[order[d + 1]] = Size[order[d + 1]]
          /\ dispatched' = Append(dispatched, Whole(order[d + 1]))
      BY ReceiveAlone
    <2>2. Whole(order[d + 1]) \in Seq(Unit)
      BY <2>1, FramingAssumption, UnitsAre DEF Whole
    <2> QED
      BY ONLY <1>1, <2>1, <2>2
  <1>3. Complete' = Complete
    BY <1>2 DEF Complete, Sending
  <1>4. [i \in DOMAIN dispatched |-> MessageOf(dispatched[i])] = SubSeq(order, 1, d)
    BY <1>1, DeliveredIs DEF DispatchedInv
  <1>5. [i \in DOMAIN dispatched' |-> MessageOf(dispatched'[i])] = SubSeq(order, 1, d + 1)
    <2>1. /\ Len(dispatched') <= Len(order)
          /\ \A j \in 1..Len(dispatched') : dispatched'[j] = Whole(order[j])
      BY <1>2 DEF DispatchedInv, Whole
    <2> QED
      BY <1>1, <1>2, <2>1, DeliveredIs
  <1>6. Len(SubSeq(order, 1, d)) = d
    BY <1>1, <1>2
  <1>7. Len(Complete) >= d + 1 /\ SubSeq(Complete, 1, d + 1) = SubSeq(order, 1, d + 1)
    <2>1. CASE Complete = order
      BY <1>1, <1>2, <2>1
    <2>2. CASE Complete = SubSeq(order, 1, L - 1) /\ Sending(order[L])
      <3>1. d + 1 # L
        BY <1>2, <2>2, FramingAssumption DEF Sending
      <3>2. d + 1 <= L - 1 /\ L - 1 \in Nat /\ L - 1 <= Len(order)
        BY <1>1, <1>2, <3>1
      <3> DEFINE c == SubSeq(order, 1, L - 1)
      <3>3. c \in Seq(Messages) /\ Len(c) = L - 1 /\ \A i \in 1..(L - 1) : c[i] = order[i]
        BY <1>1, <3>2, Front
      <3> HIDE DEF c
      <3>4. SubSeq(c, 1, d + 1) = SubSeq(order, 1, d + 1)
        <4> DEFINE a == SubSeq(c, 1, d + 1)
                   b == SubSeq(order, 1, d + 1)
        <4>1. d + 1 \in Nat /\ d + 1 <= Len(c) /\ d + 1 <= Len(order)
          BY <1>1, <3>2, <3>3
        <4>2. a \in Seq(Messages) /\ Len(a) = d + 1 /\ \A i \in 1..(d + 1) : a[i] = c[i]
          BY <3>3, <4>1, Front
        <4>3. b \in Seq(Messages) /\ Len(b) = d + 1 /\ \A i \in 1..(d + 1) : b[i] = order[i]
          BY <1>1, <4>1, Front
        <4> HIDE DEF a, b
        <4>4. Len(a) = Len(b) /\ \A i \in 1..Len(a) : a[i] = b[i]
          <5>1. \A i \in 1..(d + 1) : c[i] = order[i]
            BY <1>1, <3>2, <3>3
          <5> QED
            BY <4>2, <4>3, <5>1
        <4>5. a = b
          BY <4>2, <4>3, <4>4, SeqEqual
        <4> QED
          BY <4>5 DEF a, b
      <3> QED
        BY <2>2, <3>2, <3>3, <3>4 DEF c
    <2> QED
      BY <2>1, <2>2 DEF Complete
  <1>8. Len(Complete) \in Nat
    BY <1>1 DEF Complete
  <1>9. /\ Len([i \in DOMAIN dispatched |-> MessageOf(dispatched[i])]) < Len(Complete)
        /\ [i \in DOMAIN dispatched' |-> MessageOf(dispatched'[i])]
             = SubSeq(Complete, 1, Len([i \in DOMAIN dispatched |-> MessageOf(dispatched[i])]) + 1)
    <2> DEFINE before == [i \in DOMAIN dispatched |-> MessageOf(dispatched[i])]
    <2>1. Len(before) = d
      BY <1>4, <1>6
    <2>2. d < Len(Complete)
      BY <1>1, <1>7, <1>8
    <2> HIDE DEF before
    <2>3. Len(before) < Len(Complete)
      BY <2>1, <2>2
    <2>4. SubSeq(Complete, 1, Len(before) + 1) = SubSeq(order, 1, d + 1)
      BY <1>7, <2>1
    <2> QED
      BY <1>5, <2>3, <2>4 DEF before
  <1> QED
    BY <1>3, <1>9 DEF Channel!Deliver, MessageOf, Whole, Units

LEMMA ChannelInit == Init => Channel!Init
  <1> SUFFICES ASSUME Init PROVE Channel!Init
    OBVIOUS
  <1>1. Complete = <<>>
    BY DEF Init, Complete
  <1>2. DOMAIN dispatched = {}
    BY EmptySeq DEF Init
  <1>3. [i \in DOMAIN dispatched |-> MessageOf(dispatched[i])] = <<>>
    BY <1>2
  <1> QED
    BY <1>1, <1>3 DEF Channel!Init

LEMMA ChannelNext ==
  TypeOK /\ TypeOK' /\ FrameInv /\ FrameInv' /\ [Next]_vars
    => [Channel!Next \/ overlapped']_<<Complete, dispatched, overlapped>>
  <1> SUFFICES ASSUME TypeOK, TypeOK', FrameInv, FrameInv', [Next]_vars, ~overlapped'
               PROVE  [Channel!Next \/ overlapped']_<<Complete, dispatched, overlapped>>
    OBVIOUS
  <1>1. CASE UNCHANGED vars
    BY <1>1 DEF vars, Complete, Sending
  <1>2. ASSUME NEW m \in Messages, NEW n \in 1..Capacity, Send(m, n)
        PROVE  [Channel!Next \/ overlapped']_<<Complete, dispatched, overlapped>>
    <2>1. ~overlapped /\ overlapped' = overlapped /\ dispatched' = dispatched
      BY <1>2 DEF Send, TypeOK
    <2>2. Complete' = Complete \/ Complete' = Append(Complete, m)
      BY <1>2, <2>1, SendImplements DEF FrameInv
    <2>3. Complete' = Append(Complete, m) => Channel!Send
      BY <2>1 DEF Channel!Send, MessageOf, Whole, Units
    <2> QED
      BY <2>1, <2>2, <2>3 DEF Channel!Next
  <1>3. ASSUME NEW n \in 1..BufSize, Receive(n)
        PROVE  [Channel!Next \/ overlapped']_<<Complete, dispatched, overlapped>>
    <2>1. written' = written /\ order' = order /\ overlapped' = overlapped /\ ~overlapped
      BY <1>3 DEF Receive
    <2>2. Complete' = Complete
      BY <2>1 DEF Complete, Sending
    <2>3. dispatched' # dispatched => Channel!Deliver
      BY <1>3, <2>1, ReceiveImplements DEF FrameInv
    <2> QED
      BY <2>1, <2>2, <2>3 DEF Channel!Next
  <1> QED
    BY <1>1, <1>2, <1>3 DEF Next

(* The framing implements MessageChannel until two sends overlap: the      *)
(* messages __send__ has given to the kernel in full are passed to the     *)
(* handlers by __listener__ whole, in the order of the sends and once      *)
(* each, however the stream is cut into reads.                             *)
THEOREM ChannelImplemented == Spec => ImplementsChannel
  <1>1. TypeOK /\ FrameInv /\ [Next]_vars => TypeOK' /\ FrameInv'
    BY TypeNext, FrameNext
  <1> QED
    BY <1>1, TypeInit, FrameInit, ChannelInit, ChannelNext, PTL DEF Spec, ImplementsChannel
=============================================================================
