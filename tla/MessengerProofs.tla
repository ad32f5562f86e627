---------------------------- MODULE MessengerProofs ----------------------------
(***************************************************************************)
(* Theorems about Messenger, for every value of its constants.             *)
(***************************************************************************)
EXTENDS Messenger, SequenceTheorems, TLAPS

USE DEF vars, linkVars

Message == [type : {"REQ"}, id : 1..MaxLines, line : Lines] \cup [type : {"RES"}, id : 1..MaxLines]

(* Types of the functions, and of what is on its way; a chat that sends or *)
(* waits has typed a line.                                                 *)
Idle == {"new", "deferred", "reading"}
Waits == {"waiting", "blocking", "asleep"}

TypeInv ==
  /\ alive \subseteq Processes /\ left \subseteq Processes \ alive
  /\ listening \in BOOLEAN /\ connected \in [Ends -> BOOLEAN] /\ chat \in [Ends -> Locations]
  /\ typed \in [Ends -> Seq(Lines)] /\ printed \in [Ends -> Seq(Lines)]
  /\ inbox \in [Ends -> Seq(Message)] /\ receivedData \in [Ends -> Seq(Message)]
  /\ response_queue \in [Ends -> SUBSET (1..MaxLines)]
  /\ answering \in [Ends -> SUBSET (1..MaxLines)]
  /\ printing \in [Ends -> SUBSET [type : {"REQ"}, id : 1..MaxLines, line : Lines \ {Empty}]]
  /\ \A e \in Ends : /\ Len(typed[e]) <= MaxLines
                     /\ chat[e] \notin Idle => Len(typed[e]) > 0

(* A connection goes down only when the other process has ended.           *)
LinkInv ==
  \A e \in Ends :
    /\ chat[e] # "new" /\ PeerRuns(e) => connected[e]
    /\ chat[e] = "new" => ~connected[e] /\ printing[e] = {} /\ answering[e] = {}

ConnectionInv ==
  /\ EndsOnlyAfterLoss
  /\ LinkInv


(* What has arrived at an end and was not dispatched, oldest first.        *)
Stream(e) == receivedData[e] \o inbox[e]

(* The line an end waits with is the only one the other end has yet to     *)
(* print.                                                                  *)
Behind(e) == Len(printed[Peer(e)]) = Len(typed[e]) - 1

Pending(e, request) == chat[e] \in Waits /\ request = Request(e) /\ Behind(e)

PendingAlone(e, i) ==
  /\ Pending(e, Stream(Peer(e))[i]) /\ printing[Peer(e)] = {}
  /\ \A j \in 1..Len(Stream(Peer(e))) : Stream(Peer(e))[j].type = "REQ" => j = i

(* An answer is to an earlier line, or the present one has been printed.   *)
Answers(e, id) == id < Len(typed[e]) \/ (id = Len(typed[e]) /\ printed[Peer(e)] = typed[e])

LineInv(e) ==
  /\ IsPrefix(printed[Peer(e)], typed[e])
  /\ PeerRuns(e) =>
       /\ chat[e] \in Idle => printed[Peer(e)] = typed[e]
       /\ chat[e] \in {"sending", "transmit"} => Behind(e)
       /\ \A i \in 1..Len(Stream(Peer(e))) :
            Stream(Peer(e))[i].type = "REQ" => PendingAlone(e, i)
       /\ \A request \in printing[Peer(e)] : Pending(e, request)
       /\ \A id \in answering[Peer(e)] \cup response_queue[e] : Answers(e, id)
       /\ \A i \in 1..Len(Stream(e)) :
            Stream(e)[i].type = "RES" => Answers(e, Stream(e)[i].id)

OrderInv == \A e \in Ends : LineInv(e)

-----------------------------------------------------------------------------
LEMMA PeerOfEnd ==
  ASSUME NEW e \in Ends
  PROVE  Peer(e) \in Ends /\ Peer(Peer(e)) = e /\ Peer(e) # e /\ Process(e) \in Processes
  BY DEF Ends, Peer, Process, Processes

LEMMA EndOfClient ==
  ASSUME NEW c \in Clients
  PROVE  /\ <<c, "client">> \in Ends /\ <<c, "server">> \in Ends
         /\ Process(<<c, "client">>) = c /\ Process(<<c, "server">>) = Server
         /\ Peer(<<c, "client">>) = <<c, "server">> /\ Peer(<<c, "server">>) = <<c, "client">>
  BY DEF Ends, Peer, Process

LEMMA ConcatAssociates ==
  \A s, t, u \in Seq(Message) : (s \o t) \o u = s \o (t \o u)
  OBVIOUS

LEMMA AppendToConcat ==
  \A s, t \in Seq(Message), m \in Message : s \o Append(t, m) = Append(s \o t, m)
  OBVIOUS

LEMMA TypeCorrectly == TypeInv => TypeOK
  BY DEF TypeInv, TypeOK

LEMMA RequestType ==
  ASSUME TypeInv, NEW e \in Ends, chat[e] \notin Idle
  PROVE  /\ Len(typed[e]) \in 1..MaxLines /\ Last(typed[e]) \in Lines
         /\ Request(e) \in Message
  <1>1. typed[e] \in Seq(Lines) /\ Len(typed[e]) \in 1..MaxLines
    BY MessengerAssumption DEF TypeInv
  <1>2. Last(typed[e]) \in Lines
    BY <1>1, ElementOfSeq DEF Last
  <1> QED
    BY <1>1, <1>2 DEF Request, Message

(* A read and a dispatch take the oldest message.                          *)
LEMMA ReceiveTakesHead ==
  ASSUME TypeInv, NEW e \in Ends, Receive(e)
  PROVE  /\ Stream(e) \in Seq(Message) /\ Stream(e) # <<>>
         /\ inbox' \in [Ends -> Seq(Message)] /\ receivedData' \in [Ends -> Seq(Message)]
         /\ Stream(e)' = Tail(Stream(e))
         /\ \A f \in Ends : f # e => Stream(f)' = Stream(f)
         /\ LET message == Head(Stream(e))
            IN  IF message.type = "RES"
                THEN /\ response_queue' = [response_queue EXCEPT ![e] = @ \cup {message.id}]
                     /\ Notified(e) /\ UNCHANGED printing
                ELSE /\ printing' = IF Valid(message)
                                    THEN [printing EXCEPT ![e] = @ \cup {message}] ELSE printing
                     /\ UNCHANGED <<response_queue, chat>>
  <1> DEFINE r == receivedData[e]
             b == inbox[e]
             Data(k) == r \o SubSeq(b, 1, k)
  <1>1. r \in Seq(Message) /\ b \in Seq(Message)
    BY DEF TypeInv
  <1>2. PICK k \in 1..Len(b) :
          LET data == Data(k)
              message == Head(data)
          IN  /\ inbox' = [inbox EXCEPT ![e] = SubSeq(b, k + 1, Len(b))]
              /\ receivedData' = [receivedData EXCEPT ![e] = Tail(data)]
              /\ IF message.type = "RES"
                 THEN /\ response_queue' = [response_queue EXCEPT ![e] = @ \cup {message.id}]
                      /\ Notified(e) /\ UNCHANGED printing
                 ELSE /\ printing' = IF Valid(message)
                                     THEN [printing EXCEPT ![e] = @ \cup {message}] ELSE printing
                      /\ UNCHANGED <<response_queue, chat>>
    BY DEF Receive
  <1> HIDE DEF r, b
  <1>3. k \in Nat /\ 1 <= k /\ k <= Len(b) /\ Len(b) \in Nat
    BY <1>1
  <1> DEFINE first == SubSeq(b, 1, k)
             rest == SubSeq(b, k + 1, Len(b))
  <1>4. first \in Seq(Message) /\ rest \in Seq(Message) /\ first \o rest = b /\ Len(first) = k
    <2>1. \A i \in 1..Len(b) : b[i] \in Message
      BY <1>1
    <2>2. first \in Seq(Message) /\ Len(first) = k
      BY <1>3, <2>1, SubSeqProperties
    <2>3. rest \in Seq(Message)
      BY <1>3, <2>1, SubSeqProperties
    <2>4. first \o rest = SubSeq(b, 1, Len(b))
      BY <1>1, <1>3, ConcatAdjacentSubSeq
    <2>5. SubSeq(b, 1, Len(b)) = b
      BY <1>1, SubSeqFull
    <2> QED
      BY <2>2, <2>3, <2>4, <2>5
  <1> HIDE DEF first, rest
  <1>5. Data(k) = r \o first
    BY DEF first
  <1>6. /\ r \o first \in Seq(Message) /\ r \o first # <<>>
        /\ (r \o first) \o rest = r \o b
    <2>1. (r \o first) \o rest = r \o (first \o rest)
      BY ONLY <1>1, <1>4, ConcatAssociates, Zenon
    <2>2. r \o first \in Seq(Message) /\ Len(r \o first) = Len(r) + k
      BY <1>1, <1>4, ConcatProperties
    <2>3. Len(r) \in Nat /\ Len(<<>>) = 0
      BY <1>1, LenProperties
    <2> QED
      BY <1>3, <1>4, <2>1, <2>2, <2>3
  <1>7. /\ Head((r \o first) \o rest) = Head(r \o first)
        /\ Tail((r \o first) \o rest) = Tail(r \o first) \o rest
        /\ Tail(r \o first) \in Seq(Message)
        /\ (r \o first) \o rest \in Seq(Message) /\ (r \o first) \o rest # <<>>
    <2> HIDE DEF r, first, rest
    <2> DEFINE d == r \o first
    <2>1. d \in Seq(Message) /\ d # <<>> /\ rest \in Seq(Message)
      BY <1>4, <1>6
    <2> HIDE DEF d
    <2> QED
      <3>1. Head(d \o rest) = Head(d) /\ Tail(d \o rest) = Tail(d) \o rest
        BY <2>1
      <3>2. Tail(d) \in Seq(Message) /\ d \o rest \in Seq(Message) /\ d \o rest # <<>>
        BY <2>1
      <3> QED
        BY <3>1, <3>2 DEF d
  <1>8. Stream(e) = r \o b
    BY DEF Stream, r, b
  <1>9. /\ inbox' = [inbox EXCEPT ![e] = rest]
        /\ receivedData' = [receivedData EXCEPT ![e] = Tail(r \o first)]
    BY <1>2, <1>5 DEF rest
  <1>10. Stream(e)' = Tail(r \o first) \o rest
    BY <1>9 DEF Stream, TypeInv
  <1>11. \A f \in Ends : f # e => Stream(f)' = Stream(f)
    BY <1>9 DEF Stream, TypeInv
  <1>12. inbox' \in [Ends -> Seq(Message)] /\ receivedData' \in [Ends -> Seq(Message)]
    BY <1>4, <1>7, <1>9 DEF TypeInv
  <1>13. Head(Stream(e)) = Head(Data(k))
    BY <1>5, <1>6, <1>7, <1>8
  <1> QED
    BY <1>2, <1>6, <1>7, <1>8, <1>10, <1>11, <1>12, <1>13

(* A message that is sent goes to the end of the stream of the other end.  *)
LEMMA ArrivesAtEnd ==
  ASSUME TypeInv, NEW e \in Ends, NEW message \in Message, Arrives(e, message),
         UNCHANGED receivedData
  PROVE  /\ inbox' \in [Ends -> Seq(Message)]
         /\ Stream(Peer(e)) \in Seq(Message)
         /\ Stream(Peer(e))' = Append(Stream(Peer(e)), message)
         /\ \A f \in Ends : f # Peer(e) => Stream(f)' = Stream(f)
  <1> DEFINE p == Peer(e)
  <1>1. p \in Ends
    BY PeerOfEnd
  <1> HIDE DEF p
  <1>2. receivedData[p] \in Seq(Message) /\ inbox[p] \in Seq(Message)
    BY <1>1 DEF TypeInv
  <1>3. inbox' = [inbox EXCEPT ![p] = Append(inbox[p], message)]
    BY DEF Arrives, p
  <1>4. /\ inbox' \in [Ends -> Seq(Message)] /\ inbox'[p] = Append(inbox[p], message)
        /\ \A f \in Ends : f # p => inbox'[f] = inbox[f]
    BY <1>1, <1>2, <1>3 DEF TypeInv
  <1>5. receivedData[p] \o Append(inbox[p], message) = Append(receivedData[p] \o inbox[p], message)
    BY ONLY <1>2, AppendToConcat, message \in Message, Zenon
  <1>6. receivedData[p] \o inbox[p] \in Seq(Message)
    BY <1>2
  <1> QED
    BY <1>4, <1>5, <1>6 DEF Stream, p

-----------------------------------------------------------------------------
LEMMA NotifiedChat ==
  ASSUME TypeInv, NEW e \in Ends, Notified(e)
  PROVE  /\ chat' \in [Ends -> Locations]
         /\ \A f \in Ends : chat'[f] = chat[f] \/ (chat[f] = "asleep" /\ chat'[f] = "waiting")
  BY DEF TypeInv, Notified, Goto, Locations

(* The steps of Next, with those that end a process taken together.        *)
LEMMA NextSteps ==
  ASSUME Next
  PROVE  \/ Listen \/ \E p \in Processes : Ended(p)
         \/ \E c \in Clients : Connect(c) \/ Accept(c) \/ InvokeDeferred(c)
         \/ \E e \in Ends : ReadLine(e) \/ Thread(e)
  BY DEF Next, ListenFails, AcceptFails, ConnectFails, Leave, Processes

LEMMA TypeNext == ASSUME TypeInv, [Next]_vars PROVE TypeInv'
  <1> USE MessengerAssumption DEF TypeInv, Idle, Goto, EndProcess, Runs
  <1>1. CASE Listen \/ \E p \in Processes : Ended(p)
    BY <1>1 DEF Listen, Ended
  <1>2. ASSUME NEW c \in Clients, Connect(c) \/ Accept(c) \/ InvokeDeferred(c) PROVE TypeInv'
    <2> USE EndOfClient
    <2>1. CASE Connect(c)
      BY <2>1 DEF Connect, Locations
    <2>2. CASE Accept(c) \/ InvokeDeferred(c)
      <3>1. /\ chat' \in [Ends -> Locations] /\ connected' \in [Ends -> BOOLEAN]
            /\ \A f \in Ends : chat'[f] \notin Idle => chat[f] \notin Idle
        <4> DEFINE e == <<c, "server">>
        <4>1. e \in Ends
          OBVIOUS
        <4>2. /\ chat' = [chat EXCEPT ![e] = "deferred"] \/ chat' = [chat EXCEPT ![e] = "reading"]
              /\ connected' = [connected EXCEPT ![e] = TRUE] \/ connected' = connected
          BY <2>2 DEF Accept, InvokeDeferred
        <4> HIDE DEF e
        <4> QED
          BY <4>1, <4>2 DEF Locations
      <3> QED
        BY <2>2, <3>1 DEF Accept, InvokeDeferred
    <2> QED
      BY <1>2, <2>1, <2>2
  <1>3. ASSUME NEW e \in Ends, ReadLine(e) PROVE TypeInv'
    <2>1. PICK line \in Lines : typed' = [typed EXCEPT ![e] = Append(typed[e], line)]
      BY <1>3 DEF ReadLine
    <2>2. /\ Append(typed[e], line) \in Seq(Lines)
          /\ Len(Append(typed[e], line)) = Len(typed[e]) + 1 /\ Len(typed[e]) \in Nat
      BY AppendProperties, LenProperties
    <2>3. /\ typed' \in [Ends -> Seq(Lines)] /\ chat' \in [Ends -> Locations]
          /\ \A f \in Ends : f # e => typed'[f] = typed[f] /\ chat'[f] = chat[f]
          /\ Len(typed'[e]) = Len(typed[e]) + 1
      BY <1>3, <2>1, <2>2 DEF ReadLine, Locations
    <2>4. \A f \in Ends : /\ Len(typed'[f]) <= MaxLines
                          /\ chat'[f] \notin Idle => Len(typed'[f]) > 0
      BY <1>3, <2>2, <2>3 DEF ReadLine
    <2> QED
      BY <1>3, <2>3, <2>4 DEF ReadLine
  <1>4. ASSUME NEW e \in Ends, SendRequest(e) \/ Await(e) \/ Block(e) PROVE TypeInv'
    <2>1. CASE SendRequest(e)
      BY <2>1 DEF SendRequest, Locations
    <2>2. CASE Await(e)
      <3>1. /\ chat' \in [Ends -> Locations]
            /\ \A f \in Ends : chat'[f] \notin Idle => chat[f] \notin Idle
        BY <2>2 DEF Await, Locations
      <3>2. response_queue' \in [Ends -> SUBSET (1..MaxLines)]
        <4>1. \/ response_queue' = response_queue
              \/ response_queue' = [response_queue EXCEPT ![e] = response_queue[e] \ {Len(typed[e])}]
          BY <2>2 DEF Await, ReadResponse
        <4>2. response_queue[e] \ {Len(typed[e])} \in SUBSET (1..MaxLines)
          OBVIOUS
        <4> QED
          BY <4>1, <4>2
      <3> QED
        BY <2>2, <3>1, <3>2 DEF Await
    <2>3. CASE Block(e)
      BY <2>3 DEF Block, Locations
    <2> QED
      BY <1>4, <2>1, <2>2, <2>3
  <1>5. ASSUME NEW e \in Ends, Transmit(e) PROVE TypeInv'
    <2>1. chat' \in [Ends -> Locations] /\ alive' \subseteq alive
          /\ \A f \in Ends : chat'[f] \notin Idle => chat[f] \notin Idle
      BY <1>5 DEF Transmit, AfterSend, Locations
    <2>2. inbox' \in [Ends -> Seq(Message)]
      BY <1>5, RequestType, ArrivesAtEnd DEF Transmit
    <2> QED
      BY <1>5, <2>1, <2>2 DEF Transmit
  <1>6. ASSUME NEW e \in Ends, Receive(e) PROVE TypeInv'
    <2> DEFINE message == Head(Stream(e))
    <2>1. /\ inbox' \in [Ends -> Seq(Message)] /\ receivedData' \in [Ends -> Seq(Message)]
          /\ Stream(e) \in Seq(Message) /\ Stream(e) # <<>>
          /\ IF message.type = "RES"
             THEN /\ response_queue' = [response_queue EXCEPT ![e] = @ \cup {message.id}]
                  /\ Notified(e) /\ UNCHANGED printing
             ELSE /\ printing' = IF Valid(message)
                                 THEN [printing EXCEPT ![e] = @ \cup {message}] ELSE printing
                  /\ UNCHANGED <<response_queue, chat>>
      BY <1>6, ReceiveTakesHead
    <2>2. message \in Message
      BY <2>1, HeadTailProperties
    <2>3. UNCHANGED <<alive, left, listening, connected, answering, typed, printed>>
      BY <1>6 DEF Receive
    <2> HIDE DEF message
    <2>4. CASE message.type = "RES"
      <3>1. response_queue' \in [Ends -> SUBSET (1..MaxLines)]
        <4>1. message.id \in 1..MaxLines
          BY <2>2, <2>4 DEF Message
        <4>2. response_queue' = [response_queue EXCEPT ![e] = @ \cup {message.id}]
          BY <2>1, <2>4
        <4> QED
          BY <4>1, <4>2
      <3>2. UNCHANGED printing /\ Notified(e)
        BY <2>1, <2>4
      <3> QED
        BY <2>1, <2>3, <3>1, <3>2, NotifiedChat
    <2>5. CASE message.type # "RES"
      <3>1. printing' \in [Ends -> SUBSET [type : {"REQ"}, id : 1..MaxLines, line : Lines \ {Empty}]]
        <4>1. Valid(message) => message \in [type : {"REQ"}, id : 1..MaxLines, line : Lines \ {Empty}]
          BY <2>2, <2>5 DEF Message, Valid
        <4>2. printing' = IF Valid(message)
                          THEN [printing EXCEPT ![e] = @ \cup {message}] ELSE printing
          BY <2>1, <2>5
        <4> QED
          BY <4>1, <4>2
      <3> QED
        BY <2>1, <2>3, <2>5, <3>1
    <2> QED
      BY <2>4, <2>5
  <1>7. ASSUME NEW e \in Ends, Shutdown(e) PROVE TypeInv'
    <2>1. /\ inbox' \in [Ends -> Seq(Message)] /\ receivedData' \in [Ends -> Seq(Message)]
          /\ connected' \in [Ends -> BOOLEAN] /\ response_queue' \in [Ends -> SUBSET (1..MaxLines)]
      BY <1>7 DEF Shutdown
    <2> QED
      BY <1>7, <2>1, NotifiedChat DEF Shutdown
  <1>8. ASSUME NEW e \in Ends, NEW request \in printing[e], PrintRpc(e, request) PROVE TypeInv'
    <2>1. request.line \in Lines /\ request.id \in 1..MaxLines
      OBVIOUS
    <2>2. printed' \in [Ends -> Seq(Lines)]
      BY <1>8, <2>1, AppendProperties DEF PrintRpc
    <2> QED
      BY <1>8, <2>1, <2>2 DEF PrintRpc
  <1>9. ASSUME NEW e \in Ends, NEW id \in answering[e], SendResponse(e, id) PROVE TypeInv'
    <2>1. Response(id) \in Message
      BY DEF Response, Message
    <2>2. inbox' \in [Ends -> Seq(Message)]
      BY <1>9, <2>1, ArrivesAtEnd DEF SendResponse
    <2> QED
      BY <1>9, <2>2 DEF SendResponse
  <1>10. CASE UNCHANGED vars
    BY <1>10
  <1> QED
    BY <1>1, <1>2, <1>3, <1>4, <1>5, <1>6, <1>7, <1>8, <1>9, <1>10, NextSteps DEF Thread

LEMMA TypeInit == Init => TypeInv
  <1> SUFFICES ASSUME Init PROVE TypeInv
    OBVIOUS
  <1>1. typed \in [Ends -> Seq(Lines)] /\ printed \in [Ends -> Seq(Lines)]
    BY DEF Init
  <1>2. inbox \in [Ends -> Seq(Message)] /\ receivedData \in [Ends -> Seq(Message)]
    BY DEF Init
  <1>3. \A e \in Ends : Len(typed[e]) <= MaxLines /\ chat[e] \in Idle
    BY MessengerAssumption DEF Init, Idle
  <1> QED
    BY <1>1, <1>2, <1>3 DEF Init, TypeInv, Locations

LEMMA TypeInvariant == Spec => []TypeInv
  BY TypeInit, TypeNext, PTL DEF Spec

(* Every variable has its type; in particular a handler that prints has a  *)
(* line that is not empty.                                                 *)
THEOREM TypeCorrect == Spec => []TypeOK
  BY TypeInvariant, TypeCorrectly, PTL

-----------------------------------------------------------------------------
LEMMA LinkMoves ==
  ASSUME LinkInv, UNCHANGED <<connected, printing, answering>>, alive' \subseteq alive,
         \A f \in Ends : chat'[f] = "new" <=> chat[f] = "new"
  PROVE  LinkInv'
  BY DEF LinkInv, PeerRuns, Runs

LEMMA LinkNext == ASSUME TypeInv, LinkInv, [Next]_vars PROVE LinkInv'
  <1> USE DEF TypeInv, Goto, EndProcess
  <1>1. CASE Listen \/ \E p \in Processes : Ended(p)
    BY <1>1, LinkMoves DEF Listen, Ended
  <1>2. ASSUME NEW c \in Clients, Connect(c) \/ Accept(c) \/ InvokeDeferred(c) PROVE LinkInv'
    <2>1. CASE Connect(c)
      BY <2>1, EndOfClient DEF LinkInv, PeerRuns, Connect
    <2>2. CASE Accept(c)
      BY <2>2, EndOfClient DEF LinkInv, PeerRuns, Accept
    <2>3. CASE InvokeDeferred(c)
      BY <2>3, EndOfClient DEF LinkInv, PeerRuns, InvokeDeferred
    <2> QED
      BY <1>2, <2>1, <2>2, <2>3
  <1>3. ASSUME NEW e \in Ends, ReadLine(e) \/ SendRequest(e) \/ Transmit(e) \/ Await(e) \/ Block(e)
        PROVE  LinkInv'
    <2>1. /\ UNCHANGED <<connected, printing, answering>> /\ alive' \subseteq alive
          /\ \A f \in Ends : chat'[f] = "new" <=> chat[f] = "new"
      BY <1>3 DEF ReadLine, SendRequest, Transmit, AfterSend, Await, Block
    <2> QED
      BY <2>1, LinkMoves
  <1>4. ASSUME NEW e \in Ends, Receive(e) PROVE LinkInv'
    <2>1. UNCHANGED <<alive, left, connected, answering>> /\ connected[e] /\ chat[e] # "new"
      BY <1>4 DEF Receive, Listens, LinkInv
    <2>2. /\ \A f \in Ends : chat'[f] = "new" <=> chat[f] = "new"
          /\ \A f \in Ends : f # e => printing'[f] = printing[f]
      <3>1. (Notified(e) /\ UNCHANGED printing) \/
            (UNCHANGED chat /\ (UNCHANGED printing \/
              \E m : printing' = [printing EXCEPT ![e] = printing[e] \cup {m}]))
        BY <1>4, ReceiveTakesHead
      <3>2. CASE Notified(e) /\ UNCHANGED printing
        BY <3>2, NotifiedChat
      <3>3. CASE UNCHANGED chat /\ (UNCHANGED printing \/
                  \E m : printing' = [printing EXCEPT ![e] = printing[e] \cup {m}])
        BY <3>3
      <3> QED
        BY <3>1, <3>2, <3>3
    <2> QED
      BY <2>1, <2>2 DEF LinkInv, PeerRuns
  <1>5. ASSUME NEW e \in Ends, Shutdown(e) PROVE LinkInv'
    <2>1. \A f \in Ends : chat'[f] = "new" <=> chat[f] = "new"
      BY <1>5, NotifiedChat DEF Shutdown
    <2> QED
      BY <1>5, <2>1 DEF LinkInv, PeerRuns, Shutdown, StreamEnds
  <1>6. ASSUME NEW e \in Ends, NEW request \in printing[e], PrintRpc(e, request) PROVE LinkInv'
    BY <1>6 DEF LinkInv, PeerRuns, PrintRpc
  <1>7. ASSUME NEW e \in Ends, NEW id \in answering[e], SendResponse(e, id) PROVE LinkInv'
    BY <1>7 DEF LinkInv, PeerRuns, SendResponse
  <1>8. CASE UNCHANGED vars
    BY <1>8 DEF LinkInv, PeerRuns
  <1> QED
    BY <1>1, <1>2, <1>3, <1>4, <1>5, <1>6, <1>7, <1>8, NextSteps DEF Thread

(* The chat of an end never returns to "new"; left only grows.             *)
LEMMA ChatGoesOn ==
  ASSUME TypeInv, [Next]_vars
  PROVE  left \subseteq left' /\ \A e \in Ends : chat[e] # "new" => chat'[e] # "new"
  <1> USE DEF TypeInv, Goto
  <1>1. CASE Listen \/ \E p \in Processes : Ended(p)
    BY <1>1 DEF Listen, Ended
  <1>2. ASSUME NEW c \in Clients, Connect(c) \/ Accept(c) \/ InvokeDeferred(c)
        PROVE  left' = left /\ \A e \in Ends : chat[e] # "new" => chat'[e] # "new"
    BY <1>2 DEF Connect, Accept, InvokeDeferred
  <1>3. ASSUME NEW e \in Ends, ReadLine(e) \/ SendRequest(e) \/ Transmit(e) \/ Await(e) \/ Block(e)
        PROVE  left' = left /\ \A f \in Ends : chat[f] # "new" => chat'[f] # "new"
    BY <1>3 DEF ReadLine, SendRequest, Transmit, AfterSend, Await, Block
  <1>4. ASSUME NEW e \in Ends, Receive(e)
        PROVE  left' = left /\ \A f \in Ends : chat[f] # "new" => chat'[f] # "new"
    <2>1. Notified(e) \/ UNCHANGED chat
      BY <1>4, ReceiveTakesHead
    <2> QED
      BY <1>4, <2>1, NotifiedChat DEF Receive
  <1>5. ASSUME NEW e \in Ends, Shutdown(e)
        PROVE  left' = left /\ \A f \in Ends : chat[f] # "new" => chat'[f] # "new"
    BY <1>5, NotifiedChat DEF Shutdown
  <1>6. ASSUME NEW e \in Ends, NEW request \in printing[e], PrintRpc(e, request)
        PROVE  UNCHANGED <<left, chat>>
    BY <1>6 DEF PrintRpc
  <1>7. ASSUME NEW e \in Ends, NEW id \in answering[e], SendResponse(e, id)
        PROVE  left' = left /\ \A f \in Ends : chat[f] # "new" => chat'[f] # "new"
    BY <1>7 DEF SendResponse
  <1>8. CASE UNCHANGED vars
    BY <1>8
  <1> QED
    BY <1>1, <1>2, <1>3, <1>4, <1>5, <1>6, <1>7, <1>8, NextSteps DEF Thread

(* A thread that ends its process has found its connection down, so that   *)
(* the process at the other end was there and is no more.                  *)
LEMMA WhoEnds ==
  ASSUME TypeInv, LinkInv, [Next]_vars
  PROVE  \/ alive' = alive
         \/ \E p \in Processes : alive' = alive \ {p} /\ p \in left'
         \/ \E e \in Ends : /\ Runs(e) /\ alive' = alive \ {Process(e)}
                            /\ ~PeerRuns(e) /\ chat[e] # "new"
  <1> DEFINE Goal == \/ alive' = alive
                     \/ \E p \in Processes : alive' = alive \ {p} /\ p \in left'
                     \/ \E e \in Ends : /\ Runs(e) /\ alive' = alive \ {Process(e)}
                                        /\ ~PeerRuns(e) /\ chat[e] # "new"
  <1>1. CASE Listen \/ \E p \in Processes : Ended(p)
    BY <1>1 DEF Listen, Ended, EndProcess
  <1>2. ASSUME NEW c \in Clients, Connect(c) \/ Accept(c) \/ InvokeDeferred(c) PROVE alive' = alive
    BY <1>2 DEF Connect, Accept, InvokeDeferred
  <1>3. ASSUME NEW e \in Ends, SendRequest(e) \/ Transmit(e) PROVE Goal
    BY <1>3 DEF LinkInv, SendRequest, Transmit, EndProcess
  <1>4. ASSUME NEW e \in Ends, NEW id \in answering[e], SendResponse(e, id) PROVE Goal
    BY <1>4 DEF LinkInv, SendResponse, EndProcess
  <1>5. ASSUME NEW e \in Ends, ReadLine(e) \/ Await(e) \/ Block(e) \/ Receive(e) \/ Shutdown(e)
        PROVE  alive' = alive
    BY <1>5 DEF ReadLine, Await, Block, Receive, Shutdown
  <1>6. ASSUME NEW e \in Ends, NEW request \in printing[e], PrintRpc(e, request) PROVE alive' = alive
    BY <1>6 DEF PrintRpc
  <1>7. CASE UNCHANGED vars
    BY <1>7
  <1> QED
    BY <1>1, <1>2, <1>3, <1>4, <1>5, <1>6, <1>7, NextSteps DEF Thread

LEMMA ConnectionNext == ASSUME TypeInv, ConnectionInv, [Next]_vars PROVE ConnectionInv'
  <1> USE DEF ConnectionInv
  <1>1. LinkInv'
    BY LinkNext
  <1>2. left \subseteq left' /\ \A c \in Clients : chat[<<c, "server">>] # "new" => chat'[<<c, "server">>] # "new"
    BY ChatGoesOn, EndOfClient
  <1>3. /\ left' \subseteq Processes /\ alive \subseteq Processes /\ left \subseteq Processes
        /\ Server \notin Clients
    BY TypeNext, MessengerAssumption DEF TypeInv
  <1>4. ASSUME alive' = alive PROVE EndsOnlyAfterLoss'
    <2>1. EndsOnlyAfterLoss
      OBVIOUS
    <2> QED
      BY ONLY <1>2, <1>3, <1>4, <2>1 DEF EndsOnlyAfterLoss, Processes
  <1>5. ASSUME NEW p \in Processes, alive' = alive \ {p}, p \in left' PROVE EndsOnlyAfterLoss'
    BY <1>2, <1>3, <1>5 DEF EndsOnlyAfterLoss, Processes
  <1>6. ASSUME NEW e \in Ends, Runs(e), alive' = alive \ {Process(e)}, ~PeerRuns(e), chat[e] # "new"
        PROVE  EndsOnlyAfterLoss'
    <2>1. PICK c \in Clients : e = <<c, "client">> \/ e = <<c, "server">>
      BY DEF Ends
    <2>2. CASE e = <<c, "client">>
      <3>1. Process(e) = c /\ Server \notin alive
        BY <1>6, <2>2, EndOfClient DEF PeerRuns
      <3> QED
        BY <1>2, <1>3, <1>6, <3>1 DEF EndsOnlyAfterLoss, Processes
    <2>3. CASE e = <<c, "server">>
      <3>1. Process(e) = Server /\ Server \in alive /\ c \notin alive /\ chat[<<c, "server">>] # "new"
        BY <1>6, <2>3, EndOfClient DEF PeerRuns, Runs
      <3>2. c \in left
        BY <3>1 DEF EndsOnlyAfterLoss
      <3> QED
        BY <1>2, <1>3, <1>6, <3>1, <3>2 DEF EndsOnlyAfterLoss, Processes
    <2> QED
      BY <2>1, <2>2, <2>3
  <1> QED
    BY <1>1, <1>4, <1>5, <1>6, WhoEnds

LEMMA ConnectionInvariant == Spec => []ConnectionInv
  <1>1. Init => ConnectionInv
    BY DEF Init, ConnectionInv, LinkInv, EndsOnlyAfterLoss, Processes
  <1>2. TypeInv /\ ConnectionInv /\ [Next]_vars => ConnectionInv'
    BY ConnectionNext
  <1> QED
    BY <1>1, <1>2, TypeInvariant, PTL DEF Spec

(* With any number of clients: while the server runs, none of them is      *)
(* ended by its own threads, whoever else leaves; and the server's threads *)
(* end it (an exception nobody catches, SIGPIPE) only when a client it had *)
(* accepted was ended. listen() and accept() that fail are apart.          *)
THEOREM NobodyEndsFirst == Spec => []EndsOnlyAfterLoss
  BY ConnectionInvariant, PTL DEF ConnectionInv

-----------------------------------------------------------------------------
(* The requests of t are the last ones of s, in the same order; its        *)
(* answers are among those of s.                                           *)
SameRequests(s, t) ==
  \E d \in Nat : \A i \in 1..Len(t) :
    t[i].type = "REQ" => i + d \in 1..Len(s) /\ t[i] = s[i + d]

SameAnswers(s, t) ==
  \A i \in 1..Len(t) : t[i].type = "RES" => \E j \in 1..Len(s) : t[i] = s[j]

LEMMA SameStream ==
  ASSUME NEW s \in Seq(Message), NEW m \in Message
  PROVE  /\ SameRequests(s, s) /\ SameAnswers(s, s)
         /\ SameRequests(s, <<>>) /\ SameAnswers(s, <<>>)
         /\ s # <<>> => SameRequests(s, Tail(s)) /\ SameAnswers(s, Tail(s))
         /\ m.type = "RES" => SameRequests(s, Append(s, m))
         /\ m.type = "REQ" => SameAnswers(s, Append(s, m))
  <1>1. SameRequests(s, s) /\ SameAnswers(s, s)
    BY DEF SameRequests, SameAnswers
  <1>2. SameRequests(s, <<>>) /\ SameAnswers(s, <<>>)
    BY DEF SameRequests, SameAnswers
  <1>3. ASSUME s # <<>> PROVE SameRequests(s, Tail(s)) /\ SameAnswers(s, Tail(s))
    <2>1. \A i \in 1..Len(Tail(s)) : i + 1 \in 1..Len(s) /\ Tail(s)[i] = s[i + 1]
      BY <1>3
    <2> QED
      BY <2>1 DEF SameRequests, SameAnswers
  <1>4. \A i \in 1..Len(Append(s, m)) :
          (i \in 1..Len(s) /\ Append(s, m)[i] = s[i]) \/ Append(s, m)[i] = m
    OBVIOUS
  <1>5. ASSUME m.type = "RES" PROVE SameRequests(s, Append(s, m))
    <2>1. \A i \in 1..Len(Append(s, m)) :
            Append(s, m)[i].type = "REQ" => i + 0 \in 1..Len(s) /\ Append(s, m)[i] = s[i + 0]
      BY <1>4, <1>5
    <2> QED
      BY <2>1 DEF SameRequests
  <1>6. ASSUME m.type = "REQ" PROVE SameAnswers(s, Append(s, m))
    BY <1>4, <1>6 DEF SameAnswers
  <1> QED
    BY <1>1, <1>2, <1>3, <1>5, <1>6

(* A step after which an end has no more to print than before, and no      *)
(* answers but those to lines that have been printed.                      *)
LEMMA LineFrame ==
  ASSUME TypeInv, NEW e \in Ends, LineInv(e), alive' \subseteq alive,
         typed'[e] = typed[e], printed'[Peer(e)] = printed[Peer(e)],
         \/ chat'[e] = chat[e]
         \/ chat[e] \in Idle /\ chat'[e] \in Idle
         \/ chat[e] \in Waits /\ chat'[e] \in Waits
         \/ {chat[e], chat'[e]} \subseteq {"sending", "transmit"},
         \A id \in response_queue'[e] :
           id \in response_queue[e] \/ (PeerRuns(e) => Answers(e, id)),
         answering'[Peer(e)] \subseteq answering[Peer(e)],
         SameRequests(Stream(Peer(e)), Stream(Peer(e))'),
         \/ printing'[Peer(e)] \subseteq printing[Peer(e)]
         \/ PeerRuns(e) =>
              /\ \A request \in printing'[Peer(e)] : Pending(e, request)
              /\ \A i \in 1..Len(Stream(Peer(e))') : Stream(Peer(e))'[i].type # "REQ",
         \/ SameAnswers(Stream(e), Stream(e)')
         \/ PeerRuns(e) => \A i \in 1..Len(Stream(e)') :
              Stream(e)'[i].type = "RES" => Answers(e, Stream(e)'[i].id)
  PROVE  LineInv(e)'
  <1> DEFINE p == Peer(e)
  <1>1. IsPrefix(printed[p], typed[e])'
    BY DEF LineInv, IsPrefix
  <1>2. ASSUME PeerRuns(e)' PROVE PeerRuns(e)
    BY <1>2 DEF PeerRuns
  <1>3. chat'[e] \in Idle => chat[e] \in Idle
    BY DEF Idle, Waits
  <1>4. chat'[e] \in {"sending", "transmit"} => chat[e] \in {"sending", "transmit"}
    BY DEF Idle, Waits
  <1>5. \A request : Pending(e, request) => Pending(e, request)'
    BY DEF Pending, Behind, Request, Idle, Waits
  <1>6. \A id : Answers(e, id) => Answers(e, id)'
    BY DEF Answers
  <1>7. ASSUME PeerRuns(e), NEW i \in 1..Len(Stream(p)'), Stream(p)'[i].type = "REQ"
        PROVE  PendingAlone(e, i)'
    <2>1. PICK d \in Nat : \A j \in 1..Len(Stream(p)') :
            Stream(p)'[j].type = "REQ" => j + d \in 1..Len(Stream(p)) /\ Stream(p)'[j] = Stream(p)[j + d]
      BY DEF SameRequests
    <2>2. /\ i + d \in 1..Len(Stream(p)) /\ Stream(p)'[i] = Stream(p)[i + d]
          /\ PendingAlone(e, i + d)
      BY <1>7, <2>1 DEF LineInv
    <2>3. Pending(e, Stream(p)[i])'
      BY <1>5, <2>2 DEF PendingAlone
    <2>4. printing'[p] = {}
      BY <1>7, <2>2 DEF PendingAlone
    <2>5. \A j \in 1..Len(Stream(p)') : Stream(p)'[j].type = "REQ" => j = i
      BY <2>1, <2>2 DEF PendingAlone
    <2> QED
      BY <2>3, <2>4, <2>5 DEF PendingAlone
  <1>8. ASSUME PeerRuns(e), NEW i \in 1..Len(Stream(e)'), Stream(e)'[i].type = "RES"
        PROVE  Answers(e, Stream(e)[i].id)'
    <2>1. CASE SameAnswers(Stream(e), Stream(e)')
      BY <1>6, <1>8, <2>1 DEF SameAnswers, LineInv
    <2>2. CASE Answers(e, Stream(e)'[i].id)
      BY <1>6, <2>2
    <2> QED
      BY <1>8, <2>1, <2>2
  <1>9. PeerRuns(e) /\ chat[e] \in {"sending", "transmit"} => Behind(e)'
    BY DEF LineInv, Behind
  <1>10. PeerRuns(e) /\ chat[e] \in Idle => printed'[p] = typed'[e]
    BY DEF LineInv
  <1>11. PeerRuns(e) => \A request \in printing'[p] : Pending(e, request)'
    BY <1>5 DEF LineInv
  <1>12. PeerRuns(e) => \A id \in answering'[p] \cup response_queue'[e] : Answers(e, id)'
    BY <1>6 DEF LineInv
  <1> QED
    BY <1>1, <1>2, <1>3, <1>4, <1>7, <1>8, <1>9, <1>10, <1>11, <1>12 DEF LineInv

LEMMA StreamType ==
  ASSUME TypeInv, NEW e \in Ends PROVE Stream(e) \in Seq(Message)
  BY DEF TypeInv, Stream

LEMMA StreamStays ==
  ASSUME TypeInv, NEW e \in Ends, Stream(e)' = Stream(e) \/ Stream(e)' = <<>>
  PROVE  SameRequests(Stream(e), Stream(e)') /\ SameAnswers(Stream(e), Stream(e)')
  <1>1. Stream(e) \in Seq(Message)
    BY StreamType
  <1>2. /\ SameRequests(Stream(e), Stream(e)) /\ SameAnswers(Stream(e), Stream(e))
        /\ SameRequests(Stream(e), <<>>) /\ SameAnswers(Stream(e), <<>>)
    <2> DEFINE s == Stream(e)
    <2>1. s \in Seq(Message)
      BY <1>1
    <2> HIDE DEF s
    <2>2. /\ SameRequests(s, s) /\ SameAnswers(s, s)
          /\ SameRequests(s, <<>>) /\ SameAnswers(s, <<>>)
      BY <2>1 DEF SameRequests, SameAnswers
    <2> QED
      BY <2>2 DEF s
  <1> QED
    BY <1>2

(* Facts on prefixes.                                                      *)
LEMMA PrefixAppend ==
  \A s, t \in Seq(Lines), x \in Lines : IsPrefix(s, t) => IsPrefix(s, Append(t, x))
  <1> SUFFICES ASSUME NEW s \in Seq(Lines), NEW t \in Seq(Lines), NEW x \in Lines, IsPrefix(s, t)
               PROVE  IsPrefix(s, Append(t, x))
    OBVIOUS
  <1>1. Len(s) <= Len(t) /\ SubSeq(s, 1, Len(s)) = SubSeq(t, 1, Len(s))
    BY DEF IsPrefix
  <1>2. Len(s) \in Nat /\ Len(t) \in Nat /\ Len(Append(t, x)) = Len(t) + 1
    OBVIOUS
  <1>3. SubSeq(Append(t, x), 1, Len(s)) = SubSeq(t, 1, Len(s))
    BY <1>1, <1>2
  <1> QED
    BY <1>1, <1>2, <1>3 DEF IsPrefix

LEMMA PrefixComplete ==
  \A s, t \in Seq(Lines) :
    IsPrefix(s, t) => /\ Len(s) = Len(t) => s = t
                      /\ Len(s) = Len(t) - 1 => Append(s, Last(t)) = t
  <1> SUFFICES ASSUME NEW s \in Seq(Lines), NEW t \in Seq(Lines), IsPrefix(s, t)
               PROVE  /\ Len(s) = Len(t) => s = t
                      /\ Len(s) = Len(t) - 1 => Append(s, Last(t)) = t
    OBVIOUS
  <1>1. Len(s) <= Len(t) /\ SubSeq(s, 1, Len(s)) = SubSeq(t, 1, Len(s))
    BY DEF IsPrefix
  <1>2. Len(s) \in Nat /\ Len(t) \in Nat
    OBVIOUS
  <1>3. \A i \in 1..Len(s) : s[i] = t[i]
    <2>1. \A i \in 1..Len(s) : SubSeq(s, 1, Len(s))[i] = s[i] /\ SubSeq(t, 1, Len(s))[i] = t[i]
      BY <1>1, <1>2
    <2> QED
      BY <1>1, <2>1
  <1>4. Len(s) = Len(t) => s = t
    BY <1>3, SeqEqual
  <1>5. ASSUME Len(s) = Len(t) - 1 PROVE Append(s, Last(t)) = t
    <2>1. Last(t) \in Lines /\ Last(t) = t[Len(t)]
      BY <1>2, <1>5 DEF Last
    <2>2. /\ Append(s, Last(t)) \in Seq(Lines) /\ Len(Append(s, Last(t))) = Len(t)
          /\ \A i \in 1..Len(t) : Append(s, Last(t))[i] = IF i = Len(t) THEN Last(t) ELSE s[i]
      BY <1>2, <1>5, <2>1
    <2>3. \A i \in 1..Len(t) : Append(s, Last(t))[i] = t[i]
      BY <1>2, <1>3, <1>5, <2>1, <2>2
    <2> QED
      BY <2>2, <2>3, SeqEqual
  <1> QED
    BY <1>4, <1>5

-----------------------------------------------------------------------------
LEMMA OrderCalm ==
  ASSUME TypeInv, OrderInv, alive' \subseteq alive, UNCHANGED <<linkVars, typed, printed>>,
         \A e \in Ends : \/ chat'[e] = chat[e]
                         \/ chat[e] \in Idle /\ chat'[e] \in Idle
                         \/ chat[e] \in Waits /\ chat'[e] \in Waits
                         \/ {chat[e], chat'[e]} \subseteq {"sending", "transmit"}
  PROVE  OrderInv'
  <1> SUFFICES ASSUME NEW e \in Ends PROVE LineInv(e)'
    BY DEF OrderInv
  <1>1. Peer(e) \in Ends /\ LineInv(e)
    BY PeerOfEnd DEF OrderInv
  <1>2. SameRequests(Stream(Peer(e)), Stream(Peer(e))') /\ SameAnswers(Stream(e), Stream(e)')
    BY <1>1, StreamStays DEF Stream
  <1> QED
    BY <1>1, <1>2, LineFrame

LEMMA OrderReadLine == ASSUME TypeInv, OrderInv, NEW e \in Ends, ReadLine(e) PROVE OrderInv'
  <1>1. PICK line \in Lines : typed' = [typed EXCEPT ![e] = Append(typed[e], line)]
    BY DEF ReadLine
  <1>2. /\ chat[e] = "reading" /\ chat' = [chat EXCEPT ![e] = "sending"]
        /\ UNCHANGED <<alive, linkVars, printed>>
    BY DEF ReadLine, Goto
  <1>3. ASSUME NEW f \in Ends, f # e PROVE LineInv(f)'
    <2>1. Peer(f) \in Ends /\ LineInv(f) /\ typed'[f] = typed[f] /\ chat'[f] = chat[f]
      BY <1>1, <1>2, <1>3, PeerOfEnd DEF OrderInv, TypeInv
    <2>2. SameRequests(Stream(Peer(f)), Stream(Peer(f))') /\ SameAnswers(Stream(f), Stream(f)')
      BY <1>2, <2>1, StreamStays DEF Stream
    <2> QED
      BY <1>2, <2>1, <2>2, LineFrame
  <1>4. LineInv(e)'
    <2> DEFINE p == Peer(e)
    <2>1. LineInv(e) /\ p \in Ends /\ typed[e] \in Seq(Lines) /\ printed[p] \in Seq(Lines)
      BY PeerOfEnd DEF OrderInv, TypeInv
    <2>2. /\ typed'[e] = Append(typed[e], line) /\ chat'[e] = "sending"
          /\ Len(typed'[e]) = Len(typed[e]) + 1 /\ Len(typed[e]) \in Nat
      BY <1>1, <1>2, <2>1 DEF TypeInv
    <2>3. IsPrefix(printed[p], typed[e])'
      BY <1>2, <2>1, <2>2, PrefixAppend DEF LineInv
    <2>4. ASSUME PeerRuns(e)
          PROVE  /\ Behind(e)' /\ printing'[p] = {}
                 /\ \A i \in 1..Len(Stream(p)) : Stream(p)[i].type # "REQ"
                 /\ \A id \in 1..MaxLines : Answers(e, id) => Answers(e, id)'
      <3>1. printed[p] = typed[e]
        BY <1>2, <2>1, <2>4 DEF LineInv, Idle
      <3>2. Behind(e)'
        BY <1>2, <2>2, <3>1 DEF Behind
      <3>3. \A request : ~Pending(e, request)
        BY <1>2 DEF Pending, Waits
      <3>4. printing[p] = {} /\ \A i \in 1..Len(Stream(p)) : Stream(p)[i].type # "REQ"
        BY <2>1, <2>4, <3>3 DEF LineInv, PendingAlone
      <3>5. \A id \in 1..MaxLines : Answers(e, id) => Answers(e, id)'
        BY <2>2 DEF Answers
      <3> QED
        BY <1>2, <3>2, <3>4, <3>5
    <2>5. Stream(p)' = Stream(p) /\ Stream(e)' = Stream(e)
      BY <1>2 DEF Stream
    <2>6. ASSUME PeerRuns(e)' PROVE PeerRuns(e)
      BY <1>2, <2>6 DEF PeerRuns
    <2>7. ASSUME PeerRuns(e) PROVE
             /\ \A id \in answering'[p] \cup response_queue'[e] : Answers(e, id)'
             /\ \A i \in 1..Len(Stream(e)') : Stream(e)'[i].type = "RES" => Answers(e, Stream(e)[i].id)'
      <3>1. answering[p] \cup response_queue[e] \subseteq 1..MaxLines
        BY <2>1 DEF TypeInv
      <3>2. \A i \in 1..Len(Stream(e)) : Stream(e)[i].type = "RES" => Stream(e)[i].id \in 1..MaxLines
        <4>1. \A i \in 1..Len(Stream(e)) : Stream(e)[i] \in Message
          BY StreamType, ElementOfSeq
        <4> QED
          BY <4>1 DEF Message
      <3> QED
        BY <1>2, <2>1, <2>4, <2>5, <2>7, <3>1, <3>2 DEF LineInv
    <2> QED
      BY <2>2, <2>3, <2>4, <2>5, <2>6, <2>7 DEF LineInv, Idle
  <1> QED
    BY <1>3, <1>4 DEF OrderInv

LEMMA OrderAwait ==
  ASSUME TypeInv, ConnectionInv, OrderInv, NEW e \in Ends, Await(e)
  PROVE  OrderInv'
  <1>1. /\ chat[e] = "waiting" /\ UNCHANGED <<alive, inbox, receivedData, printing, answering, typed, printed>>
        /\ \/ chat' = [chat EXCEPT ![e] = "blocking"] /\ UNCHANGED response_queue
           \/ /\ ~connected[e] \/ Received(e)
              /\ chat' = [chat EXCEPT ![e] = "reading"]
              /\ response_queue' = [response_queue EXCEPT ![e] = response_queue[e] \ {Len(typed[e])}]
    BY DEF Await, Goto, ReadResponse
  <1>2. \A f \in Ends : Stream(f)' = Stream(f)
    BY <1>1 DEF Stream
  <1>3. \A f \in Ends : response_queue'[f] \subseteq response_queue[f]
    BY <1>1 DEF TypeInv
  <1>4. ASSUME NEW f \in Ends, chat'[f] = chat[f] \/ (chat[f] \in Waits /\ chat'[f] \in Waits)
        PROVE  LineInv(f)'
    <2>1. Peer(f) \in Ends /\ LineInv(f)
      BY PeerOfEnd DEF OrderInv
    <2>2. SameRequests(Stream(Peer(f)), Stream(Peer(f))') /\ SameAnswers(Stream(f), Stream(f)')
      BY <1>2, <2>1, StreamStays
    <2> QED
      BY <1>1, <1>3, <1>4, <2>1, <2>2, LineFrame
  <1>5. ASSUME chat'[e] = "reading", ~connected[e] \/ Received(e) PROVE LineInv(e)'
    <2> DEFINE p == Peer(e)
    <2>1. LineInv(e) /\ p \in Ends /\ PeerRuns(e)' = PeerRuns(e)
      BY <1>1, PeerOfEnd DEF OrderInv, PeerRuns
    <2>2. IsPrefix(printed[p], typed[e])'
      BY <1>1, <2>1 DEF LineInv
    <2>3. ASSUME PeerRuns(e) PROVE printed[p] = typed[e] /\ ~Behind(e)
      <3>1. Received(e)
        BY <1>1, <1>5, <2>3 DEF ConnectionInv, LinkInv
      <3>2. Answers(e, Len(typed[e])) /\ Len(typed[e]) \in Nat
        BY <2>1, <2>3, <3>1 DEF LineInv, Received, TypeInv
      <3> QED
        BY <3>2 DEF Answers, Behind
    <2>4. ASSUME PeerRuns(e) PROVE
            /\ \A i \in 1..Len(Stream(p)) : Stream(p)[i].type # "REQ"
            /\ printing[p] = {}
      BY <2>1, <2>3, <2>4 DEF LineInv, PendingAlone, Pending
    <2>5. \A id : Answers(e, id) => Answers(e, id)'
      BY <1>1 DEF Answers
    <2>6. ASSUME PeerRuns(e) PROVE
             /\ \A id \in answering'[p] \cup response_queue'[e] : Answers(e, id)'
             /\ \A i \in 1..Len(Stream(e)') : Stream(e)'[i].type = "RES" => Answers(e, Stream(e)[i].id)'
      BY <1>1, <1>2, <1>3, <2>1, <2>5, <2>6 DEF LineInv
    <2>7. Stream(p)' = Stream(p)
      BY <1>2, <2>1
    <2> QED
      BY <1>1, <1>5, <2>1, <2>2, <2>3, <2>4, <2>6, <2>7 DEF LineInv, Idle
  <1>6. \A f \in Ends : f # e => chat'[f] = chat[f]
    BY <1>1 DEF TypeInv
  <1>7. \/ chat[e] \in Waits /\ chat'[e] \in Waits
        \/ chat'[e] = "reading" /\ (~connected[e] \/ Received(e))
    BY <1>1 DEF TypeInv, Waits
  <1> QED
    BY <1>4, <1>5, <1>6, <1>7 DEF OrderInv

LEMMA OrderTransmit == ASSUME TypeInv, OrderInv, NEW e \in Ends, Transmit(e) PROVE OrderInv'
  <1> DEFINE p == Peer(e)
  <1>1. /\ chat[e] = "transmit" /\ alive' \subseteq alive
        /\ UNCHANGED <<receivedData, response_queue, printing, answering, typed, printed>>
    BY DEF Transmit, EndProcess
  <1>2. /\ p \in Ends /\ Peer(p) = e /\ p # e
        /\ \A f \in Ends : Peer(f) \in Ends /\ (f # e => Peer(f) # p)
    BY PeerOfEnd DEF Peer, Ends
  <1>3. \A f \in Ends : f # e => chat'[f] = chat[f]
    BY DEF Transmit, Goto, TypeInv
  <1>4. CASE PeerRuns(e) /\ Arrives(e, Request(e)) /\ Goto(e, AfterSend)
    <2>1. Request(e) \in Message /\ Request(e).type = "REQ"
      BY <1>1, RequestType DEF Idle, Request
    <2>2. /\ Stream(p) \in Seq(Message) /\ Stream(p)' = Append(Stream(p), Request(e))
          /\ \A f \in Ends : f # p => Stream(f)' = Stream(f)
      BY <1>1, <1>4, <2>1, ArrivesAtEnd
    <2>3. ASSUME NEW f \in Ends, f # e PROVE LineInv(f)'
      <3>1. LineInv(f) /\ Stream(Peer(f))' = Stream(Peer(f))
        BY <1>2, <2>2, <2>3 DEF OrderInv
      <3>2. SameRequests(Stream(Peer(f)), Stream(Peer(f))')
        BY <1>2, <3>1, StreamStays
      <3>3. CASE f = p
        <4>1. SameAnswers(Stream(p), Append(Stream(p), Request(e)))
          BY <2>1, <2>2, SameStream
        <4> QED
          BY <1>1, <1>3, <2>2, <2>3, <3>1, <3>2, <3>3, <4>1, LineFrame
      <3>4. CASE f # p
        BY <1>1, <1>3, <2>2, <2>3, <3>1, <3>2, <3>4, LineFrame, StreamStays
      <3> QED
        BY <3>3, <3>4
    <2>4. LineInv(e)'
      <3> DEFINE s == Stream(p)
      <3>1. LineInv(e) /\ chat'[e] = "waiting" /\ Stream(e)' = Stream(e)
        BY <1>2, <1>4, <2>2 DEF OrderInv, Goto, AfterSend, TypeInv
      <3>2. /\ Behind(e) /\ printing[p] = {}
            /\ \A i \in 1..Len(s) : s[i].type # "REQ"
        BY <1>1, <1>4, <3>1 DEF LineInv, PendingAlone, Pending, Waits
      <3>3. Pending(e, Request(e))'
        BY <1>1, <3>1, <3>2 DEF Pending, Behind, Request, Waits
      <3>4. Request(e)' = Request(e)
        BY <1>1 DEF Request
      <3>5. \A i \in 1..Len(Stream(p)') :
              Stream(p)'[i].type = "REQ" => i = Len(s) + 1 /\ Stream(p)'[i] = Request(e)
        <4> HIDE DEF s
        <4>1. s \in Seq(Message) /\ Stream(p)' = Append(s, Request(e))
          BY <2>2 DEF s
        <4>2. \A i \in 1..Len(Append(s, Request(e))) :
                i = Len(s) + 1 \/ (i \in 1..Len(s) /\ Append(s, Request(e))[i] = s[i])
          BY <4>1
        <4>3. Append(s, Request(e))[Len(s) + 1] = Request(e)
          BY <4>1
        <4> QED
          BY <3>2, <4>1, <4>2, <4>3 DEF s
      <3>6. \A i \in 1..Len(Stream(p)') : Stream(p)'[i].type = "REQ" => PendingAlone(e, i)'
        BY <1>1, <3>2, <3>3, <3>4, <3>5 DEF PendingAlone
      <3>7. \A id : Answers(e, id) => Answers(e, id)'
        BY <1>1 DEF Answers
      <3>8. /\ IsPrefix(printed[p], typed[e])'
            /\ \A id \in answering'[p] \cup response_queue'[e] : Answers(e, id)'
            /\ \A i \in 1..Len(Stream(e)') :
                 Stream(e)'[i].type = "RES" => Answers(e, Stream(e)[i].id)'
        BY <1>1, <1>4, <3>1, <3>7 DEF LineInv
      <3> QED
        BY <1>1, <3>1, <3>2, <3>6, <3>8 DEF LineInv, Idle
    <2> QED
      BY <2>3, <2>4 DEF OrderInv
  <1>5. CASE ~PeerRuns(e) /\ UNCHANGED inbox
    <2>1. \A f \in Ends : Stream(f)' = Stream(f)
      BY <1>1, <1>5 DEF Stream
    <2>2. ASSUME NEW f \in Ends, f # e PROVE LineInv(f)'
      <3>1. LineInv(f) /\ chat'[f] = chat[f] /\ Peer(f) \in Ends
        BY <1>2, <1>3, <2>2 DEF OrderInv
      <3>2. SameRequests(Stream(Peer(f)), Stream(Peer(f))') /\ SameAnswers(Stream(f), Stream(f)')
        BY <2>1, <3>1, StreamStays
      <3> QED
        BY <1>1, <3>1, <3>2, LineFrame
    <2>3. LineInv(e)'
      <3>1. IsPrefix(printed[p], typed[e])'
        BY <1>1 DEF OrderInv, LineInv
      <3>2. ~PeerRuns(e)'
        BY <1>1, <1>5 DEF PeerRuns
      <3> QED
        BY <3>1, <3>2 DEF LineInv
    <2> QED
      BY <2>2, <2>3 DEF OrderInv
  <1> QED
    BY <1>4, <1>5 DEF Transmit

LEMMA OrderReceive == ASSUME TypeInv, OrderInv, NEW e \in Ends, Receive(e) PROVE OrderInv'
  <1> DEFINE s == Stream(e)
             p == Peer(e)
             message == Head(s)
  <1>1. UNCHANGED <<alive, answering, typed, printed>>
    BY DEF Receive
  <1>2. /\ p \in Ends /\ Peer(p) = e /\ p # e
        /\ \A f \in Ends : Peer(f) \in Ends /\ (f # p => Peer(f) # e)
    BY PeerOfEnd DEF Peer, Ends
  <1>3. /\ s \in Seq(Message) /\ s # <<>> /\ Stream(e)' = Tail(s)
        /\ \A f \in Ends : f # e => Stream(f)' = Stream(f)
        /\ IF message.type = "RES"
           THEN /\ response_queue' = [response_queue EXCEPT ![e] = @ \cup {message.id}]
                /\ Notified(e) /\ UNCHANGED printing
           ELSE /\ printing' = IF Valid(message)
                               THEN [printing EXCEPT ![e] = @ \cup {message}] ELSE printing
                /\ UNCHANGED <<response_queue, chat>>
    BY ReceiveTakesHead
  <1>4. 1 \in 1..Len(s) /\ message = s[1] /\ message \in Message
        /\ \A i \in 1..Len(Tail(s)) : i + 1 \in 1..Len(s) /\ Tail(s)[i] = s[i + 1]
    BY <1>3
  <1>5. \A f \in Ends : /\ SameRequests(Stream(f), Stream(f)')
                        /\ SameAnswers(Stream(f), Stream(f)')
    <2>1. SameRequests(s, Tail(s)) /\ SameAnswers(s, Tail(s))
      BY <1>3, <1>4, SameStream
    <2> QED
      BY <1>3, <2>1, StreamStays
  <1> HIDE DEF s, message
  <1>6. CASE message.type = "RES"
    <2>1. /\ response_queue' = [response_queue EXCEPT ![e] = @ \cup {message.id}]
          /\ UNCHANGED printing
          /\ \A f \in Ends : chat'[f] = chat[f] \/ (chat[f] \in Waits /\ chat'[f] \in Waits)
      BY <1>3, <1>6, NotifiedChat DEF Waits
    <2>2. PeerRuns(e) => Answers(e, message.id)
      BY <1>4, <1>6 DEF OrderInv, LineInv, s
    <2>3. \A f \in Ends : \A id \in response_queue'[f] :
            id \in response_queue[f] \/ (PeerRuns(f) => Answers(f, id))
      BY <2>1, <2>2 DEF TypeInv
    <2>4. ASSUME NEW f \in Ends PROVE LineInv(f)'
      <3>1. LineInv(f) /\ Peer(f) \in Ends
        BY <1>2 DEF OrderInv
      <3> QED
        BY <1>1, <1>5, <2>1, <2>3, <3>1, LineFrame
    <2> QED
      BY <2>4 DEF OrderInv
  <1>7. CASE message.type # "RES"
    <2>1. /\ message.type = "REQ" /\ UNCHANGED <<response_queue, chat>>
          /\ printing'[e] \subseteq printing[e] \cup {message}
          /\ \A f \in Ends : f # e => printing'[f] = printing[f]
      BY <1>3, <1>4, <1>7 DEF Message, TypeInv
    <2>2. ASSUME PeerRuns(p)
          PROVE  /\ \A request \in printing'[e] : Pending(p, request)
                 /\ \A i \in 1..Len(Stream(e)') : Stream(e)'[i].type # "REQ"
      <3>1. PendingAlone(p, 1)
        BY <1>2, <1>4, <2>1, <2>2 DEF OrderInv, LineInv, s
      <3>2. /\ Pending(p, message) /\ printing[e] = {}
            /\ \A j \in 1..Len(s) : s[j].type = "REQ" => j = 1
        BY <1>2, <1>4, <3>1 DEF PendingAlone, s
      <3> QED
        BY <1>3, <1>4, <2>1, <3>2
    <2>3. ASSUME NEW f \in Ends PROVE LineInv(f)'
      <3>1. LineInv(f) /\ Peer(f) \in Ends
        BY <1>2 DEF OrderInv
      <3>2. CASE f = p
        BY <1>1, <1>2, <1>5, <2>1, <2>2, <3>1, <3>2, LineFrame
      <3>3. CASE f # p
        BY <1>1, <1>2, <1>5, <2>1, <3>1, <3>3, LineFrame
      <3> QED
        BY <3>2, <3>3
    <2> QED
      BY <2>3 DEF OrderInv
  <1> QED
    BY <1>6, <1>7

LEMMA OrderPrintRpc ==
  ASSUME TypeInv, OrderInv, NEW e \in Ends, NEW request \in printing[e], PrintRpc(e, request)
  PROVE  OrderInv'
  <1> DEFINE q == Peer(e)
  <1>1. /\ Runs(e) /\ printing' = [printing EXCEPT ![e] = printing[e] \ {request}]
        /\ answering' = [answering EXCEPT ![e] = answering[e] \cup {request.id}]
        /\ printed' = [printed EXCEPT ![e] = Append(printed[e], request.line)]
        /\ UNCHANGED <<alive, chat, inbox, receivedData, response_queue, typed>>
    BY DEF PrintRpc
  <1>2. /\ q \in Ends /\ Peer(q) = e
        /\ \A f \in Ends : Peer(f) \in Ends /\ (f # q => Peer(f) # e)
    BY PeerOfEnd DEF Peer, Ends
  <1>3. \A f \in Ends : Stream(f)' = Stream(f)
    BY <1>1 DEF Stream
  <1>4. ASSUME NEW f \in Ends, f # q PROVE LineInv(f)'
    <2>1. /\ LineInv(f) /\ Peer(f) \in Ends /\ printed'[Peer(f)] = printed[Peer(f)]
          /\ answering'[Peer(f)] = answering[Peer(f)] /\ printing'[Peer(f)] = printing[Peer(f)]
      BY <1>1, <1>2, <1>4 DEF OrderInv, TypeInv
    <2>2. SameRequests(Stream(Peer(f)), Stream(Peer(f))') /\ SameAnswers(Stream(f), Stream(f)')
      BY <1>3, <2>1, StreamStays
    <2> QED
      BY <1>1, <2>1, <2>2, LineFrame
  <1>5. LineInv(q)'
    <2>1. LineInv(q) /\ PeerRuns(q)
      BY <1>1, <1>2 DEF OrderInv, PeerRuns, Runs
    <2>2. \A r \in printing[e] : Pending(q, r)
      BY <1>2, <2>1 DEF LineInv
    <2>3. /\ chat[q] \in Waits /\ request = Request(q) /\ Len(printed[e]) = Len(typed[q]) - 1
          /\ printing'[e] = {}
      BY <1>1, <1>2, <2>2 DEF Pending, Behind, TypeInv
    <2>4. printed'[e] = typed'[q]
      <3>1. /\ printed[e] \in Seq(Lines) /\ typed[q] \in Seq(Lines)
            /\ IsPrefix(printed[e], typed[q])
        BY <1>2, <2>1 DEF TypeInv, LineInv
      <3>2. Append(printed[e], Last(typed[q])) = typed[q]
        BY <2>3, <3>1, PrefixComplete
      <3>3. request.line = Last(typed[q])
        BY <2>3 DEF Request
      <3>4. printed'[e] = Append(printed[e], request.line) /\ typed'[q] = typed[q]
        BY <1>1 DEF TypeInv
      <3> QED
        BY <3>2, <3>3, <3>4
    <2>5. typed[q] \in Seq(Lines) /\ IsPrefix(typed[q], typed[q])
      BY <1>2 DEF TypeInv, IsPrefix
    <2>6. \A i \in 1..Len(Stream(e)) : Stream(e)[i].type # "REQ"
      <3>1. printing[e] # {}
        OBVIOUS
      <3> QED
        BY <1>2, <2>1, <3>1 DEF LineInv, PendingAlone
    <2>7. \A id : Answers(q, id) => Answers(q, id)'
      BY <1>1, <1>2, <2>4 DEF Answers
    <2>8. Answers(q, request.id)'
      <3>1. request.id = Len(typed[q])
        BY <2>3 DEF Request
      <3> QED
        BY <1>1, <1>2, <2>4, <3>1 DEF Answers
    <2>9. \A id \in answering'[e] \cup response_queue'[q] : Answers(q, id)'
      <3>1. answering'[e] = answering[e] \cup {request.id} /\ response_queue'[q] = response_queue[q]
        BY <1>1 DEF TypeInv
      <3>2. \A id \in answering[e] \cup response_queue[q] : Answers(q, id)'
        BY <1>2, <2>1, <2>7 DEF LineInv
      <3> QED
        BY <2>8, <3>1, <3>2
    <2>10. \A i \in 1..Len(Stream(q)') : Stream(q)'[i].type = "RES" => Answers(q, Stream(q)[i].id)'
      BY <1>2, <1>3, <2>1, <2>7 DEF LineInv
    <2>11. chat'[q] \in Waits
      BY <1>1, <2>3
    <2> QED
      BY <1>1, <1>2, <1>3, <2>3, <2>4, <2>5, <2>6, <2>9, <2>10, <2>11 DEF LineInv, Waits, Idle
  <1> QED
    BY <1>4, <1>5 DEF OrderInv

LEMMA OrderSendResponse ==
  ASSUME TypeInv, OrderInv, NEW e \in Ends, NEW id \in answering[e], SendResponse(e, id)
  PROVE  OrderInv'
  <1> DEFINE q == Peer(e)
             s == Stream(q)
             m == Response(id)
  <1>1. /\ alive' \subseteq alive /\ answering' = [answering EXCEPT ![e] = answering[e] \ {id}]
        /\ UNCHANGED <<chat, receivedData, response_queue, printing, typed, printed>>
        /\ (PeerRuns(e) /\ Arrives(e, m)) \/ UNCHANGED inbox
    BY DEF SendResponse, EndProcess
  <1>2. /\ q \in Ends /\ Peer(q) = e
        /\ \A f \in Ends : Peer(f) \in Ends
    BY PeerOfEnd
  <1>3. m \in Message /\ m.type = "RES" /\ m.id = id
    BY DEF Response, Message, TypeInv
  <1>4. \A f \in Ends : answering'[f] \subseteq answering[f]
    BY <1>1 DEF TypeInv
  <1>5. CASE UNCHANGED inbox
    <2>1. \A f \in Ends : Stream(f)' = Stream(f)
      BY <1>1, <1>5 DEF Stream
    <2>2. ASSUME NEW f \in Ends PROVE LineInv(f)'
      <3>1. LineInv(f) /\ Peer(f) \in Ends
        BY <1>2 DEF OrderInv
      <3> QED
        BY <1>1, <1>4, <2>1, <3>1, StreamStays, LineFrame
    <2> QED
      BY <2>2 DEF OrderInv
  <1>6. CASE Arrives(e, m)
    <2>1. /\ s \in Seq(Message) /\ Stream(q)' = Append(s, m)
          /\ \A f \in Ends : f # q => Stream(f)' = Stream(f)
      BY <1>1, <1>3, <1>6, ArrivesAtEnd
    <2>2. SameRequests(s, Append(s, m))
      BY <1>3, <2>1, SameStream
    <2>3. \A f \in Ends : SameRequests(Stream(f), Stream(f)')
      BY <2>1, <2>2, StreamStays
    <2>4. ASSUME PeerRuns(q), NEW i \in 1..Len(Stream(q)'), Stream(q)'[i].type = "RES"
          PROVE  Answers(q, Stream(q)'[i].id)
      <3>1. LineInv(q)
        BY <1>2 DEF OrderInv
      <3>2. Answers(q, id)
        BY <1>2, <2>4, <3>1 DEF LineInv
      <3>3. (i \in 1..Len(s) /\ Stream(q)'[i] = s[i]) \/ Stream(q)'[i] = m
        <4> HIDE DEF s, m
        <4> QED
          BY <1>3, <2>1, <2>4
      <3> QED
        BY <1>3, <2>4, <3>1, <3>2, <3>3 DEF LineInv
    <2>5. ASSUME NEW f \in Ends PROVE LineInv(f)'
      <3>1. LineInv(f) /\ Peer(f) \in Ends
        BY <1>2 DEF OrderInv
      <3>2. CASE f = q
        BY <1>1, <1>4, <2>3, <2>4, <3>1, <3>2, LineFrame
      <3>3. CASE f # q
        BY <1>1, <1>4, <2>1, <2>3, <3>1, <3>3, LineFrame, StreamStays
      <3> QED
        BY <3>2, <3>3
    <2> QED
      BY <2>5 DEF OrderInv
  <1> QED
    BY <1>1, <1>5, <1>6

LEMMA OrderShutdown == ASSUME TypeInv, OrderInv, NEW e \in Ends, Shutdown(e) PROVE OrderInv'
  <1>1. /\ UNCHANGED <<alive, printing, answering, typed, printed>>
        /\ inbox' = [inbox EXCEPT ![e] = <<>>] /\ receivedData' = [receivedData EXCEPT ![e] = <<>>]
        /\ response_queue' = [response_queue EXCEPT ![e] = {}]
    BY DEF Shutdown
  <1>2. \A f \in Ends : chat'[f] = chat[f] \/ (chat[f] \in Waits /\ chat'[f] \in Waits)
    BY NotifiedChat DEF Shutdown, Waits
  <1>3. \A f \in Ends : Stream(f)' = Stream(f) \/ Stream(f)' = <<>>
    BY <1>1 DEF Stream, TypeInv
  <1>4. \A f \in Ends : response_queue'[f] \subseteq response_queue[f]
    BY <1>1 DEF TypeInv
  <1>5. ASSUME NEW f \in Ends PROVE LineInv(f)'
    <2>1. LineInv(f) /\ Peer(f) \in Ends
      BY PeerOfEnd DEF OrderInv
    <2> QED
      BY <1>1, <1>2, <1>3, <1>4, <2>1, StreamStays, LineFrame
  <1> QED
    BY <1>5 DEF OrderInv

LEMMA OrderNext == ASSUME TypeInv, ConnectionInv, OrderInv, [Next]_vars PROVE OrderInv'
  <1>1. CASE Listen \/ \E p \in Processes : Ended(p)
    BY <1>1, OrderCalm DEF Listen, Ended, EndProcess
  <1>2. ASSUME NEW c \in Clients, Connect(c) \/ Accept(c) \/ InvokeDeferred(c) PROVE OrderInv'
    <2>1. /\ alive' \subseteq alive /\ UNCHANGED <<linkVars, typed, printed>>
          /\ \A e \in Ends : chat'[e] = chat[e] \/ (chat[e] \in Idle /\ chat'[e] \in Idle)
      BY <1>2, EndOfClient DEF Connect, Accept, InvokeDeferred, EndProcess, Goto, Idle, TypeInv
    <2> QED
      BY <2>1, OrderCalm
  <1>3. ASSUME NEW e \in Ends, SendRequest(e) \/ Block(e) PROVE OrderInv'
    <2>1. /\ alive' \subseteq alive /\ UNCHANGED <<linkVars, typed, printed>>
          /\ \A f \in Ends : \/ chat'[f] = chat[f]
                             \/ chat[f] \in Waits /\ chat'[f] \in Waits
                             \/ {chat[f], chat'[f]} \subseteq {"sending", "transmit"}
      BY <1>3 DEF SendRequest, Block, EndProcess, Goto, Waits, TypeInv
    <2> QED
      BY <2>1, OrderCalm
  <1>4. CASE UNCHANGED vars
    BY <1>4, OrderCalm
  <1> QED
    BY <1>1, <1>2, <1>3, <1>4, OrderReadLine, OrderTransmit, OrderAwait, OrderReceive, OrderPrintRpc,
       OrderSendResponse, OrderShutdown, NextSteps DEF Thread

(* Although every request is printed by a thread of its own, the lines     *)
(* appear at the other end in the order they were typed, none twice and    *)
(* none left out: an end types a line only when the one before has been    *)
(* answered, and it is answered only after it was printed.                 *)
THEOREM OrderKept == Spec => []PrintedInOrder
  <1>1. Init => OrderInv
    <2> SUFFICES ASSUME Init, NEW e \in Ends PROVE LineInv(e)
      BY DEF OrderInv
    <2>1. Peer(e) \in Ends
      BY PeerOfEnd
    <2>2. /\ printed[Peer(e)] = <<>> /\ typed[e] = <<>> /\ chat[e] = "new"
          /\ printing[Peer(e)] = {} /\ answering[Peer(e)] = {} /\ response_queue[e] = {}
          /\ Stream(Peer(e)) = <<>> /\ Stream(e) = <<>>
      BY <2>1 DEF Init, Stream
    <2> QED
      BY <2>2 DEF LineInv, IsPrefix, Idle
  <1>2. TypeInv /\ ConnectionInv /\ OrderInv /\ [Next]_vars => OrderInv'
    BY OrderNext
  <1>3. OrderInv => PrintedInOrder
    <2> SUFFICES ASSUME OrderInv, NEW e \in Ends PROVE IsPrefix(printed[e], typed[Peer(e)])
      BY DEF PrintedInOrder
    <2>1. LineInv(Peer(e)) /\ Peer(Peer(e)) = e
      BY PeerOfEnd DEF OrderInv
    <2> QED
      BY <2>1 DEF LineInv
  <1> QED
    BY <1>1, <1>2, <1>3, TypeInvariant, ConnectionInvariant, PTL DEF Spec

=============================================================================
