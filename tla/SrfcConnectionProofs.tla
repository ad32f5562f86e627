-------------------------- MODULE SrfcConnectionProofs --------------------------
(***************************************************************************)
(* Theorems about SrfcConnection, for every value of its constants.        *)
(***************************************************************************)
EXTENDS SrfcConnection, SequenceTheorems, TLAPS

(* What a read takes from the socket and leaves to the buffer.             *)
LEMMA ReadTypes ==
  ASSUME NEW T, NEW s \in Seq(T), NEW held \in Seq(T), NEW k \in 1..Len(s)
  PROVE  /\ SubSeq(s, k + 1, Len(s)) \in Seq(T)
         /\ SubSeq(s, 1, k) \in Seq(T)
         /\ held \o SubSeq(s, 1, k) \in Seq(T)
         /\ held \o SubSeq(s, 1, k) # <<>>
         /\ Head(held \o SubSeq(s, 1, k)) \in T
         /\ Tail(held \o SubSeq(s, 1, k)) \in Seq(T)
  <1>1. /\ SubSeq(s, k + 1, Len(s)) \in Seq(T)
        /\ SubSeq(s, 1, k) \in Seq(T)
        /\ Len(SubSeq(s, 1, k)) = k
    BY SubSeqProperties, LenProperties
  <1>2. /\ held \o SubSeq(s, 1, k) \in Seq(T)
        /\ Len(held \o SubSeq(s, 1, k)) = Len(held) + k
    BY <1>1, ConcatProperties
  <1>3. held \o SubSeq(s, 1, k) # <<>>
    BY <1>2, LenProperties, EmptySeq
  <1> QED
    BY <1>1, <1>2, <1>3, HeadTailProperties

(* What the listener does with the buffer after a read.                    *)
LEMMA ReadHeld ==
  ASSUME NEW T, NEW s \in Seq(T), NEW h \in Seq(T \cup {Line}), NEW k \in 1..Len(s)
  PROVE  h \o SubSeq(s, 1, k) \in Seq(T \cup {Line}) \ {<<>>}
  <1>1. s \in Seq(T \cup {Line})
    BY SeqMonotonic
  <1> QED
    BY <1>1, ReadTypes

LEMMA LineHeld ==
  ASSUME NEW T, NEW h \in Seq(T \cup {Line})
  PROVE  Append(h, Line) \in Seq(T \cup {Line}) \ {<<>>} /\ <<Line>> \in Seq(T \cup {Line})
  BY AppendProperties, EmptySeq

LEMMA DeliverParts ==
  ASSUME NEW T, NEW held \in Seq(T \cup {Line}) \ {<<>>}, Deliver(held)
  PROVE  /\ receivedData' \in Seq(T \cup {Line})
         /\ UNCHANGED <<adding, req>> \/ \E m \in T : Dispatch(m)
  <1>1. Head(held) \in T \cup {Line} /\ Tail(held) \in Seq(T \cup {Line})
        /\ <<>> \in Seq(T \cup {Line})
    BY HeadTailProperties, EmptySeq
  <1>2. CASE Head(held) = Line
    BY <1>1, <1>2 DEF Deliver
  <1>3. CASE Head(held) # Line
    <2>1. Head(held) \in T
      BY <1>1, <1>3
    <2>2. receivedData' = Tail(held) /\ Dispatch(Head(held))
      BY <1>3 DEF Deliver
    <2> QED
      BY <1>1, <2>1, <2>2
  <1> QED
    BY <1>2, <1>3

LEMMA InitTypeOK == Init => TypeOK
  <1> SUFFICES ASSUME Init PROVE TypeOK
    OBVIOUS
  <1> USE SocketAssumption, ConnectionAssumption, EmptySeq DEF Init
  <1>1. SockTypeOK(Message)
    BY DEF SockInit, SockTypeOK, Session
  <1>2. FieldTypes
    BY DEF FieldTypes
  <1>3. ListenerTypes
    BY DEF ListenerTypes
  <1>4. OwnerTypes
    BY DEF OwnerTypes, Threads
  <1>5. CallTypes
    BY DEF CallTypes
  <1>6. HandlerTypes
    BY DEF HandlerTypes
  <1> QED
    BY <1>1, <1>2, <1>3, <1>4, <1>5, <1>6 DEF TypeOK, Fate

USE DEF vars, fieldVars, listenerVars, ownerVars, callVars, handlerVars, sockVars

LEMMA MessageParts ==
  ASSUME NEW m \in Message
  PROVE  /\ m.type \in {"RES", "REQ"} /\ m.session \in Session
         /\ m.type = "RES" => m.of \in Calls
         /\ m.type # "RES" => m.of \in Requests
  <1>1. CASE m \in [type : {"RES"}, of : Calls, session : Session]
    BY <1>1
  <1>2. CASE m \in [type : {"REQ"}, of : Requests, session : Session]
    BY <1>2
  <1> QED
    BY <1>1, <1>2 DEF Message

LEMMA ArriveType ==
  ASSUME TypeOK, NEW n, NEW m \in Message, Arrive(n, m)
  PROVE  SockTypeOK(Message)'
  <1>1. ASSUME NEW k \in Session PROVE Append(inbox[k], m) \in Seq(Message)
    <2>1. inbox[k] \in Seq(Message)
      BY DEF TypeOK, SockTypeOK
    <2> QED
      BY <2>1, AppendProperties
  <1>2. inbox' \in [Session -> Seq(Message)]
    BY <1>1 DEF Arrive, TypeOK, SockTypeOK
  <1> QED
    BY <1>2 DEF Arrive, TypeOK, SockTypeOK, Session

(* One lemma for each thread: its steps preserve the types.                *)
LEMMA ShutdownType == ASSUME TypeOK, NEW t \in Threads, Shutdown(t) PROVE TypeOK'
  <1> USE SocketAssumption, ConnectionAssumption DEF TypeOK, Session, Threads
  <1>1. CASE SdCheck(t)
    <2>1. SockTypeOK(Message)' /\ FieldTypes' /\ ListenerTypes' /\ CallTypes' /\ HandlerTypes'
      BY <1>1 DEF SdCheck, SdThrows, Die, SockTypeOK, sockVars, FieldTypes, fieldVars, ListenerTypes, listenerVars, CallTypes, callVars, HandlerTypes, handlerVars
    <2>2. OwnerTypes'
      BY <1>1 DEF SdCheck, SdThrows, Die, OwnerTypes, ownerVars
    <2>3. fate' \in Fate
      BY <1>1 DEF SdCheck, SdThrows, Die, Fate
    <2> QED
      BY <2>1, <2>2, <2>3
  <1>2. CASE SdStore(t)
    <2>1. SockTypeOK(Message)' /\ HandlerTypes' /\ fate' \in Fate
      BY <1>2 DEF SdStore, NotifyListener, SockTypeOK, sockVars, HandlerTypes, handlerVars, Fate
    <2>2. FieldTypes'
      BY <1>2 DEF SdStore, NotifyListener, FieldTypes, fieldVars
    <2>3. ListenerTypes'
      BY <1>2 DEF SdStore, NotifyListener, ListenerTypes, listenerVars
    <2>4. OwnerTypes'
      BY <1>2 DEF SdStore, NotifyListener, OwnerTypes, ownerVars
    <2>5. CallTypes'
      BY <1>2 DEF SdStore, NotifyListener, CallTypes, callVars
    <2> QED
      BY <2>1, <2>2, <2>3, <2>4, <2>5
  <1>3. CASE SdShut(t)
    <2>1. FieldTypes' /\ ListenerTypes' /\ CallTypes' /\ HandlerTypes' /\ fate' \in Fate
      BY <1>3 DEF SdShut, SocketShutdown, SocketOf, FieldTypes, fieldVars, ListenerTypes, listenerVars, CallTypes, callVars, HandlerTypes, handlerVars, Fate
    <2>2. SockTypeOK(Message)'
      BY <1>3 DEF SdShut, SocketShutdown, SocketOf, SockTypeOK, sockVars
    <2>3. OwnerTypes'
      BY <1>3 DEF SdShut, SocketShutdown, SocketOf, OwnerTypes, ownerVars
    <2> QED
      BY <2>1, <2>2, <2>3
  <1>4. CASE SdClose(t)
    <2>1. FieldTypes' /\ ListenerTypes' /\ CallTypes' /\ HandlerTypes' /\ fate' \in Fate
      BY <1>4 DEF SdClose, SocketClose, FieldTypes, fieldVars, ListenerTypes, listenerVars, CallTypes, callVars, HandlerTypes, handlerVars, Fate
    <2>2. SockTypeOK(Message)'
      <3>1. CASE socket_fd = 0
        BY <1>4, <3>1 DEF SdClose, SocketClose, SockTypeOK
      <3>2. CASE socket_fd # 0
        <4>1. /\ fds' = [fds EXCEPT ![socket_fd] = 0]
              /\ UNCHANGED <<sessions, shut, peer, inbox, stdin>>
          BY <1>4, <3>2 DEF SdClose, SocketClose
        <4>2. 0 \in 0..MaxSessions
          OBVIOUS
        <4>3. fds' \in [Fds -> 0..MaxSessions]
          BY <4>1, <4>2, Zenon DEF SockTypeOK
        <4> QED
          BY <4>1, <4>3 DEF SockTypeOK
      <3> QED
        BY <3>1, <3>2
    <2>3. OwnerTypes'
      BY <1>4 DEF SdClose, SocketClose, OwnerTypes, ownerVars
    <2> QED
      BY <2>1, <2>2, <2>3
  <1>5. CASE SdCloseFails(t)
    <2>1. SockTypeOK(Message)' /\ FieldTypes' /\ ListenerTypes' /\ CallTypes' /\ HandlerTypes'
      BY <1>5 DEF SdCloseFails, SdThrows, Die, SockTypeOK, sockVars, FieldTypes, fieldVars, ListenerTypes, listenerVars, CallTypes, callVars, HandlerTypes, handlerVars
    <2>2. OwnerTypes'
      BY <1>5 DEF SdCloseFails, SdThrows, Die, OwnerTypes, ownerVars
    <2>3. fate' \in Fate
      BY <1>5 DEF SdCloseFails, SdThrows, Die, Fate
    <2> QED
      BY <2>1, <2>2, <2>3
  <1>6. CASE SdZero(t)
    <2>1. SockTypeOK(Message)' /\ ListenerTypes' /\ CallTypes' /\ HandlerTypes' /\ fate' \in Fate
      BY <1>6 DEF SdZero, SockTypeOK, sockVars, ListenerTypes, listenerVars, CallTypes, callVars, HandlerTypes, handlerVars, Fate
    <2>2. FieldTypes'
      BY <1>6 DEF SdZero, FieldTypes, fieldVars
    <2>3. OwnerTypes'
      BY <1>6 DEF SdZero, OwnerTypes, ownerVars
    <2> QED
      BY <2>1, <2>2, <2>3
  <1>7. CASE SdAwait(t)
    <2>1. SockTypeOK(Message)' /\ FieldTypes' /\ ListenerTypes' /\ CallTypes' /\ HandlerTypes' /\ fate' \in Fate
      BY <1>7 DEF SdAwait, SockTypeOK, sockVars, FieldTypes, fieldVars, ListenerTypes, listenerVars, CallTypes, callVars, HandlerTypes, handlerVars, Fate
    <2>2. OwnerTypes'
      BY <1>7 DEF SdAwait, OwnerTypes, ownerVars
    <2> QED
      BY <2>1, <2>2
  <1>8. CASE SdBlock(t)
    <2>1. SockTypeOK(Message)' /\ FieldTypes' /\ ListenerTypes' /\ CallTypes' /\ HandlerTypes' /\ fate' \in Fate
      BY <1>8 DEF SdBlock, SockTypeOK, sockVars, FieldTypes, fieldVars, ListenerTypes, listenerVars, CallTypes, callVars, HandlerTypes, handlerVars, Fate
    <2>2. OwnerTypes'
      BY <1>8 DEF SdBlock, OwnerTypes, ownerVars
    <2> QED
      BY <2>1, <2>2
  <1>9. CASE SdNotify(t)
    <2>1. SockTypeOK(Message)' /\ FieldTypes' /\ ListenerTypes' /\ HandlerTypes' /\ fate' \in Fate
      BY <1>9 DEF SdNotify, NotifyCalls, SockTypeOK, sockVars, FieldTypes, fieldVars, ListenerTypes, listenerVars, HandlerTypes, handlerVars, Fate
    <2>2. OwnerTypes'
      BY <1>9 DEF SdNotify, NotifyCalls, OwnerTypes, ownerVars
    <2>3. CallTypes'
      BY <1>9 DEF SdNotify, NotifyCalls, CallTypes, callVars
    <2> QED
      BY <2>1, <2>2, <2>3
  <1>10. CASE SdClear(t)
    <2>1. SockTypeOK(Message)' /\ CallTypes' /\ HandlerTypes' /\ fate' \in Fate
      BY <1>10 DEF SdClear, SockTypeOK, sockVars, CallTypes, callVars, HandlerTypes, handlerVars, Fate
    <2>2. FieldTypes'
      BY <1>10 DEF SdClear, FieldTypes, fieldVars
    <2>3. ListenerTypes'
      BY <1>10 DEF SdClear, ListenerTypes, listenerVars
    <2>4. OwnerTypes'
      BY <1>10 DEF SdClear, OwnerTypes, ownerVars
    <2> QED
      BY <2>1, <2>2, <2>3, <2>4
  <1> QED
    BY <1>1, <1>2, <1>3, <1>4, <1>5, <1>6, <1>7, <1>8, <1>9, <1>10 DEF Shutdown

LEMMA OwnerType == ASSUME TypeOK, Owner PROVE TypeOK'
  <1> USE SocketAssumption, ConnectionAssumption DEF TypeOK, Session, Threads
  <1>1. ASSUME NEW f \in Fds, Connect(f) PROVE TypeOK'
    <2>1. ListenerTypes' /\ CallTypes' /\ HandlerTypes' /\ fate' \in Fate
      BY <1>1 DEF Connect, SocketOpen, ListenerTypes, listenerVars, CallTypes, callVars, HandlerTypes, handlerVars, Fate
    <2>2. SockTypeOK(Message)'
      BY <1>1 DEF Connect, SocketOpen, SockTypeOK, sockVars
    <2>3. FieldTypes'
      BY <1>1 DEF Connect, SocketOpen, FieldTypes, fieldVars
    <2>4. OwnerTypes'
      BY <1>1 DEF Connect, SocketOpen, OwnerTypes, ownerVars
    <2> QED
      BY <2>1, <2>2, <2>3, <2>4
  <1>2. ASSUME NEW f \in Fds, ConnectFails(f) PROVE TypeOK'
    <2>1. FieldTypes' /\ ListenerTypes' /\ OwnerTypes' /\ CallTypes' /\ HandlerTypes' /\ fate' \in Fate
      BY <1>2 DEF ConnectFails, SocketLeak, FieldTypes, fieldVars, ListenerTypes, listenerVars, OwnerTypes, ownerVars, CallTypes, callVars, HandlerTypes, handlerVars, Fate
    <2>2. SockTypeOK(Message)'
      BY <1>2 DEF ConnectFails, SocketLeak, SockTypeOK, sockVars
    <2> QED
      BY <2>1, <2>2
  <1>3. ASSUME NEW d \in BOOLEAN, ConnectStore(d) PROVE TypeOK'
    <2>1. SockTypeOK(Message)' /\ ListenerTypes' /\ CallTypes' /\ HandlerTypes' /\ fate' \in Fate
      BY <1>3 DEF ConnectStore, SockTypeOK, sockVars, ListenerTypes, listenerVars, CallTypes, callVars, HandlerTypes, handlerVars, Fate
    <2>2. FieldTypes'
      BY <1>3 DEF ConnectStore, FieldTypes, fieldVars
    <2>3. OwnerTypes'
      BY <1>3 DEF ConnectStore, OwnerTypes, ownerVars
    <2> QED
      BY <2>1, <2>2, <2>3
  <1>4. CASE InvokeDeferred
    <2>1. SockTypeOK(Message)' /\ FieldTypes' /\ ListenerTypes' /\ CallTypes' /\ HandlerTypes' /\ fate' \in Fate
      BY <1>4 DEF InvokeDeferred, SockTypeOK, sockVars, FieldTypes, fieldVars, ListenerTypes, listenerVars, CallTypes, callVars, HandlerTypes, handlerVars, Fate
    <2>2. OwnerTypes'
      BY <1>4 DEF InvokeDeferred, OwnerTypes, ownerVars
    <2> QED
      BY <2>1, <2>2
  <1>5. CASE StartListener
    <2>1. SockTypeOK(Message)' /\ FieldTypes' /\ CallTypes' /\ HandlerTypes' /\ fate' \in Fate
      BY <1>5 DEF StartListener, NotifyListener, SockTypeOK, sockVars, FieldTypes, fieldVars, CallTypes, callVars, HandlerTypes, handlerVars, Fate
    <2>2. ListenerTypes'
      BY <1>5 DEF StartListener, NotifyListener, ListenerTypes, listenerVars
    <2>3. OwnerTypes'
      BY <1>5 DEF StartListener, NotifyListener, OwnerTypes, ownerVars
    <2> QED
      BY <2>1, <2>2, <2>3
  <1>6. ASSUME NEW m \in Methods, AddMethod(m) \/ RemoveMethod(m) PROVE TypeOK'
    <2>1. SockTypeOK(Message)' /\ ListenerTypes' /\ OwnerTypes' /\ CallTypes' /\ HandlerTypes' /\ fate' \in Fate
      BY <1>6, SMTT(30) DEF AddMethod, RemoveMethod, SetMethods, SockTypeOK, sockVars, ListenerTypes, listenerVars, OwnerTypes, ownerVars, CallTypes, callVars, HandlerTypes, handlerVars, Fate
    <2>2. FieldTypes'
      BY <1>6 DEF AddMethod, RemoveMethod, SetMethods, FieldTypes, fieldVars
    <2> QED
      BY <2>1, <2>2
  <1>7. CASE BeginShutdown
    <2>1. SockTypeOK(Message)' /\ FieldTypes' /\ ListenerTypes' /\ CallTypes' /\ HandlerTypes' /\ fate' \in Fate
      BY <1>7 DEF BeginShutdown, SockTypeOK, sockVars, FieldTypes, fieldVars, ListenerTypes, listenerVars, CallTypes, callVars, HandlerTypes, handlerVars, Fate
    <2>2. OwnerTypes'
      BY <1>7 DEF BeginShutdown, OwnerTypes, ownerVars
    <2> QED
      BY <2>1, <2>2
  <1>8. CASE BeginReset
    <2>1. SockTypeOK(Message)' /\ FieldTypes' /\ ListenerTypes' /\ CallTypes' /\ HandlerTypes' /\ fate' \in Fate
      BY <1>8 DEF BeginReset, SockTypeOK, sockVars, FieldTypes, fieldVars, ListenerTypes, listenerVars, CallTypes, callVars, HandlerTypes, handlerVars, Fate
    <2>2. OwnerTypes'
      BY <1>8 DEF BeginReset, OwnerTypes, ownerVars
    <2> QED
      BY <2>1, <2>2
  <1>9. CASE BeginDestroy
    <2>1. SockTypeOK(Message)' /\ FieldTypes' /\ ListenerTypes' /\ CallTypes' /\ HandlerTypes' /\ fate' \in Fate
      BY <1>9 DEF BeginDestroy, SockTypeOK, sockVars, FieldTypes, fieldVars, ListenerTypes, listenerVars, CallTypes, callVars, HandlerTypes, handlerVars, Fate
    <2>2. OwnerTypes'
      BY <1>9 DEF BeginDestroy, OwnerTypes, ownerVars
    <2> QED
      BY <2>1, <2>2
  <1>10. CASE Shutdown("owner")
    BY <1>10, ShutdownType
  <1>11. CASE ClearMethods
    <2>1. SockTypeOK(Message)' /\ ListenerTypes' /\ CallTypes' /\ HandlerTypes' /\ fate' \in Fate
      BY <1>11 DEF ClearMethods, SockTypeOK, sockVars, ListenerTypes, listenerVars, CallTypes, callVars, HandlerTypes, handlerVars, Fate
    <2>2. FieldTypes'
      BY <1>11 DEF ClearMethods, FieldTypes, fieldVars
    <2>3. OwnerTypes'
      BY <1>11 DEF ClearMethods, OwnerTypes, ownerVars
    <2> QED
      BY <2>1, <2>2, <2>3
  <1>12. CASE Terminate
    <2>1. SockTypeOK(Message)' /\ CallTypes' /\ HandlerTypes' /\ fate' \in Fate
      BY <1>12 DEF Terminate, NotifyListener, SockTypeOK, sockVars, CallTypes, callVars, HandlerTypes, handlerVars, Fate
    <2>2. FieldTypes'
      BY <1>12 DEF Terminate, NotifyListener, FieldTypes, fieldVars
    <2>3. ListenerTypes'
      BY <1>12 DEF Terminate, NotifyListener, ListenerTypes, listenerVars
    <2>4. OwnerTypes'
      BY <1>12 DEF Terminate, NotifyListener, OwnerTypes, ownerVars
    <2> QED
      BY <2>1, <2>2, <2>3, <2>4
  <1>13. CASE Join
    <2>1. SockTypeOK(Message)' /\ FieldTypes' /\ ListenerTypes' /\ CallTypes' /\ HandlerTypes' /\ fate' \in Fate
      BY <1>13 DEF Join, SockTypeOK, sockVars, FieldTypes, fieldVars, ListenerTypes, listenerVars, CallTypes, callVars, HandlerTypes, handlerVars, Fate
    <2>2. OwnerTypes'
      BY <1>13 DEF Join, OwnerTypes, ownerVars
    <2> QED
      BY <2>1, <2>2
  <1> QED
    BY <1>1, <1>2, <1>3, <1>4, <1>5, <1>6, <1>7, <1>8, <1>9, <1>10, <1>11, <1>12, <1>13 DEF Owner

LEMMA DispatchType ==
  ASSUME HandlerTypes, UNCHANGED notifying,
         UNCHANGED <<adding, req>> \/ \E m \in Message : Dispatch(m)
  PROVE  HandlerTypes'
  <1>1. ASSUME NEW m \in Message, Dispatch(m) PROVE HandlerTypes'
    <2>1. CASE m.type = "RES"
      BY <1>1, <2>1 DEF Dispatch, HandlerTypes, Message, Session
    <2>2. CASE m.type # "RES"
      BY <1>1, <2>2, MessageParts DEF Dispatch, HandlerTypes, Message, Session
    <2> QED
      BY <2>1, <2>2
  <1> QED
    BY <1>1 DEF HandlerTypes, Message, Session

LEMMA ListenerType == ASSUME TypeOK, Listener PROVE TypeOK'
  <1> USE SocketAssumption, ConnectionAssumption DEF TypeOK, Session, Threads
  <1>1. CASE ListenerTop
    <2>1. SockTypeOK(Message)' /\ CallTypes' /\ HandlerTypes' /\ fate' \in Fate
      BY <1>1 DEF ListenerTop, NotifyIdleable, SockTypeOK, sockVars, CallTypes, callVars, HandlerTypes, handlerVars, Fate
    <2>2. FieldTypes'
      BY <1>1 DEF ListenerTop, NotifyIdleable, FieldTypes, fieldVars
    <2>3. ListenerTypes'
      BY <1>1 DEF ListenerTop, NotifyIdleable, ListenerTypes, listenerVars
    <2>4. OwnerTypes'
      BY <1>1 DEF ListenerTop, NotifyIdleable, OwnerTypes, ownerVars
    <2> QED
      BY <2>1, <2>2, <2>3, <2>4
  <1>2. CASE ListenerSnap
    <2>1. SockTypeOK(Message)' /\ FieldTypes' /\ OwnerTypes' /\ CallTypes' /\ HandlerTypes' /\ fate' \in Fate
      BY <1>2 DEF ListenerSnap, FieldTypes, SockTypeOK, sockVars, FieldTypes, fieldVars, OwnerTypes, ownerVars, CallTypes, callVars, HandlerTypes, handlerVars, Fate
    <2>2. ListenerTypes'
      BY <1>2 DEF ListenerSnap, FieldTypes, ListenerTypes, listenerVars
    <2> QED
      BY <2>1, <2>2
  <1>3. CASE ListenerWait
    <2>1. SockTypeOK(Message)' /\ FieldTypes' /\ OwnerTypes' /\ CallTypes' /\ HandlerTypes' /\ fate' \in Fate
      BY <1>3 DEF ListenerWait, SockTypeOK, sockVars, FieldTypes, fieldVars, OwnerTypes, ownerVars, CallTypes, callVars, HandlerTypes, handlerVars, Fate
    <2>2. ListenerTypes'
      BY <1>3 DEF ListenerWait, ListenerTypes, listenerVars
    <2> QED
      BY <2>1, <2>2
  <1>4. CASE ListenerBlock
    <2>1. SockTypeOK(Message)' /\ FieldTypes' /\ OwnerTypes' /\ CallTypes' /\ HandlerTypes' /\ fate' \in Fate
      BY <1>4 DEF ListenerBlock, SockTypeOK, sockVars, FieldTypes, fieldVars, OwnerTypes, ownerVars, CallTypes, callVars, HandlerTypes, handlerVars, Fate
    <2>2. ListenerTypes'
      BY <1>4 DEF ListenerBlock, ListenerTypes, listenerVars
    <2> QED
      BY <2>1, <2>2
  <1>5. CASE ListenerReady
    <2>1. SockTypeOK(Message)' /\ FieldTypes' /\ OwnerTypes' /\ CallTypes' /\ HandlerTypes' /\ fate' \in Fate
      BY <1>5 DEF ListenerReady, SockTypeOK, sockVars, FieldTypes, fieldVars, OwnerTypes, ownerVars, CallTypes, callVars, HandlerTypes, handlerVars, Fate
    <2>2. ListenerTypes'
      BY <1>5 DEF ListenerReady, ListenerTypes, listenerVars
    <2> QED
      BY <2>1, <2>2
  <1>6. CASE ListenerBusy
    <2>1. SockTypeOK(Message)' /\ OwnerTypes' /\ CallTypes' /\ HandlerTypes' /\ fate' \in Fate
      BY <1>6 DEF ListenerBusy, SockTypeOK, sockVars, OwnerTypes, ownerVars, CallTypes, callVars, HandlerTypes, handlerVars, Fate
    <2>2. FieldTypes'
      BY <1>6 DEF ListenerBusy, FieldTypes, fieldVars
    <2>3. ListenerTypes'
      BY <1>6 DEF ListenerBusy, ListenerTypes, listenerVars
    <2> QED
      BY <2>1, <2>2, <2>3
  <1>7. CASE ListenerCompare
    <2>1. SockTypeOK(Message)' /\ FieldTypes' /\ OwnerTypes' /\ CallTypes' /\ HandlerTypes' /\ fate' \in Fate
      BY <1>7 DEF ListenerCompare, SockTypeOK, sockVars, FieldTypes, fieldVars, OwnerTypes, ownerVars, CallTypes, callVars, HandlerTypes, handlerVars, Fate
    <2>2. ListenerTypes'
      BY <1>7 DEF ListenerCompare, ListenerTypes, listenerVars
    <2> QED
      BY <2>1, <2>2
  <1>8. CASE ListenerReceive
    <2>1. SockTypeOK(Message)' /\ FieldTypes' /\ OwnerTypes' /\ CallTypes' /\ HandlerTypes' /\ fate' \in Fate
      BY <1>8 DEF ListenerReceive, SocketOf, FieldTypes, SockTypeOK, SockTypeOK, sockVars, FieldTypes, fieldVars, OwnerTypes, ownerVars, CallTypes, callVars, HandlerTypes, handlerVars, Fate
    <2>2. ListenerTypes'
      <3>1. SocketOf(socket_fd) \in 0..MaxSessions
        BY DEF SocketOf, FieldTypes, SockTypeOK
      <3>2. reading' \in 0..MaxSessions /\ (pcL' = "read" => reading' \in Session)
        BY <1>8, <3>1 DEF ListenerReceive, ListenerTypes
      <3>3. receivedData' \in Seq(Message \cup {Line})
        BY <1>8, EmptySeq DEF ListenerReceive, ListenerTypes
      <3> QED
        BY <1>8, <3>2, <3>3 DEF ListenerReceive, ListenerTypes
    <2> QED
      BY <2>1, <2>2
  <1>9. CASE ListenerError
    <2>1. FieldTypes' /\ OwnerTypes' /\ CallTypes' /\ HandlerTypes' /\ fate' \in Fate
      BY <1>9 DEF ListenerError, ReportReset, ReadReturnsError, FieldTypes, fieldVars, OwnerTypes, ownerVars, CallTypes, callVars, HandlerTypes, handlerVars, Fate
    <2>2. SockTypeOK(Message)'
      BY <1>9 DEF ListenerError, ReportReset, ReadReturnsError, SockTypeOK, sockVars
    <2>3. ListenerTypes'
      BY <1>9 DEF ListenerError, ReportReset, ReadReturnsError, ListenerTypes, listenerVars
    <2> QED
      BY <2>1, <2>2, <2>3
  <1>10. CASE ListenerEnd
    <2>1. SockTypeOK(Message)' /\ CallTypes' /\ HandlerTypes' /\ fate' \in Fate
      BY <1>10 DEF ListenerEnd, StreamEnds, SockTypeOK, sockVars, CallTypes, callVars, HandlerTypes, handlerVars, Fate
    <2>2. FieldTypes'
      BY <1>10 DEF ListenerEnd, StreamEnds, FieldTypes, fieldVars
    <2>3. ListenerTypes'
      BY <1>10 DEF ListenerEnd, StreamEnds, ListenerTypes, listenerVars
    <2>4. OwnerTypes'
      BY <1>10 DEF ListenerEnd, StreamEnds, OwnerTypes, ownerVars
    <2> QED
      BY <2>1, <2>2, <2>3, <2>4
  <1>11. CASE ListenerConsole
    <2>1. SockTypeOK(Message)' /\ CallTypes' /\ fate' \in Fate
      BY <1>11 DEF ListenerConsole, StreamEnds, SockTypeOK, sockVars, CallTypes, callVars, handlerVars, Fate
    <2>2. FieldTypes'
      BY <1>11 DEF ListenerConsole, StreamEnds, FieldTypes, fieldVars
    <2>3. OwnerTypes'
      BY <1>11 DEF ListenerConsole, StreamEnds, OwnerTypes, ownerVars
    <2>4. Append(receivedData, Line) \in Seq(Message \cup {Line}) \ {<<>>}
          /\ <<Line>> \in Seq(Message \cup {Line})
      BY LineHeld DEF ListenerTypes
    <2>5. /\ receivedData' \in Seq(Message \cup {Line}) /\ UNCHANGED notifying
          /\ UNCHANGED <<adding, req>> \/ \E m \in Message : Dispatch(m)
      BY <1>11, <2>4, DeliverParts, EmptySeq DEF ListenerConsole, StreamEnds, handlerVars
    <2>6. ListenerTypes'
      BY <1>11, <2>5 DEF ListenerConsole, StreamEnds, ListenerTypes
    <2> QED
      BY <2>1, <2>2, <2>3, <2>5, <2>6, DispatchType
  <1>12. CASE ListenerData
    <2>1. FieldTypes' /\ OwnerTypes' /\ CallTypes' /\ fate' \in Fate
      BY <1>12 DEF ListenerData, FieldTypes, fieldVars, OwnerTypes, ownerVars, CallTypes, callVars, Fate
    <2>2. PICK k \in 1..Len(inbox[reading]) :
            /\ TakeFromInbox(reading, k)
            /\ Deliver(receivedData \o SubSeq(inbox[reading], 1, k))
      BY <1>12 DEF ListenerData
    <2>3. /\ reading \in Session /\ inbox[reading] \in Seq(Message)
          /\ receivedData \in Seq(Message \cup {Line})
      BY <1>12 DEF ListenerData, ListenerTypes, SockTypeOK
    <2>4. SockTypeOK(Message)'
      BY <2>2, <2>3, ReadTypes DEF TakeFromInbox, SockTypeOK
    <2>5. receivedData \o SubSeq(inbox[reading], 1, k) \in Seq(Message \cup {Line}) \ {<<>>}
      BY <2>3, ReadHeld
    <2>6. /\ receivedData' \in Seq(Message \cup {Line})
          /\ UNCHANGED <<adding, req>> \/ \E m \in Message : Dispatch(m)
      BY <2>2, <2>5, DeliverParts
    <2>7. ListenerTypes' /\ UNCHANGED notifying
      BY <1>12, <2>6 DEF ListenerData, ListenerTypes
    <2> QED
      BY <2>1, <2>4, <2>6, <2>7, DispatchType
  <1>13. CASE Shutdown("listener")
    BY <1>13, ShutdownType
  <1> QED
    BY <1>1, <1>2, <1>3, <1>4, <1>5, <1>6, <1>7, <1>8, <1>9, <1>10, <1>11, <1>12, <1>13 DEF Listener, ListenerRuns

LEMMA SendRequestType == ASSUME TypeOK, NEW c \in Calls, SendRequest(c) PROVE TypeOK'
  <1> USE SocketAssumption, ConnectionAssumption DEF TypeOK, Session, Threads
  <1>1. CASE SendRequest(c)
    <2>1. SockTypeOK(Message)' /\ FieldTypes' /\ ListenerTypes' /\ OwnerTypes' /\ HandlerTypes' /\ fate' \in Fate
      BY <1>1 DEF SendRequest, SockTypeOK, sockVars, FieldTypes, fieldVars, ListenerTypes, listenerVars, OwnerTypes, ownerVars, HandlerTypes, handlerVars, Fate
    <2>2. CallTypes'
      BY <1>1 DEF SendRequest, CallTypes, callVars
    <2> QED
      BY <2>1, <2>2
  <1> QED
    BY <1>1 DEF SendRequest

LEMMA CallType == ASSUME TypeOK, NEW c \in Calls, Call(c) PROVE TypeOK'
  <1> USE SocketAssumption, ConnectionAssumption DEF TypeOK, Session, Threads
  <1>1. CASE CallSend(c)
    <2>1. SockTypeOK(Message)' /\ FieldTypes' /\ ListenerTypes' /\ OwnerTypes' /\ HandlerTypes'
      BY <1>1 DEF CallSend, Return, SocketOf, FieldTypes, SockTypeOK, SendKills, SendThrows, SendLoses, SendDelivers, SockTypeOK, sockVars, FieldTypes, fieldVars, ListenerTypes, listenerVars, OwnerTypes, ownerVars, HandlerTypes, handlerVars
    <2>2. CallTypes'
      <3>1. SocketOf(socket_fd) \in 0..MaxSessions
        BY DEF SocketOf, FieldTypes, SockTypeOK
      <3>2. call' \in [Calls -> {"new", "send", "wait", "test", "block", "asleep", "woke", "read",
                                "returned"}]
        BY <1>1 DEF CallSend, Return, CallTypes
      <3>3. via' \in [Calls -> 0..MaxSessions]
        BY <1>1, <3>1 DEF CallSend, CallTypes
      <3>4. reply' \in [Calls -> Calls \cup {NoReply}]
        BY <1>1 DEF CallSend, Return, CallTypes
      <3>5. broken' \in [Calls -> BOOLEAN]
        BY <1>1 DEF CallSend, CallTypes
      <3> QED
        BY <1>1, <3>2, <3>3, <3>4, <3>5 DEF CallSend, CallTypes
    <2>3. fate' \in Fate
      BY <1>1 DEF CallSend, Return, SocketOf, FieldTypes, SockTypeOK, SendKills, SendThrows, SendLoses, SendDelivers, Fate
    <2> QED
      BY <2>1, <2>2, <2>3
  <1>2. CASE CallTestConnected(c)
    <2>1. SockTypeOK(Message)' /\ FieldTypes' /\ ListenerTypes' /\ OwnerTypes' /\ HandlerTypes' /\ fate' \in Fate
      BY <1>2 DEF CallTestConnected, SockTypeOK, sockVars, FieldTypes, fieldVars, ListenerTypes, listenerVars, OwnerTypes, ownerVars, HandlerTypes, handlerVars, Fate
    <2>2. CallTypes'
      BY <1>2 DEF CallTestConnected, CallTypes, callVars
    <2> QED
      BY <2>1, <2>2
  <1>3. CASE CallTestReceived(c)
    <2>1. SockTypeOK(Message)' /\ FieldTypes' /\ ListenerTypes' /\ OwnerTypes' /\ HandlerTypes' /\ fate' \in Fate
      BY <1>3 DEF CallTestReceived, SockTypeOK, sockVars, FieldTypes, fieldVars, ListenerTypes, listenerVars, OwnerTypes, ownerVars, HandlerTypes, handlerVars, Fate
    <2>2. CallTypes'
      BY <1>3 DEF CallTestReceived, CallTypes, callVars
    <2> QED
      BY <2>1, <2>2
  <1>4. CASE CallBlock(c)
    <2>1. SockTypeOK(Message)' /\ FieldTypes' /\ ListenerTypes' /\ OwnerTypes' /\ HandlerTypes' /\ fate' \in Fate
      BY <1>4 DEF CallBlock, SockTypeOK, sockVars, FieldTypes, fieldVars, ListenerTypes, listenerVars, OwnerTypes, ownerVars, HandlerTypes, handlerVars, Fate
    <2>2. CallTypes'
      BY <1>4 DEF CallBlock, CallTypes, callVars
    <2> QED
      BY <2>1, <2>2
  <1>5. CASE CallWoke(c)
    <2>1. SockTypeOK(Message)' /\ FieldTypes' /\ ListenerTypes' /\ OwnerTypes' /\ HandlerTypes' /\ fate' \in Fate
      BY <1>5 DEF CallWoke, Return, SockTypeOK, sockVars, FieldTypes, fieldVars, ListenerTypes, listenerVars, OwnerTypes, ownerVars, HandlerTypes, handlerVars, Fate
    <2>2. CallTypes'
      BY <1>5 DEF CallWoke, Return, CallTypes, callVars
    <2> QED
      BY <2>1, <2>2
  <1>6. CASE CallRead(c)
    <2>1. SockTypeOK(Message)' /\ ListenerTypes' /\ OwnerTypes' /\ HandlerTypes' /\ fate' \in Fate
      BY <1>6 DEF CallRead, Return, SockTypeOK, sockVars, ListenerTypes, listenerVars, OwnerTypes, ownerVars, HandlerTypes, handlerVars, Fate
    <2>2. FieldTypes'
      BY <1>6 DEF CallRead, Return, FieldTypes, fieldVars
    <2>3. CallTypes'
      <3>1. \A m \in response_queue : Answers(m, c) => m.of \in Calls
        BY MessageParts DEF FieldTypes, Answers
      <3>2. PICK result \in Calls \cup {NoReply} : Return(c, result)
        BY <1>6, <3>1 DEF CallRead
      <3> QED
        BY <1>6, <3>2 DEF CallRead, Return, CallTypes
    <2> QED
      BY <2>1, <2>2, <2>3
  <1> QED
    BY <1>1, <1>2, <1>3, <1>4, <1>5, <1>6 DEF Call

LEMMA HandlerType == ASSUME TypeOK, Handler PROVE TypeOK'
  <1> USE SocketAssumption, ConnectionAssumption DEF TypeOK, Session, Threads
  <1>1. ASSUME NEW m \in adding \cup notifying, AddResponse(m) PROVE TypeOK'
    <2>1. SockTypeOK(Message)' /\ ListenerTypes' /\ OwnerTypes' /\ CallTypes' /\ fate' \in Fate
      BY <1>1 DEF AddResponse, SockTypeOK, sockVars, ListenerTypes, listenerVars, OwnerTypes, ownerVars, CallTypes, callVars, Fate
    <2>2. FieldTypes'
      BY <1>1 DEF AddResponse, FieldTypes, HandlerTypes
    <2>3. HandlerTypes'
      BY <1>1 DEF AddResponse, HandlerTypes, handlerVars
    <2> QED
      BY <2>1, <2>2, <2>3
  <1>2. ASSUME NEW m \in adding \cup notifying, NotifyResponse(m) PROVE TypeOK'
    <2>1. SockTypeOK(Message)' /\ FieldTypes' /\ ListenerTypes' /\ OwnerTypes' /\ fate' \in Fate
      BY <1>2 DEF NotifyResponse, NotifyCalls, SockTypeOK, sockVars, FieldTypes, fieldVars, ListenerTypes, listenerVars, OwnerTypes, ownerVars, Fate
    <2>2. CallTypes'
      BY <1>2 DEF NotifyResponse, NotifyCalls, CallTypes, callVars
    <2>3. HandlerTypes'
      BY <1>2 DEF NotifyResponse, NotifyCalls, HandlerTypes, handlerVars
    <2> QED
      BY <2>1, <2>2, <2>3
  <1>3. ASSUME NEW r \in Requests, RequestLookup(r) PROVE TypeOK'
    <2>1. SockTypeOK(Message)' /\ FieldTypes' /\ ListenerTypes' /\ OwnerTypes' /\ CallTypes' /\ fate' \in Fate
      BY <1>3 DEF RequestLookup, SockTypeOK, sockVars, FieldTypes, fieldVars, ListenerTypes, listenerVars, OwnerTypes, ownerVars, CallTypes, callVars, Fate
    <2>2. HandlerTypes'
      BY <1>3 DEF RequestLookup, HandlerTypes, handlerVars
    <2> QED
      BY <2>1, <2>2
  <1>4. ASSUME NEW r \in Requests, RequestInvoke(r) PROVE TypeOK'
    <2>1. SockTypeOK(Message)' /\ FieldTypes' /\ ListenerTypes' /\ OwnerTypes' /\ CallTypes'
      BY <1>4 DEF RequestInvoke, SockTypeOK, sockVars, FieldTypes, fieldVars, ListenerTypes, listenerVars, OwnerTypes, ownerVars, CallTypes, callVars
    <2>2. HandlerTypes'
      BY <1>4 DEF RequestInvoke, HandlerTypes, handlerVars
    <2>3. fate' \in Fate
      BY <1>4 DEF RequestInvoke, Fate
    <2> QED
      BY <2>1, <2>2, <2>3
  <1>5. ASSUME NEW r \in Requests, RequestReply(r) PROVE TypeOK'
    <2>1. SockTypeOK(Message)' /\ FieldTypes' /\ ListenerTypes' /\ OwnerTypes' /\ CallTypes'
      BY <1>5 DEF RequestReply, SockTypeOK, sockVars, FieldTypes, fieldVars, ListenerTypes, listenerVars, OwnerTypes, ownerVars, CallTypes, callVars
    <2>2. HandlerTypes'
      BY <1>5 DEF RequestReply, HandlerTypes, handlerVars
    <2>3. fate' \in Fate
      BY <1>5 DEF RequestReply, Fate
    <2> QED
      BY <2>1, <2>2, <2>3
  <1>6. ASSUME NEW r \in Requests, RequestSend(r) PROVE TypeOK'
    <2>1. SockTypeOK(Message)' /\ FieldTypes' /\ ListenerTypes' /\ OwnerTypes' /\ CallTypes'
      BY <1>6 DEF RequestSend, SockTypeOK, sockVars, FieldTypes, fieldVars, ListenerTypes, listenerVars, OwnerTypes, ownerVars, CallTypes, callVars
    <2>2. HandlerTypes'
      BY <1>6 DEF RequestSend, HandlerTypes, handlerVars
    <2>3. fate' \in Fate
      BY <1>6 DEF RequestSend, Fate
    <2> QED
      BY <2>1, <2>2, <2>3
  <1>7. CASE HandlerAfterDestroy
    <2>1. SockTypeOK(Message)' /\ FieldTypes' /\ ListenerTypes' /\ OwnerTypes' /\ CallTypes' /\ HandlerTypes'
      BY <1>7 DEF HandlerAfterDestroy, Die, SockTypeOK, sockVars, FieldTypes, fieldVars, ListenerTypes, listenerVars, OwnerTypes, ownerVars, CallTypes, callVars, HandlerTypes, handlerVars
    <2>2. fate' \in Fate
      BY <1>7 DEF HandlerAfterDestroy, Die, Fate
    <2> QED
      BY <2>1, <2>2
  <1> QED
    BY <1>1, <1>2, <1>3, <1>4, <1>5, <1>6, <1>7 DEF Handler,
      RequestHandler, ResponseHandler

LEMMA PeerType == ASSUME TypeOK, Peer PROVE TypeOK'
  <1> USE SocketAssumption, ConnectionAssumption DEF TypeOK, Session, Threads
  <1>1. ASSUME NEW c \in Calls, PeerReply(c) PROVE TypeOK'
    <2>1. FieldTypes' /\ ListenerTypes' /\ OwnerTypes' /\ HandlerTypes' /\ fate' \in Fate
      BY <1>1 DEF PeerReply, Arrive, FieldTypes, fieldVars, ListenerTypes, listenerVars, OwnerTypes, ownerVars, HandlerTypes, handlerVars, Fate
    <2>2. SockTypeOK(Message)'
      <3> DEFINE m == [type |-> "RES", of |-> c, session |-> via[c]]
      <3>1. via[c] \in Session
        BY <1>1 DEF PeerReply, CallTypes
      <3>2. m \in Message
        BY <1>1, <3>1 DEF Message
      <3>3. Arrive(via[c], m)
        BY <1>1 DEF PeerReply
      <3> HIDE DEF m
      <3> QED
        BY <3>2, <3>3, ArriveType
    <2>3. CallTypes'
      BY <1>1 DEF PeerReply, Arrive, CallTypes, callVars
    <2> QED
      BY <2>1, <2>2, <2>3
  <1>2. ASSUME NEW n \in Session, NEW r \in Requests, PeerRequest(r, n) PROVE TypeOK'
    <2>1. FieldTypes' /\ ListenerTypes' /\ OwnerTypes' /\ CallTypes' /\ fate' \in Fate
      BY <1>2 DEF PeerRequest, Arrive, FieldTypes, fieldVars, ListenerTypes, listenerVars, OwnerTypes, ownerVars, CallTypes, callVars, Fate
    <2>2. SockTypeOK(Message)'
      <3> DEFINE m == [type |-> "REQ", of |-> r, session |-> n]
      <3>1. m \in Message
        BY <1>2 DEF Message
      <3>2. Arrive(n, m)
        BY <1>2 DEF PeerRequest
      <3> HIDE DEF m
      <3> QED
        BY <3>1, <3>2, ArriveType
    <2>3. HandlerTypes'
      BY <1>2 DEF PeerRequest, Arrive, HandlerTypes, handlerVars
    <2> QED
      BY <2>1, <2>2, <2>3
  <1>3. ASSUME NEW n \in Session, PeerLeaves(n) PROVE TypeOK'
    <2>1. FieldTypes' /\ ListenerTypes' /\ OwnerTypes' /\ CallTypes' /\ HandlerTypes' /\ fate' \in Fate
      BY <1>3 DEF PeerLeaves, PeerCloses, PeerResets, FieldTypes, fieldVars, ListenerTypes, listenerVars, OwnerTypes, ownerVars, CallTypes, callVars, HandlerTypes, handlerVars, Fate
    <2>2. SockTypeOK(Message)'
      <3>1. CASE PeerCloses(n)
        BY <3>1 DEF PeerCloses, SockTypeOK
      <3>2. CASE PeerResets(n)
        BY <3>2, EmptySeq DEF PeerResets, SockTypeOK
      <3> QED
        BY <1>3, <3>1, <3>2 DEF PeerLeaves
    <2> QED
      BY <2>1, <2>2
  <1> QED
    BY <1>1, <1>2, <1>3 DEF Peer

LEMMA SpuriousWakeupType == ASSUME TypeOK, SpuriousWakeup PROVE TypeOK'
  <1>1. SockTypeOK(Message)' /\ FieldTypes' /\ HandlerTypes' /\ fate' \in Fate
    BY DEF SpuriousWakeup, TypeOK, SockTypeOK, FieldTypes, HandlerTypes, Fate, Session
  <1>2. ListenerTypes'
    BY DEF SpuriousWakeup, TypeOK, ListenerTypes, Session
  <1>3. OwnerTypes'
    BY DEF SpuriousWakeup, TypeOK, OwnerTypes, Threads
  <1>4. CallTypes'
    BY DEF SpuriousWakeup, TypeOK, CallTypes
  <1> QED
    BY <1>1, <1>2, <1>3, <1>4 DEF TypeOK

LEMMA StutterTypeOK == ASSUME TypeOK, UNCHANGED vars PROVE TypeOK'
  BY DEF TypeOK, SockTypeOK, FieldTypes, ListenerTypes, OwnerTypes, CallTypes, HandlerTypes, Fate,
         Session, Threads

LEMMA NextTypeOK == TypeOK /\ [Next]_vars => TypeOK'
  <1> SUFFICES ASSUME TypeOK, [Next]_vars PROVE TypeOK'
    OBVIOUS
  <1> QED
    BY OwnerType, ListenerType, HandlerType, PeerType, SpuriousWakeupType, SendRequestType,
       CallType, StutterTypeOK DEF Next

(* Type correctness: every variable of the connection, its threads and its *)
(* sockets stays in its type in every behaviour.                           *)
THEOREM TypeCorrect == Spec => []TypeOK
  BY InitTypeOK, NextTypeOK, PTL DEF Spec

-----------------------------------------------------------------------------
(* The variables ShutdownInv is about; calls, handlers and the peer leave  *)
(* them alone.                                                             *)
shutdownVars == <<sd, pcL, pcO, socket_fd, idleable, reading, fds, shut>>

USE DEF shutdownVars

LEMMA ShutdownStutter == ASSUME ShutdownInv, UNCHANGED shutdownVars PROVE ShutdownInv'
  BY DEF ShutdownInv, ShutdownAwaitsListener, ReadCanEnd, SocketOf, IsOpen

LEMMA ShutdownCall == ASSUME NEW c \in Calls, SendRequest(c) \/ Call(c) PROVE UNCHANGED shutdownVars
  BY DEF SendRequest, Call, CallSend, CallTestConnected, CallTestReceived, CallBlock, CallWoke, CallRead

LEMMA ShutdownHandler == ASSUME Handler PROVE UNCHANGED shutdownVars
  <1>1. CASE ResponseHandler
    BY <1>1 DEF ResponseHandler, AddResponse, NotifyResponse
  <1>2. CASE HandlerAfterDestroy
    BY <1>2 DEF HandlerAfterDestroy, Die
  <1>3. ASSUME NEW r \in Requests, RequestHandler(r) PROVE UNCHANGED shutdownVars
    BY <1>3 DEF RequestHandler, RequestLookup, RequestInvoke, RequestReply, RequestSend
  <1> QED
    BY <1>1, <1>2, <1>3 DEF Handler

LEMMA ShutdownPeer == ASSUME Peer PROVE UNCHANGED shutdownVars
  BY DEF Peer, PeerReply, PeerRequest, PeerLeaves, PeerCloses, PeerResets, Arrive

LEMMA ShutdownInvShutdown ==
  ASSUME TypeOK, ShutdownInv, NEW t \in Threads, Shutdown(t)
  PROVE  ShutdownInv'
  <1> USE DEF ShutdownInv, ShutdownAwaitsListener, ReadCanEnd
  <1>1. CASE SdCheck(t)
    BY <1>1 DEF SdCheck, SdThrows, Die, Threads, TypeOK, OwnerTypes, SocketOf, IsOpen
  <1>2. CASE SdStore(t)
    BY <1>2 DEF SdStore, NotifyListener, Threads, TypeOK, OwnerTypes, SocketOf, IsOpen
  <1>3. CASE SdShut(t)
    BY <1>3 DEF SdShut, SocketShutdown, Threads, TypeOK, OwnerTypes, SockTypeOK, FieldTypes, ListenerTypes, Session, SocketOf, IsOpen
  <1>4. CASE SdClose(t)
    BY <1>4 DEF SdClose, SocketClose, Threads, TypeOK, OwnerTypes, SockTypeOK, FieldTypes, SocketOf, IsOpen
  <1>5. CASE SdCloseFails(t)
    BY <1>5 DEF SdCloseFails, SdThrows, Die, Threads, TypeOK, OwnerTypes, SocketOf, IsOpen
  <1>6. CASE SdZero(t)
    BY <1>6 DEF SdZero, Threads, TypeOK, OwnerTypes, SocketOf, IsOpen
  <1>7. CASE SdAwait(t)
    BY <1>7 DEF SdAwait, Threads, TypeOK, OwnerTypes, FieldTypes, SocketOf, IsOpen
  <1>8. CASE SdBlock(t)
    BY <1>8 DEF SdBlock, Threads, TypeOK, OwnerTypes, SocketOf, IsOpen
  <1>9. CASE SdNotify(t)
    BY <1>9 DEF SdNotify, Threads, TypeOK, OwnerTypes, SocketOf, IsOpen
  <1>10. CASE SdClear(t)
    BY <1>10 DEF SdClear, Threads, TypeOK, OwnerTypes, SocketOf, IsOpen
  <1> QED
    BY <1>1, <1>2, <1>3, <1>4, <1>5, <1>6, <1>7, <1>8, <1>9, <1>10 DEF Shutdown

LEMMA ShutdownInvOwner ==
  ASSUME TypeOK, ShutdownInv, Owner
  PROVE  ShutdownInv'
  <1> USE DEF ShutdownInv, ShutdownAwaitsListener, ReadCanEnd
  <1>1. ASSUME NEW f \in Fds, Connect(f) PROVE ShutdownInv'
    <2>1. sessions' = sessions + 1 /\ fds[f] = 0 /\ fds' = [fds EXCEPT ![f] = sessions + 1]
          /\ socket_fd' = f /\ f # 0 /\ UNCHANGED <<shut, sd, pcL, idleable, reading>>
      BY <1>1, SocketAssumption DEF Connect, SocketOpen, listenerVars
    <2>2. pcO = "idle" /\ sd["owner"] = "none" /\ pcO' = "connecting"
      BY <1>1 DEF Connect, Threads, TypeOK, OwnerTypes
    <2>3. pcL = "read" => IsOpen(reading)' \/ shut'[reading']
      BY <2>1 DEF TypeOK, SockTypeOK, ListenerTypes, Session, IsOpen
    <2> QED
      BY <2>1, <2>2, <2>3
  <1>2. ASSUME NEW f \in Fds, ConnectFails(f) PROVE ShutdownInv'
    BY <1>2 DEF ConnectFails, SocketLeak, TypeOK, SockTypeOK, ListenerTypes, FieldTypes, Session, SocketOf, IsOpen
  <1>3. ASSUME NEW d \in BOOLEAN, ConnectStore(d) PROVE ShutdownInv'
    BY <1>3 DEF ConnectStore, SocketOf, IsOpen
  <1>4. CASE InvokeDeferred
    BY <1>4 DEF InvokeDeferred, SocketOf, IsOpen
  <1>5. CASE StartListener
    BY <1>5 DEF StartListener, NotifyListener, SocketOf, IsOpen
  <1>6. ASSUME NEW m \in Methods, AddMethod(m) \/ RemoveMethod(m) PROVE ShutdownInv'
    BY <1>6 DEF AddMethod, RemoveMethod, SetMethods, SocketOf, IsOpen
  <1>7. CASE BeginShutdown
    BY <1>7 DEF BeginShutdown, TypeOK, OwnerTypes, Threads, SocketOf, IsOpen
  <1>8. CASE BeginReset
    BY <1>8 DEF BeginReset, TypeOK, OwnerTypes, Threads, SocketOf, IsOpen
  <1>9. CASE BeginDestroy
    BY <1>9 DEF BeginDestroy, TypeOK, OwnerTypes, Threads, SocketOf, IsOpen
  <1>10. CASE Shutdown("owner")
    BY <1>10, ShutdownInvShutdown DEF Threads
  <1>11. CASE ClearMethods
    BY <1>11 DEF ClearMethods, SocketOf, IsOpen
  <1>12. CASE Terminate
    BY <1>12 DEF Terminate, NotifyListener, SocketOf, IsOpen
  <1>13. CASE Join
    BY <1>13 DEF Join, SocketOf, IsOpen
  <1> QED
    BY <1>1, <1>2, <1>3, <1>4, <1>5, <1>6, <1>7, <1>8, <1>9, <1>10, <1>11, <1>12, <1>13 DEF Owner

LEMMA ShutdownInvListener ==
  ASSUME TypeOK, ShutdownInv, Listener
  PROVE  ShutdownInv'
  <1> USE DEF ShutdownInv, ShutdownAwaitsListener, ReadCanEnd
  <1>1. CASE ListenerTop
    BY <1>1 DEF ListenerTop, NotifyIdleable, TypeOK, OwnerTypes, Threads, SocketOf, IsOpen
  <1>2. CASE ListenerSnap
    BY <1>2 DEF ListenerSnap, SocketOf
  <1>3. CASE ListenerWait
    BY <1>3 DEF ListenerWait, SocketOf
  <1>4. CASE ListenerBlock
    BY <1>4 DEF ListenerBlock, SocketOf
  <1>5. CASE ListenerReady
    BY <1>5 DEF ListenerReady, SocketOf
  <1>6. CASE ListenerBusy
    BY <1>6 DEF ListenerBusy, SocketOf
  <1>7. CASE ListenerCompare
    BY <1>7 DEF ListenerCompare, SocketOf
  <1>8. CASE ListenerReceive
    BY <1>8 DEF ListenerReceive, TypeOK, SockTypeOK, FieldTypes, SocketOf, IsOpen
  <1>9. CASE ListenerData
    BY <1>9 DEF ListenerData, TakeFromInbox, SocketOf
  <1>10. CASE ListenerError
    BY <1>10 DEF ListenerError, ReportReset, SocketOf
  <1>11. CASE ListenerEnd
    BY <1>11 DEF ListenerEnd, StreamEnds, TypeOK, OwnerTypes, Threads, SocketOf
  <1>12. CASE ListenerConsole
    BY <1>12 DEF ListenerConsole, StreamEnds, TypeOK, OwnerTypes, Threads, SocketOf
  <1>13. CASE Shutdown("listener")
    BY <1>13, ShutdownInvShutdown DEF Threads
  <1> QED
    BY <1>1, <1>2, <1>3, <1>4, <1>5, <1>6, <1>7, <1>8, <1>9, <1>10, <1>11, <1>12, <1>13 DEF Listener, ListenerRuns

LEMMA ShutdownInvInit == Init => ShutdownInv
  BY DEF Init, SockInit, ShutdownInv, ShutdownAwaitsListener, ReadCanEnd, SocketOf, Threads

LEMMA ShutdownInvNext == TypeOK /\ ShutdownInv /\ [Next]_vars => ShutdownInv'
  <1> SUFFICES ASSUME TypeOK, ShutdownInv, [Next]_vars PROVE ShutdownInv'
    OBVIOUS
  <1>1. CASE SpuriousWakeup
    <2> USE DEF ShutdownInv, ShutdownAwaitsListener, ReadCanEnd, SocketOf, IsOpen
    <2>1. CASE pcL = "asleep" /\ pcL' = "wait" /\ UNCHANGED <<fieldVars, reading, ownerVars, sockVars>>
      BY <2>1
    <2>2. CASE UNCHANGED shutdownVars
      BY <2>2, ShutdownStutter
    <2>3. ASSUME NEW t \in Threads, sd[t] = "asleep", sd' = [sd EXCEPT ![t] = "await"],
                 UNCHANGED <<fieldVars, listenerVars, pcO, sockVars>>
          PROVE  ShutdownInv'
      BY <2>3 DEF Threads, TypeOK, OwnerTypes
    <2> QED
      BY <1>1, <2>1, <2>2, <2>3 DEF SpuriousWakeup
  <1>2. CASE UNCHANGED vars
    BY <1>2, ShutdownStutter
  <1> QED
    BY <1>1, <1>2, ShutdownInvOwner, ShutdownInvListener, ShutdownStutter, ShutdownCall,
       ShutdownHandler, ShutdownPeer DEF Next

(* shutdown() by the owner returns only once the listener is out of every  *)
(* read of a socket, and until the next connect() it enters none: the      *)
(* purpose of idleable, which the listener clears before it reads and sets *)
(* after.  (It may still enter a read of the console, which descriptor 0   *)
(* names.)                                                                 *)
THEOREM OwnerAwaitsListener == Spec => []ShutdownAwaitsListener
  <1>1. ShutdownInv => ShutdownAwaitsListener
    BY DEF ShutdownInv
  <1> QED
    BY <1>1, ShutdownInvInit, ShutdownInvNext, TypeCorrect, PTL DEF Spec

(* No read blocks on a socket that was closed without ::shutdown, which    *)
(* nothing would ever end: shutdown() closes what it has shut down, though *)
(* socket_fd is read anew for each call and other threads may change it.   *)
THEOREM NoEndlessRead == Spec => []ReadCanEnd
  <1>1. ShutdownInv => ReadCanEnd
    BY DEF ShutdownInv
  <1> QED
    BY <1>1, ShutdownInvInit, ShutdownInvNext, TypeCorrect, PTL DEF Spec

-----------------------------------------------------------------------------
(* The variables AnswersGenuine is about.                                  *)
answerVars == <<inbox, receivedData, adding, response_queue, answered, reply, rid>>

USE DEF answerVars

LEMMA GenuineStutter == ASSUME AnswersGenuine, UNCHANGED answerVars PROVE AnswersGenuine'
  BY DEF AnswersGenuine, Genuine, ReplyMatchesCall, Session, Message

(* What a step may do to the answers on their way without disturbing the   *)
(* invariant, when the peer gives no new one: drop them, or move them.     *)
LEMMA GenuineMoves ==
  ASSUME AnswersGenuine, UNCHANGED <<answered, reply, rid>>,
         inbox' \in [Session -> Seq(Genuine)], receivedData' \in Seq(Genuine \cup {Line}),
         adding' \subseteq Genuine, response_queue' \subseteq Genuine
  PROVE  AnswersGenuine'
  BY DEF AnswersGenuine, Genuine, ReplyMatchesCall, Session, Message

LEMMA GenuineShutdown == ASSUME AnswersGenuine, NEW t \in Threads, Shutdown(t) PROVE AnswersGenuine'
  <1>1. CASE SdClear(t)
    BY <1>1, GenuineMoves DEF SdClear, AnswersGenuine
  <1>2. CASE ~SdClear(t)
    <2>1. UNCHANGED answerVars
      BY <1>2 DEF Shutdown, SdCheck, SdStore, SdShut, SdClose, SdCloseFails, SdZero, SdAwait, SdBlock,
            SdNotify, SdThrows, Die, SocketShutdown, SocketClose
    <2> QED
      BY <2>1, GenuineStutter
  <1> QED
    BY <1>1, <1>2

LEMMA GenuineOwner == ASSUME AnswersGenuine, Owner PROVE AnswersGenuine'
  <1>1. CASE Shutdown("owner")
    BY <1>1, GenuineShutdown DEF Threads
  <1>2. CASE ~Shutdown("owner")
    <2>1. UNCHANGED answerVars
      BY <1>2 DEF Owner, Connect, ConnectFails, ConnectStore, SocketOpen, SocketLeak, InvokeDeferred,
            StartListener, AddMethod, RemoveMethod, SetMethods, BeginShutdown, BeginReset,
            BeginDestroy, ClearMethods, Terminate, Join
    <2> QED
      BY <2>1, GenuineStutter
  <1> QED
    BY <1>1, <1>2

(* A message of the buffer goes to a handler.                              *)
LEMMA GenuineDeliver ==
  ASSUME AnswersGenuine, UNCHANGED <<response_queue, answered, reply, rid>>,
         inbox' \in [Session -> Seq(Genuine)],
         NEW held \in Seq(Genuine \cup {Line}) \ {<<>>}, Deliver(held)
  PROVE  AnswersGenuine'
  <1>1. /\ receivedData' \in Seq(Genuine \cup {Line})
        /\ UNCHANGED <<adding, req>> \/ \E m \in Genuine : Dispatch(m)
    BY DeliverParts
  <1>2. adding' \subseteq Genuine
    BY <1>1 DEF Dispatch, AnswersGenuine
  <1> QED
    BY <1>1, <1>2, GenuineMoves DEF AnswersGenuine

LEMMA GenuineData == ASSUME TypeOK, AnswersGenuine, ListenerData PROVE AnswersGenuine'
  <1>1. PICK k \in 1..Len(inbox[reading]) :
          /\ TakeFromInbox(reading, k)
          /\ Deliver(receivedData \o SubSeq(inbox[reading], 1, k))
    BY DEF ListenerData
  <1>2. /\ reading \in Session /\ inbox[reading] \in Seq(Genuine)
        /\ receivedData \in Seq(Genuine \cup {Line})
    BY DEF ListenerData, TypeOK, ListenerTypes, AnswersGenuine
  <1>3. inbox' \in [Session -> Seq(Genuine)]
    BY <1>1, <1>2, ReadTypes DEF TakeFromInbox, AnswersGenuine
  <1>4. receivedData \o SubSeq(inbox[reading], 1, k) \in Seq(Genuine \cup {Line}) \ {<<>>}
    BY <1>2, ReadHeld
  <1>5. UNCHANGED <<response_queue, answered, reply, rid>>
    BY DEF ListenerData
  <1> QED
    BY <1>1, <1>3, <1>4, <1>5, GenuineDeliver

LEMMA GenuineConsole == ASSUME TypeOK, AnswersGenuine, ListenerConsole PROVE AnswersGenuine'
  <1>1. /\ UNCHANGED <<inbox, response_queue, answered, reply, rid>>
        /\ \/ Deliver(Append(receivedData, Line))
           \/ receivedData' \in {<<>>, <<Line>>} /\ UNCHANGED adding
    BY DEF ListenerConsole, StreamEnds
  <1>2. receivedData \in Seq(Genuine \cup {Line}) /\ inbox' \in [Session -> Seq(Genuine)]
    BY <1>1 DEF AnswersGenuine
  <1>3. Append(receivedData, Line) \in Seq(Genuine \cup {Line}) \ {<<>>}
        /\ <<Line>> \in Seq(Genuine \cup {Line}) /\ <<>> \in Seq(Genuine \cup {Line})
    BY <1>2, LineHeld, EmptySeq
  <1>4. CASE Deliver(Append(receivedData, Line))
    BY <1>1, <1>2, <1>3, <1>4, GenuineDeliver
  <1>5. CASE receivedData' \in {<<>>, <<Line>>} /\ UNCHANGED adding
    BY <1>1, <1>2, <1>3, <1>5, GenuineMoves DEF AnswersGenuine
  <1> QED
    BY <1>1, <1>4, <1>5

LEMMA GenuineListener == ASSUME TypeOK, AnswersGenuine, Listener PROVE AnswersGenuine'
  <1>1. CASE Shutdown("listener")
    BY <1>1, GenuineShutdown DEF Threads
  <1>2. CASE ListenerData
    BY <1>2, GenuineData
  <1>4. CASE ListenerConsole
    BY <1>4, GenuineConsole
  <1>3. CASE ~Shutdown("listener") /\ ~ListenerData /\ ~ListenerConsole
    <2>1. receivedData' \in {receivedData, <<>>}
          /\ UNCHANGED <<inbox, adding, response_queue, answered, reply, rid>>
      BY <1>3 DEF Listener, ListenerRuns, ListenerTop, ListenerSnap, ListenerWait, ListenerBlock, ListenerReady,
            ListenerBusy, ListenerCompare, ListenerReceive, ListenerError, ReportReset,
            ListenerEnd, StreamEnds
    <2>2. receivedData' \in Seq(Genuine \cup {Line})
      BY <2>1, EmptySeq DEF AnswersGenuine
    <2> QED
      BY <2>1, <2>2, GenuineMoves DEF AnswersGenuine
  <1> QED
    BY <1>1, <1>2, <1>3, <1>4

LEMMA GenuineCall ==
  ASSUME TypeOK, AnswersGenuine, NEW c \in Calls, SendRequest(c) \/ Call(c)
  PROVE  AnswersGenuine'
  <1>1. CASE CallRead(c)
    <2>1. PICK result \in answered \cup {NoReply} :
            Return(c, result) /\ (result # NoReply => rid[result] = rid[c])
      BY <1>1 DEF CallRead, AnswersGenuine, Genuine, Answers
    <2>2. response_queue' \subseteq response_queue
          /\ UNCHANGED <<inbox, receivedData, adding, answered, rid>>
      BY <1>1 DEF CallRead
    <2>3. ReplyMatchesCall'
      BY <2>1, <2>2 DEF Return, ReplyMatchesCall, AnswersGenuine, TypeOK, CallTypes
    <2> QED
      BY <2>2, <2>3 DEF AnswersGenuine, Genuine, Message, Session
  <1>2. CASE CallSend(c) \/ CallWoke(c)
    <2>1. reply' \in {reply, [reply EXCEPT ![c] = NoReply]}
          /\ UNCHANGED <<inbox, receivedData, adding, response_queue, answered, rid>>
      BY <1>2 DEF CallSend, CallWoke, Return
    <2>2. ReplyMatchesCall'
      BY <2>1 DEF ReplyMatchesCall, AnswersGenuine, TypeOK, CallTypes
    <2> QED
      BY <2>1, <2>2 DEF AnswersGenuine, Genuine, Message, Session
  <1>3. CASE SendRequest(c) \/ CallTestConnected(c) \/ CallTestReceived(c) \/ CallBlock(c)
    <2>1. UNCHANGED answerVars
      BY <1>3 DEF SendRequest, CallTestConnected, CallTestReceived, CallBlock
    <2> QED
      BY <2>1, GenuineStutter
  <1> QED
    BY <1>1, <1>2, <1>3 DEF Call

LEMMA GenuineHandler == ASSUME TypeOK, AnswersGenuine, Handler PROVE AnswersGenuine'
  <1>1. ASSUME NEW m \in adding \cup notifying, AddResponse(m) PROVE AnswersGenuine'
    BY <1>1, GenuineMoves DEF AddResponse, AnswersGenuine
  <1>2. CASE \A m \in adding \cup notifying : ~AddResponse(m)
    <2>1. UNCHANGED answerVars
      BY <1>2 DEF Handler, ResponseHandler, NotifyResponse, HandlerAfterDestroy, Die, RequestHandler,
            RequestLookup, RequestInvoke, RequestReply, RequestSend
    <2> QED
      BY <2>1, GenuineStutter
  <1> QED
    BY <1>1, <1>2

(* A new answer of the peer enlarges the set of genuine messages.          *)
LEMMA GenuineGrows ==
  ASSUME AnswersGenuine, answered \subseteq answered', UNCHANGED <<reply, rid>>
  PROVE  /\ Genuine \subseteq Genuine'
         /\ Seq(Genuine) \subseteq Seq(Genuine')
         /\ Seq(Genuine \cup {Line}) \subseteq Seq(Genuine' \cup {Line})
         /\ ReplyMatchesCall'
  <1>1. Genuine \subseteq Genuine'
    BY DEF Genuine, Message, Session
  <1> QED
    BY <1>1, SeqMonotonic DEF AnswersGenuine, ReplyMatchesCall

LEMMA GenuineArrive ==
  ASSUME AnswersGenuine, answered \subseteq answered', NEW n, NEW m \in Genuine', Arrive(n, m),
         UNCHANGED <<receivedData, adding, response_queue, reply, rid>>
  PROVE  AnswersGenuine'
  <1>1. ASSUME NEW k \in Session
        PROVE  inbox[k] \in Seq(Genuine') /\ Append(inbox[k], m) \in Seq(Genuine')
    <2>1. inbox[k] \in Seq(Genuine')
      BY GenuineGrows DEF AnswersGenuine
    <2> QED
      BY <2>1, AppendProperties
  <1>2. inbox' \in [Session -> Seq(Genuine')]
    BY <1>1 DEF Arrive, AnswersGenuine
  <1>3. receivedData \in Seq(Genuine' \cup {Line}) /\ adding \subseteq Genuine' /\ response_queue \subseteq Genuine'
    BY GenuineGrows DEF AnswersGenuine
  <1> QED
    BY <1>2, <1>3, GenuineGrows DEF AnswersGenuine, Session

LEMMA GenuinePeer == ASSUME TypeOK, AnswersGenuine, Peer PROVE AnswersGenuine'
  <1>1. ASSUME NEW c \in Calls, PeerReply(c) PROVE AnswersGenuine'
    <2> DEFINE m == [type |-> "RES", of |-> c, session |-> via[c]]
    <2>1. via[c] \in Session /\ answered' = answered \cup {c}
      BY <1>1 DEF PeerReply, TypeOK, CallTypes, Session
    <2>2. m \in Genuine'
      BY <2>1 DEF Genuine, Message, Session
    <2>3. Arrive(via[c], m) /\ UNCHANGED <<receivedData, adding, response_queue, reply, rid>>
      BY <1>1 DEF PeerReply
    <2> HIDE DEF m
    <2> QED
      BY <2>1, <2>2, <2>3, GenuineArrive
  <1>2. ASSUME NEW n \in Session, NEW r \in Requests, PeerRequest(r, n) PROVE AnswersGenuine'
    <2> DEFINE m == [type |-> "REQ", of |-> r, session |-> n]
    <2>1. m \in Genuine'
      BY DEF Genuine, Message, Session
    <2>2. Arrive(n, m) /\ UNCHANGED <<receivedData, adding, response_queue, answered, reply, rid>>
      BY <1>2 DEF PeerRequest
    <2> HIDE DEF m
    <2> QED
      BY <2>1, <2>2, GenuineArrive
  <1>3. ASSUME NEW n \in Session, PeerLeaves(n) PROVE AnswersGenuine'
    <2>1. inbox' \in {inbox, [inbox EXCEPT ![n] = <<>>]}
          /\ UNCHANGED <<receivedData, adding, response_queue, answered, reply, rid>>
      BY <1>3 DEF PeerLeaves, PeerCloses, PeerResets
    <2>2. inbox' \in [Session -> Seq(Genuine)]
      BY <2>1, EmptySeq DEF AnswersGenuine
    <2> QED
      BY <2>1, <2>2, GenuineMoves DEF AnswersGenuine
  <1> QED
    BY <1>1, <1>2, <1>3 DEF Peer

LEMMA GenuineInit == Init => AnswersGenuine
  BY EmptySeq DEF Init, SockInit, AnswersGenuine, ReplyMatchesCall

LEMMA GenuineNext == TypeOK /\ AnswersGenuine /\ [Next]_vars => AnswersGenuine'
  <1> SUFFICES ASSUME TypeOK, AnswersGenuine, [Next]_vars PROVE AnswersGenuine'
    OBVIOUS
  <1>1. CASE SpuriousWakeup \/ UNCHANGED vars
    <2>1. UNCHANGED answerVars
      BY <1>1 DEF SpuriousWakeup
    <2> QED
      BY <2>1, GenuineStutter
  <1> QED
    BY <1>1, GenuineOwner, GenuineListener, GenuineHandler, GenuinePeer, GenuineCall DEF Next

(* A call returns only an answer the peer gave, and gave to a request with *)
(* the call's id, whatever other calls, handlers and shutdowns do to the   *)
(* queue meanwhile.                                                        *)
THEOREM RepliesMatch == Spec => []ReplyMatchesCall
  <1>1. AnswersGenuine => ReplyMatchesCall
    BY DEF AnswersGenuine
  <1> QED
    BY <1>1, GenuineInit, GenuineNext, TypeCorrect, PTL DEF Spec

=============================================================================
