----------------------- MODULE SrfcConnectionCallProofs -----------------------
(***************************************************************************)
(* What a connection does by itself when its owner does not take it down:  *)
(* it ends the process only after the peer, and it never touches the       *)
(* console.  What becomes of a send_request: no error without a cause, no  *)
(* answer handed out twice, and none lost while the connection is up.      *)
(*                                                                         *)
(* OwnerKeepsUp is the condition on the owner, the CONSTANT OwnerOps; some *)
(* results are for an object that is connected once.                       *)
(***************************************************************************)
EXTENDS SrfcConnectionProofs

OwnerKeepsUp == OwnerOps \cap {"shutdown", "reset", "destroy"} = {}

-----------------------------------------------------------------------------
(* While no peer has left, nothing fails: no thread is in shutdown(), the  *)
(* object stays connected to a socket that is alive, and whatever is at    *)
(* work on it, a read, a handler, a send, started after the connect.       *)

AllUp == \A n \in 1..sessions : peer[n] = "up"

InUse == \/ adding \cup notifying # {}
         \/ \E r \in Requests : Handling(r)
         \/ \E c \in Calls : call[c] = "send"

UpInv ==
  /\ fate \in {"running", "method_removed"}
  /\ \A t \in Threads : sd[t] = "none"
  /\ pcL \notin {"console", "shutdown"}
  /\ \A n \in Session : ~shut[n]
  /\ connected \/ pcO = "connecting" => socket_fd # 0 /\ fds[socket_fd] # 0
  /\ pcO \in {"connecting", "destroy", "terminate", "join", "dead"} => ~connected
  /\ terminate_listener => pcO \in {"join", "dead"}
  /\ pcL \in {"busy", "compare", "receive", "read"} => connected
  /\ pcL = "ready" => connected \/ terminate_listener
  /\ pcL = "read" => reading <= sessions
  /\ InUse => connected

FatalInv == /\ \A f \in Fds : fds[f] <= sessions
            /\ AllUp => UpInv

USE DEF vars, fieldVars, listenerVars, ownerVars, callVars, handlerVars, sockVars

(* Sockets only get more, a peer that has left stays away, and descriptors *)
(* name sockets that were opened.                                          *)
SocketsOlder ==
  /\ sessions <= sessions'
  /\ \A n \in Session : peer[n] # "up" => peer'[n] # "up"
  /\ (\A f \in Fds : fds[f] <= sessions) => \A f \in Fds : fds'[f] <= sessions'

LEMMA OlderStutter == ASSUME TypeOK, UNCHANGED <<fds, sessions, peer>> PROVE SocketsOlder
  BY DEF SocketsOlder, TypeOK, SockTypeOK

LEMMA OlderShutdown == ASSUME TypeOK, NEW t \in Threads, Shutdown(t) PROVE SocketsOlder
  <1>1. CASE SdClose(t)
    BY <1>1, SocketAssumption DEF SdClose, SocketClose, SocketsOlder, TypeOK, SockTypeOK,
                                  FieldTypes
  <1>2. CASE ~SdClose(t)
    <2>1. UNCHANGED <<fds, sessions, peer>>
      BY <1>2 DEF Shutdown, SdCheck, SdStore, SdShut, SocketShutdown, SdCloseFails, SdThrows,
                  Die, SdZero, SdAwait, SdBlock, SdNotify, SdClear
    <2> QED
      BY <2>1, OlderStutter
  <1> QED
    BY <1>1, <1>2

LEMMA OlderOwner == ASSUME TypeOK, Owner PROVE SocketsOlder
  <1>1. ASSUME NEW f \in Fds, Connect(f) PROVE SocketsOlder
    BY <1>1 DEF Connect, SocketOpen, SocketsOlder, TypeOK, SockTypeOK
  <1>2. ASSUME NEW f \in Fds, ConnectFails(f) PROVE SocketsOlder
    BY <1>2 DEF ConnectFails, SocketLeak, SocketsOlder, TypeOK, SockTypeOK
  <1>3. CASE Shutdown("owner")
    BY <1>3, OlderShutdown DEF Threads
  <1>4. CASE /\ ~Shutdown("owner")
             /\ \A f \in Fds : ~Connect(f) /\ ~ConnectFails(f)
    <2>1. UNCHANGED <<fds, sessions, peer>>
      BY <1>4 DEF Owner, ConnectStore, InvokeDeferred, StartListener, AddMethod, RemoveMethod,
                  SetMethods, BeginShutdown, BeginReset, BeginDestroy, ClearMethods, Terminate,
                  Join
    <2> QED
      BY <2>1, OlderStutter
  <1> QED
    BY <1>1, <1>2, <1>3, <1>4

LEMMA OlderListener == ASSUME TypeOK, Listener PROVE SocketsOlder
  <1>1. CASE ListenerError
    BY <1>1 DEF ListenerError, ReportReset, SocketsOlder, TypeOK, SockTypeOK
  <1>2. CASE Shutdown("listener")
    BY <1>2, OlderShutdown DEF Threads
  <1>3. CASE ~ListenerError /\ ~Shutdown("listener")
    <2>1. UNCHANGED <<fds, sessions, peer>>
      BY <1>3 DEF Listener, ListenerRuns, ListenerTop, ListenerSnap, ListenerWait, ListenerBlock,
                  ListenerReady, ListenerBusy, ListenerCompare, ListenerReceive, ListenerData,
                  TakeFromInbox, ListenerEnd, ListenerConsole, StreamEnds
    <2> QED
      BY <2>1, OlderStutter
  <1> QED
    BY <1>1, <1>2, <1>3

LEMMA OlderCall == ASSUME TypeOK, NEW c \in Calls, SendRequest(c) \/ Call(c) PROVE SocketsOlder
  <1>1. UNCHANGED <<fds, sessions, peer>>
    BY DEF SendRequest, Call, CallSend, CallTestConnected, CallTestReceived, CallBlock,
           CallWoke, CallRead
  <1> QED
    BY <1>1, OlderStutter

LEMMA OlderHandler == ASSUME TypeOK, Handler PROVE SocketsOlder
  <1>1. UNCHANGED <<fds, sessions, peer>>
    BY DEF Handler, ResponseHandler, AddResponse, NotifyResponse, HandlerAfterDestroy, Die,
           RequestHandler, RequestLookup, RequestInvoke, RequestReply, RequestSend
  <1> QED
    BY <1>1, OlderStutter

LEMMA OlderPeer == ASSUME TypeOK, Peer PROVE SocketsOlder
  <1>1. ASSUME NEW n \in Session, PeerLeaves(n) PROVE SocketsOlder
    BY <1>1 DEF PeerLeaves, PeerCloses, PeerResets, SocketsOlder, TypeOK, SockTypeOK
  <1>2. CASE \A n \in Session : ~PeerLeaves(n)
    <2>1. UNCHANGED <<fds, sessions, peer>>
      BY <1>2 DEF Peer, PeerReply, PeerRequest, Arrive
    <2> QED
      BY <2>1, OlderStutter
  <1> QED
    BY <1>1, <1>2

LEMMA OlderNext == ASSUME TypeOK, [Next]_vars PROVE SocketsOlder
  <1>1. CASE SpuriousWakeup \/ UNCHANGED vars
    BY <1>1, OlderStutter DEF SpuriousWakeup
  <1> QED
    BY <1>1, OlderOwner, OlderListener, OlderCall, OlderHandler, OlderPeer DEF Next

LEMMA UpShutdown == ASSUME UpInv, NEW t \in Threads, Shutdown(t) PROVE FALSE
  BY DEF UpInv, Shutdown, SdCheck, SdStore, SdShut, SdClose, SdCloseFails, SdZero, SdAwait,
         SdBlock, SdNotify, SdClear

LEMMA UpOwner ==
  ASSUME OwnerKeepsUp, TypeOK, \A f \in Fds : fds[f] <= sessions, AllUp, AllUp', UpInv, Owner
  PROVE  UpInv'
  <1> USE SocketAssumption, ConnectionAssumption DEF OwnerKeepsUp, UpInv, InUse, Handling,
          AllUp, TypeOK, SockTypeOK, FieldTypes, OwnerTypes, Threads, Session, SocketOf
  <1>1. ASSUME NEW f \in Fds, Connect(f) PROVE UpInv'
    BY <1>1 DEF Connect, SocketOpen
  <1>2. ASSUME NEW f \in Fds, ConnectFails(f) PROVE UpInv'
    BY <1>2 DEF ConnectFails, SocketLeak
  <1>3. ASSUME NEW d \in BOOLEAN, ConnectStore(d) PROVE UpInv'
    BY <1>3 DEF ConnectStore
  <1>4. CASE InvokeDeferred
    BY <1>4 DEF InvokeDeferred
  <1>5. CASE StartListener
    BY <1>5 DEF StartListener, NotifyListener
  <1>6. ASSUME NEW m \in Methods, AddMethod(m) \/ RemoveMethod(m) PROVE UpInv'
    BY <1>6 DEF AddMethod, RemoveMethod, SetMethods
  <1>7. CASE BeginShutdown
    BY <1>7 DEF BeginShutdown
  <1>8. CASE BeginReset
    BY <1>8 DEF BeginReset
  <1>9. CASE BeginDestroy
    BY <1>9 DEF BeginDestroy
  <1>10. CASE Shutdown("owner")
    BY <1>10, UpShutdown DEF Threads
  <1>11. CASE ClearMethods
    BY <1>11 DEF ClearMethods
  <1>12. CASE Terminate
    BY <1>12 DEF Terminate, NotifyListener
  <1>13. CASE Join
    BY <1>13 DEF Join
  <1> QED
    BY <1>1, <1>2, <1>3, <1>4, <1>5, <1>6, <1>7, <1>8, <1>9, <1>10, <1>11, <1>12,
       <1>13 DEF Owner

LEMMA UpListener ==
  ASSUME OwnerKeepsUp, TypeOK, \A f \in Fds : fds[f] <= sessions, AllUp, AllUp', UpInv, Listener
  PROVE  UpInv'
  <1> USE SocketAssumption, ConnectionAssumption DEF OwnerKeepsUp, UpInv, InUse, Handling,
          AllUp, TypeOK, SockTypeOK, FieldTypes, OwnerTypes, Threads, Session, SocketOf
  <1>1. CASE ListenerTop
    BY <1>1 DEF ListenerTop, NotifyIdleable
  <1>2. CASE ListenerSnap
    BY <1>2 DEF ListenerSnap
  <1>3. CASE ListenerWait
    BY <1>3 DEF ListenerWait
  <1>4. CASE ListenerBlock
    BY <1>4 DEF ListenerBlock
  <1>5. CASE ListenerReady
    BY <1>5 DEF ListenerReady
  <1>6. CASE ListenerBusy
    BY <1>6 DEF ListenerBusy
  <1>7. CASE ListenerCompare
    BY <1>7 DEF ListenerCompare
  <1>8. CASE ListenerReceive
    BY <1>8 DEF ListenerReceive
  <1>9. CASE ListenerData
    BY <1>9 DEF ListenerData, TakeFromInbox, Deliver, Dispatch
  <1>10. CASE ListenerError
    BY <1>10 DEF ListenerError, ReportReset, ReadReturnsError
  <1>11. CASE ListenerEnd
    BY <1>11 DEF ListenerEnd, ReadReturnsEnd, UpInv, AllUp, TypeOK, ListenerTypes, Session
  <1>12. CASE ListenerConsole
    BY <1>12 DEF ListenerConsole, StreamEnds
  <1>13. CASE Shutdown("listener")
    BY <1>13, UpShutdown DEF Threads
  <1> QED
    BY <1>1, <1>2, <1>3, <1>4, <1>5, <1>6, <1>7, <1>8, <1>9, <1>10, <1>11, <1>12,
       <1>13 DEF Listener, ListenerRuns

LEMMA UpCall ==
  ASSUME OwnerKeepsUp, TypeOK, \A f \in Fds : fds[f] <= sessions, AllUp, AllUp', UpInv,
         NEW c \in Calls, SendRequest(c) \/ Call(c)
  PROVE  UpInv'
  <1> USE SocketAssumption, ConnectionAssumption DEF OwnerKeepsUp, UpInv, InUse, Handling,
          AllUp, TypeOK, SockTypeOK, FieldTypes, OwnerTypes, Threads, Session, SocketOf
  <1>1. CASE SendRequest(c)
    BY <1>1 DEF SendRequest
  <1>2. CASE CallSend(c)
    BY <1>2 DEF CallSend, SendThrows, SendKills, Live, Return, CallTypes
  <1>3. CASE CallTestConnected(c)
    BY <1>3 DEF CallTestConnected
  <1>4. CASE CallTestReceived(c)
    BY <1>4 DEF CallTestReceived
  <1>5. CASE CallBlock(c)
    BY <1>5 DEF CallBlock
  <1>6. CASE CallWoke(c)
    BY <1>6 DEF CallWoke, Return, UpInv, InUse, Handling, TypeOK, CallTypes
  <1>7. CASE CallRead(c)
    BY <1>7 DEF CallRead, Return, UpInv, InUse, Handling, TypeOK, CallTypes
  <1> QED
    BY <1>1, <1>2, <1>3, <1>4, <1>5, <1>6, <1>7 DEF Call

LEMMA UpHandler ==
  ASSUME OwnerKeepsUp, TypeOK, \A f \in Fds : fds[f] <= sessions, AllUp, AllUp', UpInv, Handler
  PROVE  UpInv'
  <1> USE SocketAssumption, ConnectionAssumption DEF OwnerKeepsUp, UpInv, InUse, Handling,
          AllUp, TypeOK, SockTypeOK, FieldTypes, OwnerTypes, Threads, Session, SocketOf
  <1>1. ASSUME NEW m \in adding \cup notifying, AddResponse(m) PROVE UpInv'
    BY <1>1 DEF AddResponse
  <1>2. ASSUME NEW m \in adding \cup notifying, NotifyResponse(m) PROVE UpInv'
    BY <1>2 DEF NotifyResponse, NotifyCalls
  <1>3. CASE HandlerAfterDestroy
    BY <1>3 DEF HandlerAfterDestroy, Die
  <1>4. ASSUME NEW r \in Requests, RequestLookup(r) PROVE UpInv'
    BY <1>4 DEF RequestLookup
  <1>5. ASSUME NEW r \in Requests, RequestInvoke(r) PROVE UpInv'
    BY <1>5 DEF RequestInvoke
  <1>6. ASSUME NEW r \in Requests, RequestReply(r) PROVE UpInv'
    BY <1>6 DEF RequestReply
  <1>7. ASSUME NEW r \in Requests, RequestSend(r) PROVE UpInv'
    BY <1>7 DEF RequestSend, SendKills, Live, HandlerTypes
  <1> QED
    BY <1>1, <1>2, <1>3, <1>4, <1>5, <1>6, <1>7 DEF Handler, ResponseHandler, RequestHandler

LEMMA UpPeer ==
  ASSUME OwnerKeepsUp, TypeOK, \A f \in Fds : fds[f] <= sessions, AllUp, AllUp', UpInv, Peer
  PROVE  UpInv'
  <1> USE SocketAssumption, ConnectionAssumption DEF OwnerKeepsUp, UpInv, InUse, Handling,
          AllUp, TypeOK, SockTypeOK, FieldTypes, OwnerTypes, Threads, Session, SocketOf
  <1>1. ASSUME NEW c \in Calls, PeerReply(c) PROVE UpInv'
    BY <1>1 DEF PeerReply, Arrive
  <1>2. ASSUME NEW n \in Session, PeerLeaves(n) PROVE UpInv'
    <2>1. n \in 1..sessions' /\ peer'[n] # "up"
      BY <1>2 DEF PeerLeaves, PeerCloses, PeerResets, TypeOK, SockTypeOK, Session
    <2> QED
      BY <2>1 DEF AllUp
  <1>3. ASSUME NEW r \in Requests, NEW n \in Session, PeerRequest(r, n) PROVE UpInv'
    BY <1>3 DEF PeerRequest, Arrive
  <1> QED
    BY <1>1, <1>2, <1>3 DEF Peer

LEMMA UpWakeup ==
  ASSUME OwnerKeepsUp, TypeOK, \A f \in Fds : fds[f] <= sessions, AllUp, AllUp', UpInv,
         SpuriousWakeup
  PROVE  UpInv'
  <1> USE SocketAssumption, ConnectionAssumption DEF OwnerKeepsUp, UpInv, InUse, Handling,
          AllUp, TypeOK, SockTypeOK, FieldTypes, OwnerTypes, Threads, Session, SocketOf
  <1>1. ASSUME pcL = "asleep", pcL' = "wait", UNCHANGED <<fieldVars, prev_connection,
               receivedData, reading, ownerVars, callVars, handlerVars, fate,
               sockVars>>
        PROVE  UpInv'
    BY <1>1
  <1>2. ASSUME NEW c \in Calls, call[c] = "asleep", call' = [call EXCEPT ![c] = "wait"],
               UNCHANGED <<fieldVars, listenerVars, ownerVars, rid, via, answered, reply,
               broken, handlerVars, fate, sockVars>>
        PROVE  UpInv'
    BY <1>2
  <1>3. ASSUME NEW t \in Threads, sd[t] = "asleep", sd' = [sd EXCEPT ![t] = "await"],
               UNCHANGED <<fieldVars, listenerVars, pcO, callVars, handlerVars, fate,
               sockVars>>
        PROVE  UpInv'
    BY <1>3
  <1> QED
    BY <1>1, <1>2, <1>3 DEF SpuriousWakeup

LEMMA FatalInit == Init => FatalInv
  BY SocketAssumption DEF Init, SockInit, FatalInv, UpInv, InUse, Handling, Threads

LEMMA FatalNext == OwnerKeepsUp /\ TypeOK /\ FatalInv /\ [Next]_vars => FatalInv'
  <1> SUFFICES ASSUME OwnerKeepsUp, TypeOK, FatalInv, [Next]_vars PROVE FatalInv'
    OBVIOUS
  <1>1. SocketsOlder
    BY OlderNext
  <1>2. TypeOK'
    BY NextTypeOK
  <1>3. AllUp' => AllUp
    <2>1. sessions \in 0..MaxSessions /\ sessions' \in 0..MaxSessions /\ MaxSessions \in Nat
      BY <1>2, SocketAssumption DEF TypeOK, SockTypeOK
    <2>2. ASSUME AllUp', NEW n \in 1..sessions PROVE peer[n] = "up"
      BY <1>1, <2>1, <2>2 DEF AllUp, SocketsOlder, Session
    <2> QED
      BY <2>2 DEF AllUp
  <1>4. SUFFICES ASSUME AllUp' PROVE UpInv'
    BY <1>1 DEF FatalInv, SocketsOlder
  <1>5. AllUp /\ UpInv /\ \A f \in Fds : fds[f] <= sessions
    BY <1>3, <1>4 DEF FatalInv
  <1>6. CASE UNCHANGED vars
    BY <1>5, <1>6 DEF UpInv, InUse, Handling, Threads, Session
  <1>7. CASE Next
    BY <1>4, <1>5, <1>7, UpOwner, UpListener, UpCall, UpHandler, UpPeer, UpWakeup DEF Next
  <1> QED
    BY <1>6, <1>7

(* An owner that never takes the object down: the library ends the process *)
(* only after a peer has left, or when the owner removes a method while a  *)
(* request for it is handled.  No exception of shutdown(), of a reply or   *)
(* of a send, no SIGPIPE and no use of the freed object, for any number of *)
(* calls, requests and reconnections.                                      *)
THEOREM FatalAfterPeer ==
  ASSUME OwnerOps \cap {"shutdown", "reset", "destroy"} = {}
  PROVE  Spec => []FatalOnlyAfterPeerLeft
  <1>1. OwnerKeepsUp
    BY DEF OwnerKeepsUp
  <1>2. FatalInv => FatalOnlyAfterPeerLeft
    BY DEF FatalInv, UpInv, AllUp, FatalOnlyAfterPeerLeft
  <1>3. TypeOK /\ FatalInv /\ [Next]_vars => FatalInv'
    BY <1>1, FatalNext
  <1> QED
    BY <1>2, <1>3, FatalInit, TypeCorrect, PTL DEF Spec

-----------------------------------------------------------------------------
(* An object that is connected at most once, whatever its owner does.      *)
(* Until ConnectStore no thread is past the checks of connected; after     *)
(* SdStore the object stays down.                                          *)

NotYetUp == sessions = 0 \/ pcO = "connecting"

PastStore == {"shut", "close", "zero", "await", "block", "asleep", "notify", "clear"}

OneSessionInv ==
  /\ NotYetUp => /\ ~connected
                 /\ pcL \in {"none", "top", "snap", "wait", "block", "asleep", "ready",
                          "returned"}
                 /\ pcL = "ready" => terminate_listener
                 /\ receivedData = <<>>
                 /\ \A t \in Threads : sd[t] \in {"none", "check"}
                 /\ \A n \in Session : ~shut[n]
  /\ pcO = "connecting" => sessions # 0
  /\ connected \/ pcO = "connecting" => socket_fd # 0 /\ fds[socket_fd] # 0
  /\ terminate_listener => pcO \in {"join", "dead"}
  /\ connected => /\ \A t \in Threads : sd[t] \notin PastStore
                  /\ \A n \in Session : ~shut[n]
                  /\ pcL # "console"
                  /\ receivedData \in Seq(Message)
                  /\ pcL \in {"wait", "block", "asleep", "ready", "busy", "compare"}
                       => receivedData = <<>> \/ prev_connection = socket_fd

(* What OneSessionInv is about; calls, handlers and the peer leave it alone. *)
oneVars == <<connected, terminate_listener, socket_fd, pcL, prev_connection, receivedData,
             pcO, sd, fds, sessions, shut>>

LEMMA OneStutter == ASSUME OneSessionInv, UNCHANGED oneVars PROVE OneSessionInv'
  BY DEF OneSessionInv, NotYetUp, oneVars

LEMMA OneShutdown ==
  ASSUME MaxSessions <= 1, TypeOK, ShutdownInv, OneSessionInv, NEW t \in Threads, Shutdown(t)
  PROVE  OneSessionInv'
  <1> USE SocketAssumption, ConnectionAssumption
         DEF OneSessionInv, NotYetUp, PastStore, TypeOK, SockTypeOK, FieldTypes, OwnerTypes,
             Threads, Session, SocketOf
  <1>1. CASE SdCheck(t)
    BY <1>1 DEF SdCheck, SdThrows, Die, ShutdownInv
  <1>2. CASE SdStore(t)
    BY <1>2 DEF SdStore, NotifyListener
  <1>3. CASE SdShut(t)
    BY <1>3 DEF SdShut, SocketShutdown
  <1>4. CASE SdClose(t)
    BY <1>4 DEF SdClose, SocketClose, CloseFails
  <1>5. CASE SdCloseFails(t)
    BY <1>5 DEF SdCloseFails, SdThrows, Die, ShutdownInv
  <1>6. CASE SdZero(t)
    BY <1>6 DEF SdZero
  <1>7. CASE SdAwait(t)
    BY <1>7 DEF SdAwait
  <1>8. CASE SdBlock(t)
    BY <1>8 DEF SdBlock
  <1>9. CASE SdNotify(t)
    BY <1>9 DEF SdNotify, NotifyCalls
  <1>10. CASE SdClear(t)
    BY <1>10 DEF SdClear
  <1> QED
    BY <1>1, <1>2, <1>3, <1>4, <1>5, <1>6, <1>7, <1>8, <1>9, <1>10 DEF Shutdown

LEMMA OneOwner ==
  ASSUME MaxSessions <= 1, TypeOK, ShutdownInv, OneSessionInv, Owner
  PROVE  OneSessionInv'
  <1> USE SocketAssumption, ConnectionAssumption
         DEF OneSessionInv, NotYetUp, PastStore, TypeOK, SockTypeOK, FieldTypes, OwnerTypes,
             Threads, Session, SocketOf
  <1>1. ASSUME NEW f \in Fds, Connect(f) PROVE OneSessionInv'
    BY <1>1 DEF Connect, SocketOpen
  <1>2. ASSUME NEW f \in Fds, ConnectFails(f) PROVE OneSessionInv'
    BY <1>2 DEF ConnectFails, SocketLeak
  <1>3. ASSUME NEW d \in BOOLEAN, ConnectStore(d) PROVE OneSessionInv'
    BY <1>3 DEF ConnectStore
  <1>4. CASE InvokeDeferred
    BY <1>4 DEF InvokeDeferred
  <1>5. CASE StartListener
    BY <1>5 DEF StartListener, NotifyListener
  <1>6. ASSUME NEW m \in Methods, AddMethod(m) \/ RemoveMethod(m) PROVE OneSessionInv'
    BY <1>6 DEF AddMethod, RemoveMethod, SetMethods
  <1>7. CASE BeginShutdown
    BY <1>7 DEF BeginShutdown
  <1>8. CASE BeginReset
    BY <1>8 DEF BeginReset
  <1>9. CASE BeginDestroy
    BY <1>9 DEF BeginDestroy
  <1>10. CASE Shutdown("owner")
    BY <1>10, OneShutdown DEF Threads
  <1>11. CASE ClearMethods
    BY <1>11 DEF ClearMethods
  <1>12. CASE Terminate
    BY <1>12 DEF Terminate, NotifyListener
  <1>13. CASE Join
    BY <1>13 DEF Join
  <1> QED
    BY <1>1, <1>2, <1>3, <1>4, <1>5, <1>6, <1>7, <1>8, <1>9, <1>10, <1>11, <1>12,
       <1>13 DEF Owner

LEMMA DeliverSplits ==
  ASSUME NEW held, Deliver(held)
  PROVE  /\ receivedData' \in {Tail(held), <<>>}
         /\ adding' = IF Head(held).type = "RES" THEN adding \cup {Head(held)} ELSE adding
  <1>1. CASE Head(held) = Line
    <2>1. Head(held).type = "LINE"
      BY <1>1 DEF Line
    <2>2. receivedData' = <<>> /\ UNCHANGED adding
      BY <1>1 DEF Deliver
    <2> QED
      BY <2>1, <2>2
  <1>2. CASE Head(held) # Line
    <2>1. receivedData' = Tail(held) /\ Dispatch(Head(held))
      BY <1>2 DEF Deliver
    <2> QED
      BY <2>1 DEF Dispatch
  <1> QED
    BY <1>1, <1>2

LEMMA MessageIsNoLine == Line \notin Message
  BY DEF Line, Message

LEMMA OneData ==
  ASSUME TypeOK, ListenerData, receivedData \in Seq(Message)
  PROVE  receivedData' \in Seq(Message)
  <1>1. PICK k \in 1..Len(inbox[reading]) :
          Deliver(receivedData \o SubSeq(inbox[reading], 1, k))
    BY DEF ListenerData
  <1>2. inbox[reading] \in Seq(Message)
    BY DEF TypeOK, SockTypeOK, ListenerTypes, ListenerData
  <1>3. Tail(receivedData \o SubSeq(inbox[reading], 1, k)) \in Seq(Message)
    BY <1>2, ReadTypes
  <1> QED
    BY <1>1, <1>3, DeliverSplits, EmptySeq

LEMMA OneListener ==
  ASSUME MaxSessions <= 1, TypeOK, ShutdownInv, OneSessionInv, Listener
  PROVE  OneSessionInv'
  <1> USE SocketAssumption, ConnectionAssumption
         DEF OneSessionInv, NotYetUp, PastStore, TypeOK, SockTypeOK, FieldTypes, OwnerTypes,
             Threads, Session, SocketOf
  <1>1. CASE ListenerTop
    BY <1>1 DEF ListenerTop, NotifyIdleable
  <1>2. CASE ListenerSnap
    BY <1>2 DEF ListenerSnap
  <1>3. CASE ListenerWait
    BY <1>3 DEF ListenerWait
  <1>4. CASE ListenerBlock
    BY <1>4 DEF ListenerBlock
  <1>5. CASE ListenerReady
    BY <1>5 DEF ListenerReady
  <1>6. CASE ListenerBusy
    BY <1>6 DEF ListenerBusy
  <1>7. CASE ListenerCompare
    BY <1>7 DEF ListenerCompare
  <1>8. CASE ListenerReceive
    BY <1>8 DEF ListenerReceive
  <1>9. CASE ListenerData
    <2>1. connected => receivedData' \in Seq(Message)
      BY <1>9, OneData
    <2>2. /\ UNCHANGED <<connected, terminate_listener, socket_fd, prev_connection, pcO, sd, fds,
                         sessions, shut>>
          /\ pcL = "read" /\ pcL' = "top"
      BY <1>9 DEF ListenerData, TakeFromInbox
    <2> QED
      BY <2>1, <2>2
  <1>10. CASE ListenerError
    BY <1>10 DEF ListenerError, ReportReset, ReadReturnsError
  <1>11. CASE ListenerEnd
    BY <1>11 DEF ListenerEnd, StreamEnds, ReadReturnsEnd
  <1>12. CASE ListenerConsole
    BY <1>12 DEF ListenerConsole, StreamEnds
  <1>13. CASE Shutdown("listener")
    BY <1>13, OneShutdown DEF Threads
  <1> QED
    BY <1>1, <1>2, <1>3, <1>4, <1>5, <1>6, <1>7, <1>8, <1>9, <1>10, <1>11, <1>12,
       <1>13 DEF Listener, ListenerRuns


LEMMA OneElsewhere ==
  ASSUME Handler \/ Peer \/ \E c \in Calls : SendRequest(c) \/ Call(c)
  PROVE  UNCHANGED oneVars
  <1> USE DEF oneVars
  <1>1. ASSUME NEW c \in Calls, SendRequest(c) \/ Call(c) PROVE UNCHANGED oneVars
    BY <1>1 DEF SendRequest, Call, CallSend, CallTestConnected, CallTestReceived, CallBlock,
                CallWoke, CallRead
  <1>2. CASE Handler
    BY <1>2 DEF Handler, ResponseHandler, AddResponse, NotifyResponse, HandlerAfterDestroy, Die,
                RequestHandler, RequestLookup, RequestInvoke, RequestReply, RequestSend
  <1>3. CASE Peer
    BY <1>3 DEF Peer, PeerReply, PeerRequest, PeerLeaves, PeerCloses, PeerResets, Arrive
  <1> QED
    BY <1>1, <1>2, <1>3

LEMMA OneWakeup == ASSUME TypeOK, OneSessionInv, SpuriousWakeup PROVE OneSessionInv'
  BY DEF SpuriousWakeup, OneSessionInv, NotYetUp, PastStore, TypeOK, OwnerTypes, Threads

LEMMA OneInit == Init => OneSessionInv
  BY DEF Init, SockInit, OneSessionInv, NotYetUp, PastStore, Threads

LEMMA OneNext ==
  MaxSessions <= 1 /\ TypeOK /\ ShutdownInv /\ OneSessionInv /\ [Next]_vars => OneSessionInv'
  <1> SUFFICES ASSUME MaxSessions <= 1, TypeOK, ShutdownInv, OneSessionInv, [Next]_vars
               PROVE  OneSessionInv'
    OBVIOUS
  <1>1. CASE UNCHANGED vars
    BY <1>1, OneStutter DEF oneVars
  <1> QED
    BY <1>1, OneOwner, OneListener, OneElsewhere, OneStutter, OneWakeup DEF Next

(* With an owner that keeps the object up, the listener alone takes it     *)
(* down, and not while it reads; so socket_fd names a socket whenever it   *)
(* is read from or closed.                                                 *)
ConsoleInv ==
  /\ sd["owner"] = "none"
  /\ pcL \in {"busy", "compare", "receive", "read"} => connected
  /\ pcL = "ready" => connected \/ terminate_listener
  /\ sd["listener"] \in {"store", "shut", "close"} => socket_fd # 0
  /\ ConsoleUntouched

LEMMA ConsoleStutter == ASSUME ConsoleInv, UNCHANGED <<oneVars, stdin>> PROVE ConsoleInv'
  BY DEF ConsoleInv, ConsoleUntouched, oneVars

LEMMA ConsoleShutdown ==
  ASSUME OwnerKeepsUp, MaxSessions <= 1, TypeOK, ShutdownInv, OneSessionInv, ConsoleInv,
         NEW t \in Threads, Shutdown(t)
  PROVE  ConsoleInv'
  <1> USE SocketAssumption, ConnectionAssumption
         DEF OwnerKeepsUp, ConsoleInv, ConsoleUntouched, OneSessionInv, NotYetUp, PastStore,
             TypeOK, SockTypeOK, FieldTypes, OwnerTypes, Threads, Session, SocketOf
  <1>1. CASE SdCheck(t)
    BY <1>1 DEF SdCheck, SdThrows, Die
  <1>2. CASE SdStore(t)
    BY <1>2 DEF SdStore, NotifyListener, ShutdownInv
  <1>3. CASE SdShut(t)
    BY <1>3 DEF SdShut, SocketShutdown
  <1>4. CASE SdClose(t)
    BY <1>4 DEF SdClose, SocketClose, CloseFails
  <1>5. CASE SdCloseFails(t)
    BY <1>5 DEF SdCloseFails, SdThrows, Die
  <1>6. CASE SdZero(t)
    BY <1>6 DEF SdZero
  <1>7. CASE SdAwait(t)
    BY <1>7 DEF SdAwait
  <1>8. CASE SdBlock(t)
    BY <1>8 DEF SdBlock
  <1>9. CASE SdNotify(t)
    BY <1>9 DEF SdNotify, NotifyCalls
  <1>10. CASE SdClear(t)
    BY <1>10 DEF SdClear
  <1> QED
    BY <1>1, <1>2, <1>3, <1>4, <1>5, <1>6, <1>7, <1>8, <1>9, <1>10 DEF Shutdown

LEMMA ConsoleOwner ==
  ASSUME OwnerKeepsUp, MaxSessions <= 1, TypeOK, ShutdownInv, OneSessionInv, ConsoleInv, Owner
  PROVE  ConsoleInv'
  <1> USE SocketAssumption, ConnectionAssumption
         DEF OwnerKeepsUp, ConsoleInv, ConsoleUntouched, OneSessionInv, NotYetUp, PastStore,
             TypeOK, SockTypeOK, FieldTypes, OwnerTypes, Threads, Session, SocketOf
  <1>1. ASSUME NEW f \in Fds, Connect(f) PROVE ConsoleInv'
    BY <1>1 DEF Connect, SocketOpen
  <1>2. ASSUME NEW f \in Fds, ConnectFails(f) PROVE ConsoleInv'
    BY <1>2 DEF ConnectFails, SocketLeak
  <1>3. ASSUME NEW d \in BOOLEAN, ConnectStore(d) PROVE ConsoleInv'
    BY <1>3 DEF ConnectStore
  <1>4. CASE InvokeDeferred
    BY <1>4 DEF InvokeDeferred
  <1>5. CASE StartListener
    BY <1>5 DEF StartListener, NotifyListener
  <1>6. ASSUME NEW m \in Methods, AddMethod(m) \/ RemoveMethod(m) PROVE ConsoleInv'
    BY <1>6 DEF AddMethod, RemoveMethod, SetMethods
  <1>7. CASE BeginShutdown
    BY <1>7 DEF BeginShutdown
  <1>8. CASE BeginReset
    BY <1>8 DEF BeginReset
  <1>9. CASE BeginDestroy
    BY <1>9 DEF BeginDestroy
  <1>10. CASE Shutdown("owner")
    BY <1>10, ConsoleShutdown DEF Threads
  <1>11. CASE ClearMethods
    BY <1>11 DEF ClearMethods
  <1>12. CASE Terminate
    BY <1>12 DEF Terminate, NotifyListener
  <1>13. CASE Join
    BY <1>13 DEF Join
  <1> QED
    BY <1>1, <1>2, <1>3, <1>4, <1>5, <1>6, <1>7, <1>8, <1>9, <1>10, <1>11, <1>12,
       <1>13 DEF Owner

LEMMA ConsoleListener ==
  ASSUME OwnerKeepsUp, MaxSessions <= 1, TypeOK, ShutdownInv, OneSessionInv, ConsoleInv,
         Listener
  PROVE  ConsoleInv'
  <1> USE SocketAssumption, ConnectionAssumption
         DEF OwnerKeepsUp, ConsoleInv, ConsoleUntouched, OneSessionInv, NotYetUp, PastStore,
             TypeOK, SockTypeOK, FieldTypes, OwnerTypes, Threads, Session, SocketOf
  <1>1. CASE ListenerTop
    BY <1>1 DEF ListenerTop, NotifyIdleable
  <1>2. CASE ListenerSnap
    BY <1>2 DEF ListenerSnap
  <1>3. CASE ListenerWait
    BY <1>3 DEF ListenerWait
  <1>4. CASE ListenerBlock
    BY <1>4 DEF ListenerBlock
  <1>5. CASE ListenerReady
    BY <1>5 DEF ListenerReady
  <1>6. CASE ListenerBusy
    BY <1>6 DEF ListenerBusy
  <1>7. CASE ListenerCompare
    BY <1>7 DEF ListenerCompare
  <1>8. CASE ListenerReceive
    BY <1>8 DEF ListenerReceive
  <1>9. CASE ListenerData
    BY <1>9 DEF ListenerData, TakeFromInbox, Deliver, Dispatch
  <1>10. CASE ListenerError
    BY <1>10 DEF ListenerError, ReportReset, ReadReturnsError
  <1>11. CASE ListenerEnd
    BY <1>11 DEF ListenerEnd, StreamEnds, ReadReturnsEnd
  <1>12. CASE ListenerConsole
    BY <1>12 DEF ListenerConsole, StreamEnds
  <1>13. CASE Shutdown("listener")
    BY <1>13, ConsoleShutdown DEF Threads
  <1> QED
    BY <1>1, <1>2, <1>3, <1>4, <1>5, <1>6, <1>7, <1>8, <1>9, <1>10, <1>11, <1>12,
       <1>13 DEF Listener, ListenerRuns


LEMMA ConsoleElsewhere ==
  ASSUME Handler \/ Peer \/ \E c \in Calls : SendRequest(c) \/ Call(c)
  PROVE  UNCHANGED stdin
  <1>1. ASSUME NEW c \in Calls, SendRequest(c) \/ Call(c) PROVE UNCHANGED stdin
    BY <1>1 DEF SendRequest, Call, CallSend, CallTestConnected, CallTestReceived, CallBlock,
                CallWoke, CallRead
  <1>2. CASE Handler
    BY <1>2 DEF Handler, ResponseHandler, AddResponse, NotifyResponse, HandlerAfterDestroy, Die,
                RequestHandler, RequestLookup, RequestInvoke, RequestReply, RequestSend
  <1>3. CASE Peer
    BY <1>3 DEF Peer, PeerReply, PeerRequest, PeerLeaves, PeerCloses, PeerResets, Arrive
  <1> QED
    BY <1>1, <1>2, <1>3

LEMMA ConsoleWakeup == ASSUME TypeOK, ConsoleInv, SpuriousWakeup PROVE ConsoleInv'
  BY DEF SpuriousWakeup, ConsoleInv, ConsoleUntouched, TypeOK, OwnerTypes, Threads

LEMMA ConsoleInit == Init => ConsoleInv
  BY DEF Init, SockInit, ConsoleInv, ConsoleUntouched, Threads

LEMMA ConsoleNext ==
  OwnerKeepsUp /\ MaxSessions <= 1 /\ TypeOK /\ ShutdownInv /\ OneSessionInv /\ ConsoleInv
    /\ [Next]_vars => ConsoleInv'
  <1> SUFFICES ASSUME OwnerKeepsUp, MaxSessions <= 1, TypeOK, ShutdownInv, OneSessionInv,
                      ConsoleInv, [Next]_vars
               PROVE  ConsoleInv'
    OBVIOUS
  <1>1. CASE UNCHANGED vars
    BY <1>1, ConsoleStutter DEF oneVars
  <1>2. CASE Handler \/ Peer \/ \E c \in Calls : SendRequest(c) \/ Call(c)
    BY <1>2, OneElsewhere, ConsoleElsewhere, ConsoleStutter
  <1> QED
    BY <1>1, <1>2, ConsoleOwner, ConsoleListener, ConsoleWakeup DEF Next

(* An object that is connected once, by an owner that does not take it     *)
(* down, neither reads nor closes descriptor 0, though socket_fd is 0      *)
(* while there is no socket: the listener reads and closes only what it    *)
(* found connected.                                                        *)
THEOREM ConsoleLeftAlone ==
  ASSUME MaxSessions <= 1, OwnerOps \cap {"shutdown", "reset", "destroy"} = {}
  PROVE  Spec => []ConsoleUntouched
  <1>1. ConsoleInv => ConsoleUntouched
    BY DEF ConsoleInv
  <1>2. /\ TypeOK /\ ShutdownInv /\ OneSessionInv /\ [Next]_vars => OneSessionInv'
        /\ TypeOK /\ ShutdownInv /\ OneSessionInv /\ ConsoleInv /\ [Next]_vars => ConsoleInv'
    BY OneNext, ConsoleNext DEF OwnerKeepsUp
  <1> QED
    BY <1>1, <1>2, OneInit, ConsoleInit, ShutdownInvInit, ShutdownInvNext, TypeCorrect,
       PTL DEF Spec

-----------------------------------------------------------------------------
(* What becomes of a call.                                                 *)

USE DEF vars, fieldVars, listenerVars, ownerVars, callVars, handlerVars, sockVars

(* No two calls were made with the same request object.                    *)
IdsDiffer == \A c, d \in Calls : rid[c] = rid[d] => c = d

(* Calls of __send_request__ that hold response_cv_mutex.                  *)
Inside == {"test", "block", "woke", "read"}

(* A call without a cause to report an error finds the connection up and,  *)
(* once it has seen its answer, finds the answer there still: only calls   *)
(* that hold the mutex take answers, and a shutdown() that is about to     *)
(* clear the queue has broken every call whose answer may be in it.        *)
ErrorInv ==
  /\ ~connected => \A c \in Calls : Pending(c) => broken[c]
  /\ sd["owner"] \in PastStore => ~connected
  /\ \A c, d \in Calls : call[c] \in Inside /\ call[d] \in Inside => c = d
  /\ \A c \in Calls : call[c] \in {"woke", "read"} => broken[c] \/ Received(c)
  /\ \A c \in Calls : call[c] \in {"new", "send"} => via[c] = 0
  /\ \A c \in answered : via[c] # 0
  /\ sd["listener"] \in PastStore
       => \A c \in Calls : Pending(c) /\ ~broken[c]
                             => \A m \in adding \cup response_queue : ~Answers(m, c)
  /\ NoFalseError

LEMMA ErrorShutdown ==
  ASSUME TypeOK, ShutdownInv, ErrorInv, NEW t \in Threads, Shutdown(t)
  PROVE  ErrorInv'
  <1> USE SocketAssumption, ConnectionAssumption
         DEF ErrorInv, NoFalseError, Inside, Pending, Received, Answers, PastStore, TypeOK,
             OwnerTypes, CallTypes, Threads
  <1>1. CASE SdCheck(t)
    BY <1>1 DEF SdCheck, SdThrows, Die
  <1>2. CASE SdStore(t)
    BY <1>2 DEF SdStore, NotifyListener
  <1>3. CASE SdShut(t)
    BY <1>3 DEF SdShut, SocketShutdown
  <1>4. CASE SdClose(t)
    BY <1>4 DEF SdClose, SocketClose, CloseFails
  <1>5. CASE SdCloseFails(t)
    BY <1>5 DEF SdCloseFails, SdThrows, Die
  <1>6. CASE SdZero(t)
    BY <1>6 DEF SdZero
  <1>7. CASE SdAwait(t)
    BY <1>7 DEF SdAwait
  <1>8. CASE SdBlock(t)
    BY <1>8 DEF SdBlock
  <1>9. CASE SdNotify(t)
    BY <1>9 DEF SdNotify, NotifyCalls
  <1>10. CASE SdClear(t)
    BY <1>10 DEF SdClear
  <1> QED
    BY <1>1, <1>2, <1>3, <1>4, <1>5, <1>6, <1>7, <1>8, <1>9, <1>10 DEF Shutdown

LEMMA ErrorOwner ==
  ASSUME TypeOK, ShutdownInv, ErrorInv, Owner
  PROVE  ErrorInv'
  <1> USE SocketAssumption, ConnectionAssumption
         DEF ErrorInv, NoFalseError, Inside, Pending, Received, Answers, PastStore, TypeOK,
             OwnerTypes, CallTypes, Threads
  <1>1. ASSUME NEW f \in Fds, Connect(f) PROVE ErrorInv'
    BY <1>1 DEF Connect, SocketOpen
  <1>2. ASSUME NEW f \in Fds, ConnectFails(f) PROVE ErrorInv'
    BY <1>2 DEF ConnectFails, SocketLeak
  <1>3. ASSUME NEW d \in BOOLEAN, ConnectStore(d) PROVE ErrorInv'
    BY <1>3 DEF ConnectStore, ShutdownInv
  <1>4. CASE InvokeDeferred
    BY <1>4 DEF InvokeDeferred
  <1>5. CASE StartListener
    BY <1>5 DEF StartListener, NotifyListener
  <1>6. ASSUME NEW m \in Methods, AddMethod(m) \/ RemoveMethod(m) PROVE ErrorInv'
    BY <1>6 DEF AddMethod, RemoveMethod, SetMethods
  <1>7. CASE BeginShutdown
    BY <1>7 DEF BeginShutdown
  <1>8. CASE BeginReset
    BY <1>8 DEF BeginReset
  <1>9. CASE BeginDestroy
    BY <1>9 DEF BeginDestroy
  <1>10. CASE Shutdown("owner")
    BY <1>10, ErrorShutdown DEF Threads
  <1>11. CASE ClearMethods
    BY <1>11 DEF ClearMethods
  <1>12. CASE Terminate
    BY <1>12 DEF Terminate, NotifyListener
  <1>13. CASE Join
    BY <1>13 DEF Join
  <1> QED
    BY <1>1, <1>2, <1>3, <1>4, <1>5, <1>6, <1>7, <1>8, <1>9, <1>10, <1>11, <1>12,
       <1>13 DEF Owner

LEMMA ErrorListener ==
  ASSUME TypeOK, ShutdownInv, ErrorInv, Listener
  PROVE  ErrorInv'
  <1> USE SocketAssumption, ConnectionAssumption
         DEF ErrorInv, NoFalseError, Inside, Pending, Received, Answers, PastStore, TypeOK,
             OwnerTypes, CallTypes, Threads
  <1>1. CASE ListenerTop
    BY <1>1 DEF ListenerTop, NotifyIdleable
  <1>2. CASE ListenerSnap
    BY <1>2 DEF ListenerSnap
  <1>3. CASE ListenerWait
    BY <1>3 DEF ListenerWait
  <1>4. CASE ListenerBlock
    BY <1>4 DEF ListenerBlock
  <1>5. CASE ListenerReady
    BY <1>5 DEF ListenerReady
  <1>6. CASE ListenerBusy
    BY <1>6 DEF ListenerBusy
  <1>7. CASE ListenerCompare
    BY <1>7 DEF ListenerCompare
  <1>8. CASE ListenerReceive
    BY <1>8 DEF ListenerReceive
  <1>9. CASE ListenerData
    BY <1>9 DEF ListenerData, ShutdownInv
  <1>10. CASE ListenerError
    BY <1>10 DEF ListenerError, ReportReset, ReadReturnsError
  <1>11. CASE ListenerEnd
    BY <1>11 DEF ListenerEnd, StreamEnds, ReadReturnsEnd
  <1>12. CASE ListenerConsole
    <2>1. sd["listener"] = "none"
      BY <1>12 DEF ListenerConsole, ShutdownInv
    <2>2. UNCHANGED <<connected, socket_fd, response_queue, callVars>>
          /\ sd'["owner"] = sd["owner"] /\ sd'["listener"] \in {"none", "check"}
      BY <1>12, <2>1 DEF ListenerConsole, StreamEnds
    <2> QED
      BY <2>2
  <1>13. CASE Shutdown("listener")
    BY <1>13, ErrorShutdown DEF Threads
  <1> QED
    BY <1>1, <1>2, <1>3, <1>4, <1>5, <1>6, <1>7, <1>8, <1>9, <1>10, <1>11, <1>12,
       <1>13 DEF Listener, ListenerRuns

LEMMA ErrorCall ==
  ASSUME MaxSessions <= 1 => OneSessionInv, MaxSessions <= 1 \/ IdsDiffer, AnswersGenuine,
         TypeOK, ShutdownInv, ErrorInv, NEW c \in Calls, SendRequest(c) \/ Call(c)
  PROVE  ErrorInv'
  <1> USE SocketAssumption, ConnectionAssumption
         DEF ErrorInv, NoFalseError, Inside, Pending, Received, Answers, PastStore, TypeOK,
             OwnerTypes, CallTypes, Threads
  <1>1. CASE SendRequest(c)
    <2>1. c \notin answered
      BY <1>1 DEF SendRequest
    <2>2. ASSUME IdsDiffer, NEW m \in adding \cup response_queue, Answers(m, c) PROVE FALSE
      <3>1. m.of \in answered
        BY <2>2 DEF AnswersGenuine, Genuine
      <3>2. m.of = c
        BY <2>2, <3>1 DEF IdsDiffer
      <3> QED
        BY <2>1, <3>1, <3>2
    <2>3. ASSUME MaxSessions <= 1 PROVE sd["listener"] \notin PastStore
      BY <1>1, <2>3 DEF SendRequest, OneSessionInv
    <2> QED
      BY <1>1, <2>2, <2>3 DEF SendRequest
  <1>2. CASE CallSend(c)
    BY <1>2 DEF CallSend, Return
  <1>3. CASE CallTestConnected(c)
    BY <1>3 DEF CallTestConnected, MutexFree
  <1>4. CASE CallTestReceived(c)
    BY <1>4 DEF CallTestReceived
  <1>5. CASE CallBlock(c)
    BY <1>5 DEF CallBlock
  <1>6. CASE CallWoke(c)
    BY <1>6 DEF CallWoke, Return
  <1>7. CASE CallRead(c)
    <2>1. ASSUME NEW m \in response_queue, Answers(m, c), Return(c, m.of)
          PROVE  reply'[c] # NoReply
      BY <2>1, MessageParts DEF Return, FieldTypes
    <2>2. ASSUME ~Received(c) PROVE broken[c]
      BY <1>7, <2>2 DEF CallRead
    <2>3. response_queue' \subseteq response_queue
      BY <1>7 DEF CallRead
    <2>4. \A d \in Calls : call[d] \in {"woke", "read"} => d = c
      BY <1>7 DEF CallRead
    <2>5. /\ call' = [call EXCEPT ![c] = "returned"]
          /\ reply'[c] = NoReply => broken[c]
          /\ \A d \in Calls : d # c => reply'[d] = reply[d]
          /\ UNCHANGED <<connected, sd, via, answered, broken, rid, adding>>
      BY <1>7, <2>1, <2>2 DEF CallRead, Return
    <2> QED
      BY <2>3, <2>4, <2>5
  <1> QED
    BY <1>1, <1>2, <1>3, <1>4, <1>5, <1>6, <1>7 DEF Call

LEMMA ErrorHandler ==
  ASSUME TypeOK, ShutdownInv, ErrorInv, Handler
  PROVE  ErrorInv'
  <1> USE SocketAssumption, ConnectionAssumption
         DEF ErrorInv, NoFalseError, Inside, Pending, Received, Answers, PastStore, TypeOK,
             OwnerTypes, CallTypes, Threads
  <1>1. ASSUME NEW m \in adding \cup notifying, AddResponse(m) PROVE ErrorInv'
    BY <1>1 DEF AddResponse
  <1>2. ASSUME NEW m \in adding \cup notifying, NotifyResponse(m) PROVE ErrorInv'
    BY <1>2 DEF NotifyResponse, NotifyCalls
  <1>3. CASE HandlerAfterDestroy
    BY <1>3 DEF HandlerAfterDestroy, Die
  <1>4. ASSUME NEW r \in Requests, RequestLookup(r) PROVE ErrorInv'
    BY <1>4 DEF RequestLookup
  <1>5. ASSUME NEW r \in Requests, RequestInvoke(r) PROVE ErrorInv'
    BY <1>5 DEF RequestInvoke
  <1>6. ASSUME NEW r \in Requests, RequestReply(r) PROVE ErrorInv'
    BY <1>6 DEF RequestReply
  <1>7. ASSUME NEW r \in Requests, RequestSend(r) PROVE ErrorInv'
    BY <1>7 DEF RequestSend
  <1> QED
    BY <1>1, <1>2, <1>3, <1>4, <1>5, <1>6, <1>7 DEF Handler, ResponseHandler, RequestHandler

LEMMA ErrorPeer ==
  ASSUME TypeOK, ShutdownInv, ErrorInv, Peer
  PROVE  ErrorInv'
  <1> USE SocketAssumption, ConnectionAssumption
         DEF ErrorInv, NoFalseError, Inside, Pending, Received, Answers, PastStore, TypeOK,
             OwnerTypes, CallTypes, Threads
  <1>1. ASSUME NEW c \in Calls, PeerReply(c) PROVE ErrorInv'
    BY <1>1 DEF PeerReply, Arrive
  <1>2. ASSUME NEW n \in Session, PeerLeaves(n) PROVE ErrorInv'
    BY <1>2 DEF PeerLeaves, PeerCloses, PeerResets
  <1>3. ASSUME NEW r \in Requests, NEW n \in Session, PeerRequest(r, n) PROVE ErrorInv'
    BY <1>3 DEF PeerRequest, Arrive
  <1> QED
    BY <1>1, <1>2, <1>3 DEF Peer

LEMMA ErrorWakeup ==
  ASSUME TypeOK, ShutdownInv, ErrorInv, SpuriousWakeup
  PROVE  ErrorInv'
  <1> USE SocketAssumption, ConnectionAssumption
         DEF ErrorInv, NoFalseError, Inside, Pending, Received, Answers, PastStore, TypeOK,
             OwnerTypes, CallTypes, Threads
  <1>1. ASSUME pcL = "asleep", pcL' = "wait", UNCHANGED <<fieldVars, prev_connection,
               receivedData, reading, ownerVars, callVars, handlerVars, fate,
               sockVars>>
        PROVE  ErrorInv'
    BY <1>1
  <1>2. ASSUME NEW c \in Calls, call[c] = "asleep", call' = [call EXCEPT ![c] = "wait"],
               UNCHANGED <<fieldVars, listenerVars, ownerVars, rid, via, answered, reply,
               broken, handlerVars, fate, sockVars>>
        PROVE  ErrorInv'
    BY <1>2
  <1>3. ASSUME NEW t \in Threads, sd[t] = "asleep", sd' = [sd EXCEPT ![t] = "await"],
               UNCHANGED <<fieldVars, listenerVars, pcO, callVars, handlerVars, fate,
               sockVars>>
        PROVE  ErrorInv'
    BY <1>3
  <1> QED
    BY <1>1, <1>2, <1>3 DEF SpuriousWakeup

LEMMA ErrorInit == Init => ErrorInv
  BY DEF Init, ErrorInv, NoFalseError, Pending, Inside, PastStore, Threads

LEMMA ErrorStutter == ASSUME ErrorInv, UNCHANGED vars PROVE ErrorInv'
  BY DEF ErrorInv, NoFalseError, Pending, Received, Answers

LEMMA ErrorNext ==
  ASSUME MaxSessions <= 1 \/ IdsDiffer, MaxSessions <= 1 => OneSessionInv, TypeOK, ShutdownInv,
         AnswersGenuine, ErrorInv, [Next]_vars
  PROVE  ErrorInv'
  <1>1. CASE UNCHANGED vars
    BY <1>1, ErrorStutter
  <1> QED
    BY <1>1, ErrorOwner, ErrorListener, ErrorCall, ErrorHandler, ErrorPeer, ErrorWakeup DEF Next

(* The ids are chosen before the first step.                               *)
LEMMA RidConstant == ASSUME [Next]_vars PROVE rid' = rid
  <1>1. ASSUME NEW t \in Threads, Shutdown(t) PROVE rid' = rid
    BY <1>1 DEF Shutdown, SdCheck, SdStore, SdShut, SdClose, SdCloseFails, SdThrows, Die,
                SdZero, SdAwait, SdBlock, SdNotify, SdClear
  <1>2. CASE Owner
    BY <1>1, <1>2 DEF Owner, Threads, Connect, ConnectFails, ConnectStore, InvokeDeferred,
                      StartListener, AddMethod, RemoveMethod, SetMethods, BeginShutdown,
                      BeginReset, BeginDestroy, ClearMethods, Terminate, Join
  <1>3. CASE Listener
    BY <1>1, <1>3 DEF Listener, ListenerRuns, Threads, ListenerTop, ListenerSnap, ListenerWait, ListenerBlock,
                      ListenerReady, ListenerBusy, ListenerCompare, ListenerReceive,
                      ListenerData, ListenerError, ListenerEnd, ListenerConsole, StreamEnds
  <1>4. ASSUME NEW c \in Calls, SendRequest(c) \/ Call(c) PROVE rid' = rid
    BY <1>4 DEF SendRequest, Call, CallSend, CallTestConnected, CallTestReceived, CallBlock,
                CallWoke, CallRead
  <1>5. CASE Handler
    BY <1>5 DEF Handler, ResponseHandler, AddResponse, NotifyResponse, HandlerAfterDestroy, Die,
                RequestHandler, RequestLookup, RequestInvoke, RequestReply, RequestSend
  <1>6. CASE Peer \/ SpuriousWakeup \/ UNCHANGED vars
    BY <1>6 DEF Peer, PeerReply, PeerRequest, PeerLeaves, SpuriousWakeup
  <1> QED
    BY <1>2, <1>3, <1>4, <1>5, <1>6 DEF Next


(* connection_error has a cause: an object that is connected once reports  *)
(* it for a request only if the connection went down or the send failed    *)
(* while the call was pending, also when requests share an id and whatever *)
(* the owner and the threads woken for nothing do.                         *)
THEOREM ErrorsHaveCause == ASSUME MaxSessions <= 1 PROVE Spec => []NoFalseError
  <1>1. TypeOK /\ ShutdownInv /\ OneSessionInv /\ [Next]_vars => OneSessionInv'
    BY OneNext
  <1>2. TypeOK /\ ShutdownInv /\ OneSessionInv /\ AnswersGenuine /\ ErrorInv /\ [Next]_vars
          => ErrorInv'
    BY ErrorNext
  <1>3. ErrorInv => NoFalseError
    BY DEF ErrorInv
  <1> QED
    BY <1>1, <1>2, <1>3, OneInit, ErrorInit, ShutdownInvInit, ShutdownInvNext, GenuineInit,
       GenuineNext, TypeCorrect, PTL DEF Spec

(* The same over any number of reconnections, if no two requests share an  *)
(* id.  (If they do, a listener still in shutdown() of the old connection  *)
(* can clear the answer a call on the new one has just been woken for.)    *)
THEOREM ErrorsHaveCauseAcrossSessions == Spec /\ IdsDiffer => []NoFalseError
  <1> DEFINE One == MaxSessions <= 1 => OneSessionInv
  <1>1. Init => One
    BY OneInit
  <1>2. TypeOK /\ ShutdownInv /\ One /\ [Next]_vars => One'
    BY OneNext
  <1>3. IdsDiffer /\ [Next]_vars => IdsDiffer'
    BY RidConstant DEF IdsDiffer
  <1>4. TypeOK /\ ShutdownInv /\ One /\ AnswersGenuine /\ IdsDiffer /\ ErrorInv /\ [Next]_vars
          => ErrorInv'
    BY ErrorNext
  <1>5. ErrorInv => NoFalseError
    BY DEF ErrorInv
  <1> HIDE DEF One
  <1> QED
    BY <1>1, <1>2, <1>3, <1>4, <1>5, ErrorInit, ShutdownInvInit, ShutdownInvNext, GenuineInit,
       GenuineNext, TypeCorrect, PTL DEF Spec

-----------------------------------------------------------------------------
(* The answer to c is in a sequence of messages, and not twice.            *)
Has(s, c) == \E i \in DOMAIN s : IsAnswer(s[i], c)

AtMostOne(s, c) == \A i, j \in DOMAIN s : IsAnswer(s[i], c) /\ IsAnswer(s[j], c) => i = j

Fewer(s, t, c) == /\ Has(s, c) => Has(t, c)
                  /\ AtMostOne(t, c) => AtMostOne(s, c)

LEMMA FewerThan ==
  ASSUME NEW c, NEW T, NEW s \in Seq(T)
  PROVE  /\ Fewer(s, s, c)
         /\ Fewer(<<>>, s, c)
         /\ \A m \in T : ~IsAnswer(m, c) => Fewer(Append(s, m), s, c)
  BY DEF Fewer, Has, AtMostOne

LEMMA OneMore ==
  ASSUME NEW c, NEW T, NEW s \in Seq(T), NEW m \in T, ~Has(s, c)
  PROVE  AtMostOne(Append(s, m), c)
  BY DEF Has, AtMostOne

(* One read takes k messages from the stream s into the buffer h and       *)
(* dispatches the first: it keeps every answer and doubles none.           *)
LEMMA ReadSplits ==
  ASSUME NEW c, NEW T, NEW h \in Seq(T), NEW s \in Seq(T), NEW k \in 1..Len(s)
  PROVE  LET first == Head(h \o SubSeq(s, 1, k))
             held  == Tail(h \o SubSeq(s, 1, k))
             rest  == SubSeq(s, k + 1, Len(s))
         IN  /\ Has(h, c) \/ Has(s, c) <=> IsAnswer(first, c) \/ Has(held, c) \/ Has(rest, c)
             /\ AtMostOne(h, c) /\ AtMostOne(s, c) /\ ~(Has(h, c) /\ Has(s, c))
                  => /\ AtMostOne(held, c) /\ AtMostOne(rest, c)
                     /\ IsAnswer(first, c) => ~Has(held, c) /\ ~Has(rest, c)
                     /\ Has(held, c) => ~Has(rest, c)
  <1> DEFINE first == Head(h \o SubSeq(s, 1, k))
             held == Tail(h \o SubSeq(s, 1, k))
             rest == SubSeq(s, k + 1, Len(s))
  <1> DEFINE n == Len(h)
             W == [i \in 1..(n + Len(s)) |-> IF i <= n THEN h[i] ELSE s[i - n]]
  <1>1. n \in Nat /\ Len(s) \in Nat /\ k <= Len(s)
    OBVIOUS
  <1>2. /\ Len(h \o SubSeq(s, 1, k)) = n + k
        /\ \A i \in 1..(n + k) : (h \o SubSeq(s, 1, k))[i] = W[i]
    OBVIOUS
  <1>3. /\ first = W[1]
        /\ DOMAIN held = 1..(n + k - 1) /\ \A i \in 1..(n + k - 1) : held[i] = W[i + 1]
        /\ DOMAIN rest = 1..(Len(s) - k) /\ \A i \in 1..(Len(s) - k) : rest[i] = W[i + n + k]
        /\ DOMAIN h = 1..n /\ \A i \in 1..n : h[i] = W[i]
        /\ DOMAIN s = 1..Len(s) /\ \A i \in 1..Len(s) : s[i] = W[i + n]
    BY <1>1, <1>2
  <1> HIDE DEF W, n, first, held, rest
  <1> DEFINE N == n + Len(s)
  <1>4. /\ \A i \in DOMAIN h : i \in 1..N /\ W[i] = h[i]
        /\ \A i \in DOMAIN s : i + n \in 1..N /\ W[i + n] = s[i]
        /\ \A i \in 1..N : \/ i \in DOMAIN h /\ h[i] = W[i]
                           \/ i - n \in DOMAIN s /\ s[i - n] = W[i]
    BY <1>1, <1>3
  <1>5. /\ 1 \in 1..N /\ W[1] = first
        /\ \A i \in DOMAIN held : i + 1 \in 1..N /\ W[i + 1] = held[i]
        /\ \A i \in DOMAIN rest : i + n + k \in 1..N /\ W[i + n + k] = rest[i]
        /\ \A i \in 1..N : \/ i = 1
                           \/ i - 1 \in DOMAIN held /\ held[i - 1] = W[i]
                           \/ i - n - k \in DOMAIN rest /\ rest[i - n - k] = W[i]
    <2>1. 1 \in 1..N /\ W[1] = first
      BY <1>1, <1>3
    <2>2. ASSUME NEW i \in DOMAIN held PROVE i + 1 \in 1..N /\ W[i + 1] = held[i]
      <3>1. i \in 1..(n + k - 1) /\ held[i] = W[i + 1]
        BY <1>3
      <3> QED
        BY <1>1, <3>1
    <2>3. ASSUME NEW i \in DOMAIN rest PROVE i + n + k \in 1..N /\ W[i + n + k] = rest[i]
      <3>1. i \in 1..(Len(s) - k) /\ rest[i] = W[i + n + k]
        BY <1>3
      <3> QED
        BY <1>1, <3>1
    <2>4. ASSUME NEW i \in 1..N, i # 1, i <= n + k
          PROVE  i - 1 \in DOMAIN held /\ held[i - 1] = W[i]
      <3>1. i - 1 \in 1..(n + k - 1) /\ (i - 1) + 1 = i
        BY <1>1, <2>4
      <3> QED
        BY <1>3, <3>1
    <2>5. ASSUME NEW i \in 1..N, i > n + k
          PROVE  i - n - k \in DOMAIN rest /\ rest[i - n - k] = W[i]
      <3>1. i - n - k \in 1..(Len(s) - k) /\ (i - n - k) + n + k = i
        BY <1>1, <2>5
      <3> QED
        BY <1>3, <3>1
    <2> QED
      BY <1>1, <2>1, <2>2, <2>3, <2>4, <2>5
  <1>6. Has(h, c) \/ Has(s, c) <=> \E i \in 1..N : IsAnswer(W[i], c)
    BY <1>4 DEF Has
  <1>7. IsAnswer(first, c) \/ Has(held, c) \/ Has(rest, c) <=> \E i \in 1..N : IsAnswer(W[i], c)
    BY <1>5 DEF Has
  <1>8. ASSUME AtMostOne(h, c), AtMostOne(s, c), ~(Has(h, c) /\ Has(s, c)),
               NEW i \in 1..N, NEW j \in 1..N, IsAnswer(W[i], c), IsAnswer(W[j], c)
        PROVE  i = j
    <2>1. CASE i \in DOMAIN h /\ h[i] = W[i]
      <3>1. j \in DOMAIN h /\ h[j] = W[j]
        BY <1>4, <1>8, <2>1 DEF Has
      <3> QED
        BY <1>8, <2>1, <3>1 DEF AtMostOne
    <2>2. CASE i - n \in DOMAIN s /\ s[i - n] = W[i]
      <3>1. j - n \in DOMAIN s /\ s[j - n] = W[j]
        BY <1>4, <1>8, <2>2 DEF Has
      <3>2. i - n = j - n
        BY <1>8, <2>2, <3>1 DEF AtMostOne
      <3> QED
        BY <1>1, <3>2
    <2> QED
      BY <1>4, <2>1, <2>2
  <1>9. ASSUME \A i, j \in 1..N : IsAnswer(W[i], c) /\ IsAnswer(W[j], c) => i = j
        PROVE  /\ AtMostOne(held, c) /\ AtMostOne(rest, c)
               /\ IsAnswer(first, c) => ~Has(held, c) /\ ~Has(rest, c)
               /\ Has(held, c) => ~Has(rest, c)
    <2>1. AtMostOne(held, c)
      <3> SUFFICES ASSUME NEW i \in DOMAIN held, NEW j \in DOMAIN held,
                          IsAnswer(held[i], c), IsAnswer(held[j], c)
                   PROVE  i = j
        BY DEF AtMostOne
      <3>1. i + 1 = j + 1
        BY <1>5, <1>9
      <3> QED
        BY <1>1, <1>3, <3>1
    <2>2. AtMostOne(rest, c)
      <3> SUFFICES ASSUME NEW i \in DOMAIN rest, NEW j \in DOMAIN rest,
                          IsAnswer(rest[i], c), IsAnswer(rest[j], c)
                   PROVE  i = j
        BY DEF AtMostOne
      <3>1. i + n + k = j + n + k
        BY <1>5, <1>9
      <3> QED
        BY <1>1, <1>3, <3>1
    <2>3. ASSUME NEW i \in DOMAIN held, IsAnswer(first, c), IsAnswer(held[i], c) PROVE FALSE
      <3>1. 1 = i + 1
        BY <1>5, <1>9, <2>3
      <3> QED
        BY <1>1, <1>3, <3>1
    <2>4. ASSUME NEW i \in DOMAIN rest, IsAnswer(first, c), IsAnswer(rest[i], c) PROVE FALSE
      <3>1. 1 = i + n + k
        BY <1>5, <1>9, <2>4
      <3> QED
        BY <1>1, <1>3, <3>1
    <2>5. ASSUME NEW i \in DOMAIN held, NEW j \in DOMAIN rest,
                 IsAnswer(held[i], c), IsAnswer(rest[j], c)
          PROVE  FALSE
      <3>1. i + 1 = j + n + k
        BY <1>5, <1>9, <2>5
      <3> QED
        BY <1>1, <1>3, <3>1
    <2> QED
      BY <2>1, <2>2, <2>3, <2>4, <2>5 DEF Has
  <1>10. /\ Has(h, c) \/ Has(s, c) <=> IsAnswer(first, c) \/ Has(held, c) \/ Has(rest, c)
         /\ AtMostOne(h, c) /\ AtMostOne(s, c) /\ ~(Has(h, c) /\ Has(s, c))
              => /\ AtMostOne(held, c) /\ AtMostOne(rest, c)
                 /\ IsAnswer(first, c) => ~Has(held, c) /\ ~Has(rest, c)
                 /\ Has(held, c) => ~Has(rest, c)
    BY <1>6, <1>7, <1>8, <1>9
  <1> QED
    BY <1>10 DEF first, held, rest

(* What makes OneCopy inductive: an answer is not twice in the same place  *)
(* either.                                                                 *)
Handed(c) == \E d \in Calls : reply[d] = c

OnlyCopy(c) ==
  /\ \A n \in Session : AtMostOne(inbox[n], c)
  /\ \A n, k \in Session : Has(inbox[n], c) /\ Has(inbox[k], c) => n = k
  /\ AtMostOne(receivedData, c)
  /\ \A m, o \in adding : IsAnswer(m, c) /\ IsAnswer(o, c) => m = o
  /\ \A m, o \in response_queue : IsAnswer(m, c) /\ IsAnswer(o, c) => m = o
  /\ \A d, e \in Calls : reply[d] = c /\ reply[e] = c => d = e
  /\ (\E n \in Session : Has(inbox[n], c))
       => ~Has(receivedData, c) /\ ~InHandler(c) /\ ~InQueue(c) /\ ~Handed(c)
  /\ Has(receivedData, c) => ~InHandler(c) /\ ~InQueue(c) /\ ~Handed(c)
  /\ InHandler(c) => ~InQueue(c) /\ ~Handed(c)
  /\ InQueue(c) => ~Handed(c)

CopyInv == \A c \in Calls : OnlyCopy(c)

LEMMA CopyImplies == CopyInv => OneCopy
  BY DEF CopyInv, OnlyCopy, OneCopy, InKernel, InBuffer, Has, Taken, Handed

LEMMA CopyInit == Init => CopyInv
  BY ConnectionAssumption DEF Init, SockInit, CopyInv, OnlyCopy, AtMostOne, Has, InHandler,
                              InQueue, Handed

(* A step that moves no message and returns no answer makes no copies.     *)
LEMMA FewerCopies ==
  ASSUME NEW c \in Calls, OnlyCopy(c),
         \A n \in Session : Fewer(inbox'[n], inbox[n], c),
         Fewer(receivedData', receivedData, c),
         adding' \subseteq adding, response_queue' \subseteq response_queue,
         \A d \in Calls : reply'[d] = c => reply[d] = c
  PROVE  OnlyCopy(c)'
  BY DEF OnlyCopy, Fewer, InHandler, InQueue, Handed

LEMMA SameCopies ==
  ASSUME TypeOK, CopyInv, NEW c \in Calls, inbox' = inbox,
         receivedData' \in {receivedData, <<>>},
         adding' \subseteq adding, response_queue' \subseteq response_queue,
         \A d \in Calls : reply'[d] = c => reply[d] = c
  PROVE  OnlyCopy(c)'
  <1>1. \A n \in Session : Fewer(inbox'[n], inbox[n], c)
    BY FewerThan DEF TypeOK, SockTypeOK
  <1>2. Fewer(receivedData', receivedData, c)
    BY FewerThan DEF TypeOK, ListenerTypes
  <1> QED
    BY <1>1, <1>2, FewerCopies DEF CopyInv

LEMMA CopyShutdown == ASSUME TypeOK, CopyInv, NEW t \in Threads, Shutdown(t) PROVE CopyInv'
  <1>1. UNCHANGED <<inbox, receivedData, adding,
  reply>> /\ response_queue' \subseteq response_queue
    BY DEF Shutdown, SdCheck, SdStore, SdShut, SocketShutdown, SdClose, SocketClose,
           SdCloseFails, SdThrows, Die, SdZero, SdAwait, SdBlock, SdNotify, SdClear
  <1> QED
    BY <1>1, SameCopies DEF CopyInv

LEMMA CopyOwner == ASSUME TypeOK, CopyInv, Owner PROVE CopyInv'
  <1>1. CASE Shutdown("owner")
    BY <1>1, CopyShutdown DEF Threads
  <1>2. CASE ~Shutdown("owner")
    <2>1. UNCHANGED <<inbox, receivedData, adding, response_queue, reply>>
      BY <1>2 DEF Owner, Connect, SocketOpen, ConnectFails, SocketLeak, ConnectStore,
                  InvokeDeferred, StartListener, AddMethod, RemoveMethod, SetMethods,
                  BeginShutdown, BeginReset, BeginDestroy, ClearMethods, Terminate, Join
    <2> QED
      BY <2>1, SameCopies DEF CopyInv
  <1> QED
    BY <1>1, <1>2

LEMMA CopyData == ASSUME TypeOK, CopyInv, ListenerData, NEW c \in Calls PROVE OnlyCopy(c)'
  <1>1. PICK k \in 1..Len(inbox[reading]) :
          /\ TakeFromInbox(reading, k)
          /\ Deliver(receivedData \o SubSeq(inbox[reading], 1, k))
    BY DEF ListenerData
  <1>2. /\ reading \in Session /\ inbox \in [Session -> Seq(Message)]
        /\ inbox[reading] \in Seq(Message \cup {Line}) /\ receivedData \in Seq(Message \cup {Line})
    BY SeqMonotonic DEF TypeOK, SockTypeOK, ListenerTypes, ListenerData
  <1> DEFINE first == Head(receivedData \o SubSeq(inbox[reading], 1, k))
             held == Tail(receivedData \o SubSeq(inbox[reading], 1, k))
             rest == SubSeq(inbox[reading], k + 1, Len(inbox[reading]))
  <1>3. /\ inbox' = [inbox EXCEPT ![reading] = rest]
        /\ receivedData' \in {held, <<>>}
        /\ adding' = IF first.type = "RES" THEN adding \cup {first} ELSE adding
        /\ UNCHANGED <<response_queue, reply>>
    BY <1>1, DeliverSplits DEF TakeFromInbox, ListenerData
  <1>4. /\ Has(receivedData, c) \/ Has(inbox[reading], c)
             <=> IsAnswer(first, c) \/ Has(held, c) \/ Has(rest, c)
        /\ AtMostOne(receivedData, c) /\ AtMostOne(inbox[reading], c)
             /\ ~(Has(receivedData, c) /\ Has(inbox[reading], c))
             => /\ AtMostOne(held, c) /\ AtMostOne(rest, c)
                /\ IsAnswer(first, c) => ~Has(held, c) /\ ~Has(rest, c)
                /\ Has(held, c) => ~Has(rest, c)
    BY <1>2, ReadSplits
  <1>5. Fewer(receivedData', held, c)
    <2>1. held \in Seq(Message \cup {Line})
      BY <1>2, ReadTypes
    <2> QED
      BY <1>3, <2>1, FewerThan
  <1> HIDE DEF first, held, rest
  <1>6. inbox'[reading] = rest /\ \A n \in Session : n # reading => inbox'[n] = inbox[n]
    BY <1>2, <1>3
  <1>7. IsAnswer(first, c) => first.type = "RES"
    BY DEF IsAnswer
  <1>8. /\ Has(receivedData', c) => Has(held, c)
        /\ AtMostOne(held, c) => AtMostOne(receivedData', c)
    BY <1>5 DEF Fewer
  <1>9. CASE Has(receivedData, c) \/ Has(inbox[reading], c)
    BY <1>2, <1>3, <1>4, <1>6, <1>7, <1>8, <1>9 DEF CopyInv, OnlyCopy, InHandler, InQueue, Handed
  <1>10. CASE ~Has(receivedData, c) /\ ~Has(inbox[reading], c)
    BY <1>2, <1>3, <1>4, <1>6, <1>7, <1>8, <1>10 DEF CopyInv, OnlyCopy, InHandler, InQueue, Handed
  <1> QED
    BY <1>9, <1>10

(* A line typed at the console makes no copies, though it may have a       *)
(* message of the buffer dispatched.                                       *)
LEMMA CopyConsole == ASSUME TypeOK, CopyInv, ListenerConsole, NEW c \in Calls PROVE OnlyCopy(c)'
  <1>1. CASE Deliver(Append(receivedData, Line))
    <2> DEFINE lines == <<Line>>
               first == Head(receivedData \o SubSeq(lines, 1, 1))
               held == Tail(receivedData \o SubSeq(lines, 1, 1))
               rest == SubSeq(lines, 2, Len(lines))
    <2>1. /\ receivedData \in Seq(Message \cup {Line}) /\ lines \in Seq(Message \cup {Line})
          /\ Len(lines) = 1 /\ ~Has(lines, c) /\ AtMostOne(lines, c)
      BY DEF TypeOK, ListenerTypes, Has, AtMostOne, IsAnswer, Line
    <2>2. receivedData \o SubSeq(lines, 1, 1) = Append(receivedData, Line)
      BY <2>1
    <2>3. /\ receivedData' \in {held, <<>>}
          /\ adding' = IF first.type = "RES" THEN adding \cup {first} ELSE adding
          /\ UNCHANGED <<inbox, response_queue, reply>>
      BY <1>1, <2>2, DeliverSplits DEF ListenerConsole, StreamEnds
    <2>4. /\ IsAnswer(first, c) \/ Has(held, c) => Has(receivedData, c)
          /\ AtMostOne(receivedData, c)
               => AtMostOne(held, c) /\ (IsAnswer(first, c) => ~Has(held, c))
      <3> HIDE DEF lines
      <3>1. 1 \in 1..Len(lines) /\ 1 + 1 = 2
        BY <2>1
      <3> QED
        BY <2>1, <3>1, ReadSplits
    <2>5. held \in Seq(Message \cup {Line})
      <3> HIDE DEF lines
      <3>1. 1 \in 1..Len(lines)
        BY <2>1
      <3> QED
        BY <2>1, <3>1, ReadTypes
    <2> HIDE DEF lines, first, held, rest
    <2>6. /\ Has(receivedData', c) => Has(held, c)
          /\ AtMostOne(held, c) => AtMostOne(receivedData', c)
      BY <2>3, <2>5, FewerThan DEF Fewer
    <2>7. IsAnswer(first, c) => first.type = "RES"
      BY DEF IsAnswer
    <2>8. CASE Has(receivedData, c)
      BY <2>3, <2>4, <2>6, <2>7, <2>8 DEF CopyInv, OnlyCopy, InHandler, InQueue, Handed
    <2>9. CASE ~Has(receivedData, c)
      BY <2>3, <2>4, <2>6, <2>7, <2>9 DEF CopyInv, OnlyCopy, InHandler, InQueue, Handed
    <2> QED
      BY <2>8, <2>9
  <1>2. CASE receivedData' \in {<<>>, <<Line>>} /\ UNCHANGED adding
    <2>1. UNCHANGED <<inbox, response_queue, reply>>
      BY DEF ListenerConsole, StreamEnds
    <2>2. ~Has(receivedData', c) /\ AtMostOne(receivedData', c)
      BY <1>2 DEF Has, AtMostOne, IsAnswer, Line
    <2> QED
      BY <1>2, <2>1, <2>2 DEF CopyInv, OnlyCopy, InHandler, InQueue, Handed
  <1> QED
    BY <1>1, <1>2 DEF ListenerConsole, StreamEnds

LEMMA CopyListener == ASSUME TypeOK, CopyInv, Listener PROVE CopyInv'
  <1>1. CASE Shutdown("listener")
    BY <1>1, CopyShutdown DEF Threads
  <1>2. CASE ListenerData
    BY <1>2, CopyData DEF CopyInv
  <1>3. CASE ListenerConsole
    BY <1>3, CopyConsole DEF CopyInv
  <1>4. CASE ~Shutdown("listener") /\ ~ListenerData /\ ~ListenerConsole
    <2>1. receivedData' \in {receivedData, <<>>}
          /\ UNCHANGED <<inbox, adding, response_queue, reply>>
      BY <1>4 DEF Listener, ListenerRuns, ListenerTop, ListenerSnap, ListenerWait, ListenerBlock,
                  ListenerReady, ListenerBusy, ListenerCompare, ListenerReceive, ListenerError,
                  ReportReset, ListenerEnd, StreamEnds
    <2> QED
      BY <2>1, SameCopies DEF CopyInv
  <1> QED
    BY <1>1, <1>2, <1>3, <1>4

LEMMA CopyCall ==
  ASSUME TypeOK, CopyInv, NEW c \in Calls, SendRequest(c) \/ Call(c)
  PROVE  CopyInv'
  <1> SUFFICES ASSUME NEW d \in Calls PROVE OnlyCopy(d)'
    BY DEF CopyInv
  <1>1. CASE CallRead(c)
    <2>1. ASSUME NEW m \in response_queue, Return(c, m.of),
                 response_queue' = response_queue \ {m},
                 m.type = "RES"
          PROVE  OnlyCopy(d)'
      <3>1. reply' = [reply EXCEPT ![c] = m.of] /\ UNCHANGED <<inbox, receivedData, adding>>
        BY <1>1, <2>1 DEF CallRead, Return
      <3>2. OnlyCopy(d) /\ reply \in [Calls -> Calls \cup {NoReply}]
        BY DEF CopyInv, TypeOK, CallTypes
      <3>3. CASE m.of # d
        BY <2>1, <3>1, <3>2, <3>3, SameCopies
      <3>4. CASE m.of = d
        BY <2>1, <3>1, <3>2, <3>4 DEF OnlyCopy, InHandler, InQueue, Handed, IsAnswer
      <3> QED
        BY <3>3, <3>4
    <2>2. CASE Return(c, NoReply) /\ UNCHANGED response_queue
      <3>1. \A e \in Calls : reply'[e] = d => reply[e] = d
        BY <2>2, ConnectionAssumption DEF Return, TypeOK, CallTypes
      <3> QED
        BY <1>1, <2>2, <3>1, SameCopies DEF CallRead
    <2> QED
      BY <1>1, <2>1, <2>2 DEF CallRead, Answers
  <1>2. CASE ~CallRead(c)
    <2>1. /\ UNCHANGED <<inbox, receivedData, adding, response_queue>>
          /\ reply' \in {reply, [reply EXCEPT ![c] = NoReply]}
      BY <1>2 DEF SendRequest, Call, CallSend, CallTestConnected, CallTestReceived, CallBlock,
                  CallWoke, Return
    <2>2. \A e \in Calls : reply'[e] = d => reply[e] = d
      BY <2>1, ConnectionAssumption DEF TypeOK, CallTypes
    <2> QED
      BY <2>1, <2>2, SameCopies
  <1> QED
    BY <1>1, <1>2

LEMMA CopyHandler == ASSUME TypeOK, CopyInv, Handler PROVE CopyInv'
  <1>1. ASSUME NEW m \in adding \cup notifying, AddResponse(m),
               NEW c \in Calls PROVE OnlyCopy(c)'
    BY <1>1 DEF AddResponse, CopyInv, OnlyCopy, InHandler, InQueue, Handed
  <1>2. CASE \A m \in adding \cup notifying : ~AddResponse(m)
    <2>1. UNCHANGED <<inbox, receivedData, adding, response_queue, reply>>
      BY <1>2 DEF Handler, ResponseHandler, NotifyResponse, HandlerAfterDestroy, Die,
                  RequestHandler, RequestLookup, RequestInvoke, RequestReply, RequestSend
    <2> QED
      BY <2>1, SameCopies DEF CopyInv
  <1> QED
    BY <1>1, <1>2 DEF CopyInv

(* Nothing on this side answers a call the peer has not answered.          *)
LEMMA NoneBefore ==
  ASSUME TypeOK, AnswersGenuine, NEW c \in Calls, c \notin answered
  PROVE  /\ \A n \in Session : ~Has(inbox[n], c)
         /\ ~Has(receivedData, c) /\ ~InHandler(c) /\ ~InQueue(c) /\ ~Handed(c)
  <1>1. ASSUME NEW m \in Genuine PROVE ~IsAnswer(m, c)
    BY DEF Genuine, IsAnswer
  <1>2. /\ \A s \in Seq(Genuine) : ~Has(s, c)
        /\ \A s \in Seq(Genuine \cup {Line}) : ~Has(s, c)
    BY <1>1 DEF Has, IsAnswer, Line
  <1>3. ~Handed(c)
    BY ConnectionAssumption DEF Handed, AnswersGenuine, ReplyMatchesCall
  <1> QED
    BY <1>1, <1>2, <1>3 DEF AnswersGenuine, InHandler, InQueue

LEMMA CopyPeer == ASSUME TypeOK, AnswersGenuine, CopyInv, Peer PROVE CopyInv'
  <1> SUFFICES ASSUME NEW d \in Calls PROVE OnlyCopy(d)'
    BY DEF CopyInv
  <1>1. inbox \in [Session -> Seq(Message)] /\ OnlyCopy(d)
    BY DEF TypeOK, SockTypeOK, CopyInv
  <1>2. Fewer(receivedData, receivedData, d)
    BY FewerThan DEF TypeOK, ListenerTypes
  <1>3. ASSUME NEW n \in Session, NEW m \in Message, Arrive(n, m), ~IsAnswer(m, d),
               UNCHANGED <<receivedData, adding, response_queue, reply>>
        PROVE  OnlyCopy(d)'
    <2>1. ASSUME NEW k \in Session PROVE Fewer(inbox'[k], inbox[k], d)
      <3>1. inbox'[k] \in {inbox[k], Append(inbox[k], m)}
        BY <1>1, <1>3 DEF Arrive
      <3>2. /\ Fewer(inbox[k], inbox[k], d)
            /\ Fewer(Append(inbox[k], m), inbox[k], d)
        BY <1>1, <1>3, FewerThan
      <3> QED
        BY <3>1, <3>2
    <2> QED
      BY <1>1, <1>2, <1>3, <2>1, FewerCopies
  <1>4. ASSUME NEW c \in Calls, PeerReply(c) PROVE OnlyCopy(d)'
    <2> DEFINE m == [type |-> "RES", of |-> c, session |-> via[c]]
    <2>1. /\ via[c] \in Session /\ m \in Message /\ Arrive(via[c], m)
          /\ UNCHANGED <<receivedData, adding, response_queue, reply>>
      BY <1>4 DEF PeerReply, TypeOK, CallTypes, Session, Message
    <2>2. CASE c # d
      <3>1. ~IsAnswer(m, d)
        BY <2>2 DEF IsAnswer
      <3> HIDE DEF m
      <3> QED
        BY <1>3, <2>1, <3>1
    <2>3. CASE c = d
      <3>1. d \notin answered
        BY <1>4, <2>3 DEF PeerReply
      <3> HIDE DEF m
      <3>2. /\ \A n \in Session : ~Has(inbox[n], d)
            /\ ~Has(receivedData, d) /\ ~InHandler(d) /\ ~InQueue(d) /\ ~Handed(d)
        BY <3>1, NoneBefore
      <3>3. AtMostOne(Append(inbox[via[c]], m), d)
        BY <1>1, <2>1, <3>2, OneMore
      <3>4. /\ \A n \in Session : n # via[c] => inbox'[n] = inbox[n]
            /\ inbox'[via[c]] \in {inbox[via[c]], Append(inbox[via[c]], m)}
        BY <1>1, <2>1 DEF Arrive
      <3> QED
        BY <1>1, <2>1, <3>2, <3>3, <3>4 DEF OnlyCopy, InHandler, InQueue, Handed
    <2> QED
      BY <2>2, <2>3
  <1>5. ASSUME NEW r \in Requests, NEW n \in Session, PeerRequest(r, n) PROVE OnlyCopy(d)'
    <2> DEFINE m == [type |-> "REQ", of |-> r, session |-> n]
    <2>1. /\ m \in Message /\ Arrive(n, m) /\ ~IsAnswer(m, d)
          /\ UNCHANGED <<receivedData, adding, response_queue, reply>>
      BY <1>5 DEF PeerRequest, Message, IsAnswer
    <2> HIDE DEF m
    <2> QED
      BY <1>3, <2>1
  <1>6. ASSUME NEW n \in Session, PeerLeaves(n) PROVE OnlyCopy(d)'
    <2>1. /\ inbox' \in {inbox, [inbox EXCEPT ![n] = <<>>]}
          /\ UNCHANGED <<receivedData, adding, response_queue, reply>>
      BY <1>6 DEF PeerLeaves, PeerCloses, PeerResets
    <2>2. ASSUME NEW k \in Session PROVE Fewer(inbox'[k], inbox[k], d)
      <3>1. inbox'[k] \in {inbox[k], <<>>}
        BY <1>1, <2>1
      <3> QED
        BY <1>1, <3>1, FewerThan
    <2> QED
      BY <1>1, <1>2, <2>1, <2>2, FewerCopies
  <1> QED
    BY <1>4, <1>5, <1>6 DEF Peer

LEMMA CopyNext == TypeOK /\ AnswersGenuine /\ CopyInv /\ [Next]_vars => CopyInv'
  <1> SUFFICES ASSUME TypeOK, AnswersGenuine, CopyInv, [Next]_vars PROVE CopyInv'
    OBVIOUS
  <1>1. CASE SpuriousWakeup \/ UNCHANGED vars
    <2>1. UNCHANGED <<inbox, receivedData, adding, response_queue, reply>>
      BY <1>1 DEF SpuriousWakeup
    <2> QED
      BY <2>1, SameCopies DEF CopyInv
  <1> QED
    BY <1>1, CopyOwner, CopyListener, CopyCall, CopyHandler, CopyPeer DEF Next

(* An answer of the peer is handed out at most once, to one call, and is   *)
(* never in two places, for any number of calls, shared ids, shutdowns and *)
(* reconnections.                                                          *)
THEOREM AnswerNotDoubled == Spec => []OneCopy
  BY CopyImplies, CopyInit, CopyNext, GenuineInit, GenuineNext, TypeCorrect, PTL DEF Spec

-----------------------------------------------------------------------------
(* The other half of AnswerKept, for an object that is connected once.     *)
Expected(c) == c \in answered /\ Pending(c) /\ ~broken[c] /\ peer[via[c]] = "up"

Somewhere(c) == InKernel(c) \/ InBuffer(c) \/ InHandler(c) \/ InQueue(c) \/ Taken(c)

Kept(c) == Expected(c) => Somewhere(c)

KeptBefore == /\ MaxSessions <= 1 /\ TypeOK /\ ShutdownInv /\ OneSessionInv /\ ErrorInv
              /\ \A c \in Calls : Kept(c)

LEMMA KeptSame ==
  ASSUME KeptBefore, NEW x \in Calls,
         UNCHANGED <<answered, call, broken, peer, via, reply, inbox, receivedData, adding,
                     response_queue>>
  PROVE  Kept(x)'
  BY DEF KeptBefore, Kept, Expected, Somewhere, Pending, InKernel, InBuffer, InHandler, InQueue,
         Taken

LEMMA KeptMoves ==
  ASSUME KeptBefore, NEW x \in Calls, UNCHANGED <<answered, call, broken, via>>,
         peer'[via[x]] = "up" => peer[via[x]] = "up",
         Expected(x) /\ Somewhere(x) => Somewhere(x)'
  PROVE  Kept(x)'
  BY DEF KeptBefore, Kept, Expected, Pending

(* An expected answer is one of the only session, which is up.             *)
LEMMA ExpectedUp ==
  ASSUME KeptBefore, NEW x \in Calls, via[x] # 0, Pending(x), ~broken[x]
  PROVE  /\ connected /\ socket_fd \in Fds /\ fds[socket_fd] = 1 /\ SocketOf(socket_fd) = 1
         /\ Session = {1} /\ via[x] = 1 /\ ~shut[1] /\ pcL # "console"
         /\ \A t \in Threads : sd[t] \notin PastStore
         /\ pcL \in {"wait", "block", "asleep", "ready", "busy", "compare"}
              => receivedData = <<>> \/ prev_connection = socket_fd
  <1>1. connected
    BY DEF KeptBefore, ErrorInv
  <1>2. via[x] \in 1..MaxSessions /\ MaxSessions = 1
    BY SocketAssumption DEF KeptBefore, TypeOK, CallTypes
  <1>3. socket_fd \in Fds /\ fds[socket_fd] \in 1..MaxSessions
    BY <1>1 DEF KeptBefore, OneSessionInv, TypeOK, FieldTypes, SockTypeOK
  <1>4. Session = {1}
    BY <1>2 DEF Session
  <1>5. socket_fd # 0
    BY <1>3, SocketAssumption
  <1> QED
    BY <1>1, <1>2, <1>3, <1>4, <1>5 DEF KeptBefore, OneSessionInv, SocketOf

LEMMA ExpectedVia == ASSUME KeptBefore, NEW x \in Calls, Expected(x) PROVE via[x] # 0
  BY DEF KeptBefore, ErrorInv, Expected

LEMMA HasAppend ==
  ASSUME NEW c, NEW s \in Seq(Message), NEW m \in Message
  PROVE  /\ Has(s, c) => Has(Append(s, m), c)
         /\ IsAnswer(m, c) => Has(Append(s, m), c)
  <1>1. /\ \A i \in DOMAIN s : i \in DOMAIN Append(s, m) /\ Append(s, m)[i] = s[i]
        /\ Len(s) + 1 \in DOMAIN Append(s, m) /\ Append(s, m)[Len(s) + 1] = m
    OBVIOUS
  <1> QED
    BY <1>1 DEF Has

LEMMA SomewhereSame ==
  ASSUME NEW x, UNCHANGED <<inbox, receivedData, adding, response_queue, call, reply>>
  PROVE  Somewhere(x) => Somewhere(x)'
  BY DEF Somewhere, InKernel, InBuffer, InHandler, InQueue, Taken

(* A step of call c, which has not returned.                               *)
LEMMA KeptCalls ==
  ASSUME KeptBefore, NEW c \in Calls, NEW x \in Calls, call[c] # "returned",
         UNCHANGED <<inbox, receivedData, adding>>,
         \A d \in Calls : d # c => call'[d] = call[d] /\ reply'[d] = reply[d],
         Expected(x)' => Expected(x),
         InQueue(x) => InQueue(x)' \/ Taken(x)'
  PROVE  Kept(x)'
  <1>1. Taken(x) => Taken(x)'
    BY DEF Taken
  <1> QED
    BY <1>1 DEF KeptBefore, Kept, Somewhere, InKernel, InBuffer, InHandler

(* A step that only moves call c, which neither returns nor waits for an   *)
(* answer before it has sent its request.                                  *)
LEMMA KeptCallMoves ==
  ASSUME KeptBefore, NEW c \in Calls, NEW x \in Calls, NEW next,
         call[c] # "returned", next # "returned", call' = [call EXCEPT ![c] = next],
         UNCHANGED <<answered, broken, peer, via, reply, inbox, receivedData, adding,
                     response_queue>>
  PROVE  Kept(x)'
  <1>1. call'[c] = next /\ \A d \in Calls : d # c => call'[d] = call[d]
    BY DEF KeptBefore, TypeOK, CallTypes
  <1>2. call[c] = "new" => c \notin answered
    BY DEF KeptBefore, ErrorInv
  <1>3. Expected(x)' => Expected(x)
    BY <1>1, <1>2 DEF Expected, Pending
  <1>4. InQueue(x)' <=> InQueue(x)
    BY DEF InQueue
  <1> QED
    BY <1>1, <1>3, <1>4, KeptCalls

LEMMA KeptData ==
  ASSUME KeptBefore, ListenerData, NEW x \in Calls, receivedData \in Seq(Message)
  PROVE  Kept(x)'
  <1>1. PICK k \in 1..Len(inbox[reading]) :
          /\ TakeFromInbox(reading, k)
          /\ Deliver(receivedData \o SubSeq(inbox[reading], 1, k))
    BY DEF ListenerData
  <1>2. /\ reading \in Session /\ inbox \in [Session -> Seq(Message)]
        /\ inbox[reading] \in Seq(Message) /\ receivedData \in Seq(Message)
    BY DEF KeptBefore, TypeOK, SockTypeOK, ListenerTypes, ListenerData
  <1> DEFINE first == Head(receivedData \o SubSeq(inbox[reading], 1, k))
             held == Tail(receivedData \o SubSeq(inbox[reading], 1, k))
             rest == SubSeq(inbox[reading], k + 1, Len(inbox[reading]))
  <1>10. first \in Message /\ first # Line
    BY <1>2, ReadTypes, MessageIsNoLine
  <1>3. /\ inbox' = [inbox EXCEPT ![reading] = rest]
        /\ receivedData' = held
        /\ adding' = IF first.type = "RES" THEN adding \cup {first} ELSE adding
        /\ UNCHANGED <<response_queue, reply, call, answered, broken, via, peer>>
    BY <1>1, <1>10 DEF TakeFromInbox, Deliver, Dispatch, ListenerData
  <1>4. Has(receivedData, x) \/ Has(inbox[reading], x)
          => IsAnswer(first, x) \/ Has(held, x) \/ Has(rest, x)
    BY <1>2, ReadSplits
  <1> HIDE DEF first, held, rest
  <1>5. inbox'[reading] = rest /\ \A n \in Session : n # reading => inbox'[n] = inbox[n]
    BY <1>2, <1>3
  <1>6. IsAnswer(first, x) => first.type = "RES"
    BY DEF IsAnswer
  <1>7. InKernel(x) => \E n \in Session : Has(inbox[n], x)
    BY DEF InKernel, Has
  <1>8. /\ (\E n \in Session : Has(inbox'[n], x)) => InKernel(x)'
        /\ Has(held, x) => InBuffer(x)'
        /\ InBuffer(x) => Has(receivedData, x)
        /\ IsAnswer(first, x) => InHandler(x)'
        /\ InHandler(x) => InHandler(x)'
        /\ InQueue(x) => InQueue(x)'
        /\ Taken(x) => Taken(x)'
    BY <1>3, <1>6 DEF InKernel, InBuffer, InHandler, InQueue, Taken, Has
  <1>9. Somewhere(x) => Somewhere(x)'
    BY <1>2, <1>4, <1>5, <1>7, <1>8 DEF Somewhere
  <1> QED
    BY <1>3, <1>9, KeptMoves

(* A message that arrives pushes none out.                                 *)
LEMMA ArriveKeeps ==
  ASSUME TypeOK, NEW n \in Session, NEW m \in Message, Arrive(n, m), NEW x \in Calls
  PROVE  /\ InKernel(x) => InKernel(x)'
         /\ IsOpen(n) /\ IsAnswer(m, x) => InKernel(x)'
  <1>1. inbox \in [Session -> Seq(Message)]
    BY DEF TypeOK, SockTypeOK
  <1>2. ASSUME NEW k \in Session PROVE Has(inbox[k], x) => Has(inbox'[k], x)
    BY <1>1, HasAppend DEF Arrive
  <1>3. ASSUME IsOpen(n), IsAnswer(m, x) PROVE Has(inbox'[n], x)
    BY <1>1, <1>3, HasAppend DEF Arrive
  <1> QED
    BY <1>2, <1>3 DEF InKernel, Has

LEMMA KeptReply ==
  ASSUME KeptBefore, NEW c \in Calls, PeerReply(c), NEW x \in Calls
  PROVE  Kept(x)'
  <1> DEFINE m == [type |-> "RES", of |-> c, session |-> via[c]]
  <1>1. /\ via[c] \in Session /\ m \in Message /\ Arrive(via[c], m) /\ IsAnswer(m, c)
        /\ answered' = answered \cup {c}
        /\ UNCHANGED <<receivedData, adding, response_queue, reply, call, broken, via, peer>>
    BY DEF PeerReply, Arrive, KeptBefore, TypeOK, CallTypes, Session, Message, IsAnswer
  <1> HIDE DEF m
  <1>2. InKernel(x) => InKernel(x)'
    BY <1>1, ArriveKeeps DEF KeptBefore
  <1>3. CASE x # c
    BY <1>1, <1>2, <1>3 DEF KeptBefore, Kept, Expected, Somewhere, Pending, InBuffer, InHandler,
                            InQueue, Taken
  <1>4. CASE x = c
    <2>1. ASSUME Expected(x)' PROVE InKernel(x)'
      <3>1. via[x] # 0 /\ Pending(x) /\ ~broken[x]
        BY <1>1, <1>4, <2>1 DEF Expected, Pending, PeerReply
      <3>2. IsOpen(via[x])
        BY <3>1, ExpectedUp DEF IsOpen
      <3> QED
        BY <1>1, <1>4, <3>2, ArriveKeeps DEF KeptBefore
    <2> QED
      BY <2>1 DEF Kept, Somewhere
  <1> QED
    BY <1>3, <1>4

LEMMA KeptRequest ==
  ASSUME KeptBefore, NEW r \in Requests, NEW n \in Session, PeerRequest(r, n), NEW x \in Calls
  PROVE  Kept(x)'
  <1> DEFINE m == [type |-> "REQ", of |-> r, session |-> n]
  <1>1. /\ m \in Message /\ Arrive(n, m)
        /\ UNCHANGED <<receivedData, adding, response_queue, reply, call, answered, broken, via,
                       peer>>
    BY DEF PeerRequest, Arrive, Message
  <1> HIDE DEF m
  <1>2. InKernel(x) => InKernel(x)'
    BY <1>1, ArriveKeeps DEF KeptBefore
  <1>3. Somewhere(x) => Somewhere(x)'
    BY <1>1, <1>2 DEF Somewhere, InBuffer, InHandler, InQueue, Taken
  <1> QED
    BY <1>1, <1>3, KeptMoves

LEMMA KeptSent ==
  ASSUME KeptBefore, NEW c \in Calls, NEW x \in Calls, CallSend(c)
  PROVE  Kept(x)'
  <1>1. /\ UNCHANGED <<inbox, receivedData, adding, response_queue, answered, peer>>
        /\ call[c] = "send" /\ c \notin answered
        /\ \A d \in Calls : d # c => call'[d] = call[d] /\ reply'[d] = reply[d]
                                     /\ broken'[d] = broken[d] /\ via'[d] = via[d]
    BY DEF CallSend, Return, KeptBefore, ErrorInv, TypeOK, CallTypes
  <1>2. Expected(x)' => Expected(x)
    BY <1>1 DEF Expected, Pending
  <1>3. InQueue(x) => InQueue(x)'
    BY <1>1 DEF InQueue
  <1> QED
    BY <1>1, <1>2, <1>3, KeptCalls

LEMMA KeptWoken ==
  ASSUME KeptBefore, NEW c \in Calls, NEW x \in Calls, CallWoke(c)
  PROVE  Kept(x)'
  <1>1. /\ UNCHANGED <<inbox, receivedData, adding, response_queue, answered, peer,
                     broken, via>>
        /\ call[c] = "woke"
        /\ \A d \in Calls : d # c => call'[d] = call[d] /\ reply'[d] = reply[d]
    BY DEF CallWoke, Return, KeptBefore, TypeOK, CallTypes
  <1>2. Expected(x)' => Expected(x)
    BY <1>1 DEF Expected, Pending
  <1>3. InQueue(x) => InQueue(x)'
    BY <1>1 DEF InQueue
  <1> QED
    BY <1>1, <1>2, <1>3, KeptCalls

LEMMA KeptRead ==
  ASSUME KeptBefore, NEW c \in Calls, NEW x \in Calls, CallRead(c)
  PROVE  Kept(x)'
  <1>1. /\ UNCHANGED <<inbox, receivedData, adding, answered, peer, broken, via>>
        /\ call[c] = "read" /\ call'[c] = "returned"
        /\ \A d \in Calls : d # c => call'[d] = call[d] /\ reply'[d] = reply[d]
    BY DEF CallRead, Return, KeptBefore, TypeOK, CallTypes
  <1>2. Expected(x)' => Expected(x)
    BY <1>1 DEF Expected, Pending
  <1>3. ASSUME NEW m \in response_queue, response_queue' = response_queue \ {m}, Return(c, m.of)
        PROVE  InQueue(x) => InQueue(x)' \/ Taken(x)'
    <2>1. reply'[c] = m.of
      BY <1>3 DEF Return, KeptBefore, TypeOK, CallTypes
    <2>2. CASE m.of = x
      BY <1>1, <2>1, <2>2 DEF Taken
    <2>3. CASE m.of # x
      BY <1>3, <2>3 DEF InQueue, IsAnswer
    <2> QED
      BY <2>2, <2>3
  <1>4. CASE UNCHANGED response_queue
    <2>1. InQueue(x) => InQueue(x)'
      BY <1>4 DEF InQueue
    <2> QED
      BY <1>1, <1>2, <2>1, KeptCalls
  <1>5. CASE \E m \in response_queue : response_queue' = response_queue \ {m} /\ Return(c, m.of)
    <2>1. InQueue(x) => InQueue(x)' \/ Taken(x)'
      BY <1>3, <1>5
    <2> QED
      BY <1>1, <1>2, <2>1, KeptCalls
  <1> QED
    BY <1>4, <1>5 DEF CallRead

LEMMA KeptShutdown ==
  ASSUME KeptBefore, NEW x \in Calls, NEW t \in Threads, Shutdown(t)
  PROVE  Kept(x)'
  <1> USE SocketAssumption, ConnectionAssumption
         DEF KeptBefore, Kept, Expected, Somewhere, InKernel, InBuffer, InHandler, InQueue,
             Taken, Pending, ErrorInv, PastStore, TypeOK, SockTypeOK, OwnerTypes, CallTypes,
             Threads, Session
  <1>1. CASE SdCheck(t)
    BY <1>1, KeptSame DEF SdCheck, SdThrows, Die
  <1>2. CASE SdStore(t)
    BY <1>2 DEF SdStore, NotifyListener
  <1>3. CASE SdShut(t)
    BY <1>3 DEF SdShut, SocketShutdown
  <1>4. CASE SdClose(t)
    BY <1>4 DEF SdClose, SocketClose, CloseFails
  <1>5. CASE SdCloseFails(t)
    BY <1>5, KeptSame DEF SdCloseFails, SdThrows, Die
  <1>6. CASE SdZero(t)
    BY <1>6 DEF SdZero
  <1>7. CASE SdAwait(t)
    BY <1>7 DEF SdAwait
  <1>8. CASE SdBlock(t)
    BY <1>8 DEF SdBlock
  <1>9. CASE SdNotify(t)
    BY <1>9 DEF SdNotify, NotifyCalls
  <1>10. CASE SdClear(t)
    <2>1. ~Expected(x)
      BY <1>10, ExpectedUp, ExpectedVia DEF SdClear, Expected
    <2> QED
      BY <1>10, <2>1, KeptMoves DEF SdClear
  <1> QED
    BY <1>1, <1>2, <1>3, <1>4, <1>5, <1>6, <1>7, <1>8, <1>9, <1>10 DEF Shutdown

LEMMA KeptOwner ==
  ASSUME KeptBefore, NEW x \in Calls, Owner
  PROVE  Kept(x)'
  <1> USE SocketAssumption, ConnectionAssumption
         DEF KeptBefore, Kept, Expected, Somewhere, InKernel, InBuffer, InHandler, InQueue,
             Taken, Pending, ErrorInv, PastStore, TypeOK, SockTypeOK, OwnerTypes, CallTypes,
             Threads, Session
  <1>1. ASSUME NEW f \in Fds, Connect(f) PROVE Kept(x)'
    BY <1>1 DEF Connect, SocketOpen
  <1>2. ASSUME NEW f \in Fds, ConnectFails(f) PROVE Kept(x)'
    BY <1>2 DEF ConnectFails, SocketLeak
  <1>3. ASSUME NEW d \in BOOLEAN, ConnectStore(d) PROVE Kept(x)'
    BY <1>3 DEF ConnectStore
  <1>4. CASE InvokeDeferred
    BY <1>4 DEF InvokeDeferred
  <1>5. CASE StartListener
    BY <1>5 DEF StartListener, NotifyListener
  <1>6. ASSUME NEW m \in Methods, AddMethod(m) \/ RemoveMethod(m) PROVE Kept(x)'
    BY <1>6, KeptSame DEF AddMethod, RemoveMethod, SetMethods
  <1>7. CASE BeginShutdown
    BY <1>7 DEF BeginShutdown
  <1>8. CASE BeginReset
    BY <1>8 DEF BeginReset
  <1>9. CASE BeginDestroy
    BY <1>9 DEF BeginDestroy
  <1>10. CASE Shutdown("owner")
    BY <1>10, KeptShutdown DEF Threads
  <1>11. CASE ClearMethods
    BY <1>11 DEF ClearMethods
  <1>12. CASE Terminate
    BY <1>12 DEF Terminate, NotifyListener
  <1>13. CASE Join
    BY <1>13 DEF Join
  <1> QED
    BY <1>1, <1>2, <1>3, <1>4, <1>5, <1>6, <1>7, <1>8, <1>9, <1>10, <1>11, <1>12,
       <1>13 DEF Owner

LEMMA KeptListener ==
  ASSUME KeptBefore, NEW x \in Calls, Listener
  PROVE  Kept(x)'
  <1>7. CASE ListenerCompare
    <2>1. Expected(x) => receivedData' = receivedData
      BY <1>7, ExpectedUp, ExpectedVia DEF ListenerCompare, Expected
    <2>2. UNCHANGED <<answered, call, broken, via, peer, inbox, adding, response_queue, reply>>
      BY <1>7 DEF ListenerCompare, fieldVars, callVars, handlerVars, sockVars
    <2>3. Expected(x) /\ Somewhere(x) => Somewhere(x)'
      BY <2>1, <2>2, SomewhereSame
    <2> QED
      BY <2>2, <2>3, KeptMoves
  <1> USE SocketAssumption, ConnectionAssumption
         DEF KeptBefore, Kept, Expected, Somewhere, InKernel, InBuffer, InHandler, InQueue,
             Taken, Pending, ErrorInv, PastStore, TypeOK, SockTypeOK, OwnerTypes, CallTypes,
             Threads, Session
  <1>1. CASE ListenerTop
    BY <1>1 DEF ListenerTop, NotifyIdleable
  <1>2. CASE ListenerSnap
    BY <1>2 DEF ListenerSnap
  <1>3. CASE ListenerWait
    BY <1>3 DEF ListenerWait
  <1>4. CASE ListenerBlock
    BY <1>4 DEF ListenerBlock
  <1>5. CASE ListenerReady
    BY <1>5 DEF ListenerReady
  <1>6. CASE ListenerBusy
    BY <1>6 DEF ListenerBusy
  <1>8. CASE ListenerReceive
    <2>1. Expected(x) => receivedData' = receivedData
      BY <1>8, ExpectedUp, ExpectedVia DEF ListenerReceive, Expected
    <2> QED
      BY <1>8, <2>1, KeptMoves DEF ListenerReceive
  <1>9. CASE ListenerData
    <2>1. CASE Expected(x)
      BY <1>9, <2>1, KeptData, ExpectedUp, ExpectedVia DEF Expected, OneSessionInv
    <2>2. CASE ~Expected(x)
      BY <1>9, <2>2, KeptMoves DEF ListenerData, TakeFromInbox
    <2> QED
      BY <2>1, <2>2
  <1>10. CASE ListenerError
    <2>1. reading \in Session /\ peer' = [peer EXCEPT ![reading] = "closed"]
      BY <1>10 DEF ListenerError, ReportReset, ListenerTypes
    <2>2. ~Expected(x)
      BY <1>10, <2>1, ExpectedUp, ExpectedVia DEF ListenerError, ReadReturnsError, Expected
    <2> QED
      BY <1>10, <2>1, <2>2, KeptMoves DEF ListenerError, ReportReset
  <1>11. CASE ListenerEnd
    <2>1. ~Expected(x)
      BY <1>11, ExpectedUp, ExpectedVia DEF ListenerEnd, ReadReturnsEnd, ListenerTypes, Expected
    <2> QED
      BY <1>11, <2>1, KeptMoves DEF ListenerEnd, StreamEnds
  <1>12. CASE ListenerConsole
    <2>1. ~Expected(x)
      BY <1>12, ExpectedUp, ExpectedVia DEF ListenerConsole, Expected
    <2> QED
      BY <1>12, <2>1, KeptMoves DEF ListenerConsole, StreamEnds
  <1>13. CASE Shutdown("listener")
    BY <1>13, KeptShutdown DEF Threads
  <1> QED
    BY <1>1, <1>2, <1>3, <1>4, <1>5, <1>6, <1>7, <1>8, <1>9, <1>10, <1>11, <1>12,
       <1>13 DEF Listener, ListenerRuns

LEMMA KeptCall ==
  ASSUME KeptBefore, NEW x \in Calls, NEW c \in Calls, SendRequest(c) \/ Call(c)
  PROVE  Kept(x)'
  <1>1. CASE CallSend(c)
    BY <1>1, KeptSent
  <1>2. CASE CallWoke(c)
    BY <1>2, KeptWoken
  <1>3. CASE CallRead(c)
    BY <1>3, KeptRead
  <1>4. ASSUME SendRequest(c) \/ CallTestConnected(c) \/ CallTestReceived(c) \/ CallBlock(c)
        PROVE  Kept(x)'
    <2>1. PICK next : /\ next # "returned" /\ call' = [call EXCEPT ![c] = next]
                      /\ call[c] # "returned"
      BY <1>4 DEF SendRequest, CallTestConnected, CallTestReceived, CallBlock
    <2>2. UNCHANGED <<answered, broken, peer, via, reply, inbox, receivedData, adding,
                      response_queue>>
      BY <1>4 DEF SendRequest, CallTestConnected, CallTestReceived, CallBlock, fieldVars,
                  listenerVars, handlerVars, sockVars
    <2> QED
      BY <2>1, <2>2, KeptCallMoves
  <1> QED
    BY <1>1, <1>2, <1>3, <1>4 DEF Call

LEMMA KeptHandler ==
  ASSUME KeptBefore, NEW x \in Calls, Handler
  PROVE  Kept(x)'
  <1> USE SocketAssumption, ConnectionAssumption
         DEF KeptBefore, Kept, Expected, Somewhere, InKernel, InBuffer, InHandler, InQueue,
             Taken, Pending, ErrorInv, PastStore, TypeOK, SockTypeOK, OwnerTypes, CallTypes,
             Threads, Session
  <1>1. ASSUME NEW m \in adding \cup notifying, AddResponse(m) PROVE Kept(x)'
    BY <1>1 DEF AddResponse
  <1>2. ASSUME NEW m \in adding \cup notifying, NotifyResponse(m) PROVE Kept(x)'
    BY <1>2 DEF NotifyResponse, NotifyCalls
  <1>3. CASE HandlerAfterDestroy
    BY <1>3 DEF HandlerAfterDestroy, Die
  <1>4. ASSUME NEW r \in Requests, RequestLookup(r) PROVE Kept(x)'
    BY <1>4 DEF RequestLookup
  <1>5. ASSUME NEW r \in Requests, RequestInvoke(r) PROVE Kept(x)'
    BY <1>5 DEF RequestInvoke
  <1>6. ASSUME NEW r \in Requests, RequestReply(r) PROVE Kept(x)'
    BY <1>6 DEF RequestReply
  <1>7. ASSUME NEW r \in Requests, RequestSend(r) PROVE Kept(x)'
    BY <1>7 DEF RequestSend
  <1> QED
    BY <1>1, <1>2, <1>3, <1>4, <1>5, <1>6, <1>7 DEF Handler, ResponseHandler, RequestHandler

LEMMA KeptPeer ==
  ASSUME KeptBefore, NEW x \in Calls, Peer
  PROVE  Kept(x)'
  <1> USE SocketAssumption, ConnectionAssumption
         DEF KeptBefore, Kept, Expected, Somewhere, InKernel, InBuffer, InHandler, InQueue,
             Taken, Pending, ErrorInv, PastStore, TypeOK, SockTypeOK, OwnerTypes, CallTypes,
             Threads, Session
  <1>1. ASSUME NEW c \in Calls, PeerReply(c) PROVE Kept(x)'
    BY <1>1, KeptReply
  <1>2. ASSUME NEW n \in Session, PeerLeaves(n) PROVE Kept(x)'
    BY <1>2 DEF PeerLeaves, PeerCloses, PeerResets
  <1>3. ASSUME NEW r \in Requests, NEW n \in Session, PeerRequest(r, n) PROVE Kept(x)'
    BY <1>3, KeptRequest
  <1> QED
    BY <1>1, <1>2, <1>3 DEF Peer

LEMMA KeptWakeup ==
  ASSUME KeptBefore, NEW x \in Calls, SpuriousWakeup
  PROVE  Kept(x)'
  <1>1. ASSUME pcL = "asleep", pcL' = "wait", UNCHANGED <<fieldVars, prev_connection,
               receivedData, reading, ownerVars, callVars, handlerVars, fate,
               sockVars>>
        PROVE  Kept(x)'
    BY <1>1, KeptSame DEF fieldVars, callVars, handlerVars, sockVars
  <1>2. ASSUME NEW c \in Calls, call[c] = "asleep", call' = [call EXCEPT ![c] = "wait"],
               UNCHANGED <<fieldVars, listenerVars, ownerVars, rid, via, answered, reply,
               broken, handlerVars, fate, sockVars>>
        PROVE  Kept(x)'
    <2>1. UNCHANGED <<answered, broken, peer, via, reply, inbox, receivedData, adding,
                      response_queue>>
      BY <1>2 DEF fieldVars, listenerVars, handlerVars, sockVars
    <2> QED
      BY <1>2, <2>1, KeptCallMoves
  <1>3. ASSUME NEW t \in Threads, sd[t] = "asleep", sd' = [sd EXCEPT ![t] = "await"],
               UNCHANGED <<fieldVars, listenerVars, pcO, callVars, handlerVars, fate,
               sockVars>>
        PROVE  Kept(x)'
    BY <1>3, KeptSame DEF fieldVars, listenerVars, callVars, handlerVars, sockVars
  <1> QED
    BY <1>1, <1>2, <1>3 DEF SpuriousWakeup

LEMMA KeptNext ==
  ASSUME KeptBefore, [Next]_vars, NEW x \in Calls
  PROVE  Kept(x)'
  <1>1. CASE UNCHANGED vars
    BY <1>1, KeptSame
  <1> QED
    BY <1>1, KeptOwner, KeptListener, KeptCall, KeptHandler, KeptPeer, KeptWakeup DEF Next

KeptInv == \A c \in Calls : Kept(c)

(* No answer is lost on the way through kernel, listener, handler thread   *)
(* and queue while an object that is connected once stays up and its peer  *)
(* stays: whatever the owner's operations, a pending call whose answer the *)
(* peer gave finds it in one of these places or in the hands of another    *)
(* call, and no two calls return it.                                       *)
THEOREM AnswersNotLost == ASSUME MaxSessions <= 1 PROVE Spec => []AnswerKept
  <1>1. TypeOK /\ ShutdownInv /\ OneSessionInv /\ [Next]_vars => OneSessionInv'
    BY OneNext
  <1>2. TypeOK /\ ShutdownInv /\ OneSessionInv /\ AnswersGenuine /\ ErrorInv /\ [Next]_vars
          => ErrorInv'
    BY ErrorNext
  <1>3. TypeOK /\ ShutdownInv /\ OneSessionInv /\ ErrorInv /\ KeptInv /\ [Next]_vars => KeptInv'
    BY KeptNext DEF KeptInv, KeptBefore
  <1>4. Init => KeptInv
    BY DEF Init, KeptInv, Kept, Expected
  <1>5. CopyInv /\ KeptInv => AnswerKept
    BY CopyImplies DEF KeptInv, Kept, Expected, Somewhere, AnswerKept
  <1> QED
    BY <1>1, <1>2, <1>3, <1>4, <1>5, OneInit, ErrorInit, CopyInit, CopyNext, ShutdownInvInit,
       ShutdownInvNext, GenuineInit, GenuineNext, TypeCorrect, PTL DEF Spec
=============================================================================
