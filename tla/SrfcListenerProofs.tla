--------------------------- MODULE SrfcListenerProofs ---------------------------
(***************************************************************************)
(* Theorems about SrfcListener, for every value of its constants.          *)
(***************************************************************************)
EXTENDS SrfcListener, TLAPS

USE DEF vars, fieldVars, threadVars, ownerVars, sockVars, clientVars

LEMMA InitTypeOK == Init => TypeOK
  <1> SUFFICES ASSUME Init PROVE TypeOK
    OBVIOUS
  <1>1. Nothing \in [started : BOOLEAN, methods : SUBSET Methods, callback : BOOLEAN]
    BY DEF Nothing
  <1>2. promised \in [Socket -> [started : BOOLEAN, methods : SUBSET Methods, callback : BOOLEAN]]
    BY <1>1 DEF Init
  <1>3. 0 \in 0..MaxListens
    BY ListenerAssumption
  <1> QED
    BY <1>2, <1>3 DEF Init, TypeOK, ClientStates

LEMMA StutterTypeOK == ASSUME TypeOK, UNCHANGED vars PROVE TypeOK'
  BY DEF TypeOK, Socket

LEMMA DieTypeOK ==
  ASSUME TypeOK, NEW cause \in {"accept_failed", "accept_error", "data_race", "reconfigured",
                               "use_after_free"}, Die(cause)
  PROVE  TypeOK'
  BY DEF Die, TypeOK, Socket

LEMMA RaceTypeOK == ASSUME TypeOK, Race PROVE TypeOK'
  BY DieTypeOK DEF Race

LEMMA OwnerTypeOK == ASSUME TypeOK, Owner PROVE TypeOK'
  <1> USE ListenerAssumption DEF TypeOK, Socket, ClientStates
  <1>1. ASSUME NEW m \in Methods, AddMethod(m) \/ RemoveMethod(m) PROVE TypeOK'
    <2>1. PICK ms \in SUBSET Methods : ChangeMap(ms)
      BY <1>1 DEF AddMethod, RemoveMethod
    <2>2. CASE promised' = [n \in Socket |-> [promised[n] EXCEPT !.methods = @ \cap ms]]
      <3>1. promised' \in [Socket -> [started : BOOLEAN, methods : SUBSET Methods, callback : BOOLEAN]]
        BY <2>2
      <3> QED
        BY <2>1, <3>1, RaceTypeOK DEF ChangeMap
    <2> QED
      BY <2>1, <2>2, RaceTypeOK DEF ChangeMap
  <1>2. CASE OnConnection
    <2>1. CASE Race
      BY <2>1, RaceTypeOK
    <2>2. CASE ~Race
      <3>1. /\ connection_callback' \in BOOLEAN
            /\ UNCHANGED <<binded, listening, idleable, terminate_listener, socket_fd, callback_map,
                           threadVars, ownerVars, sockVars, clientVars, fate, promised>>
        BY ONLY <1>2, <2>2 DEF OnConnection
      <3> QED
        BY ONLY TypeOK, <3>1 DEF TypeOK, Socket, ClientStates
    <2> QED
      BY <2>1, <2>2
  <1>3. CASE BindFails
    BY <1>3 DEF BindFails
  <1>4. ASSUME NEW d \in BOOLEAN, Listen(d) PROVE TypeOK'
    BY <1>4 DEF Listen
  <1>5. CASE InvokeDeferred
    BY <1>5 DEF InvokeDeferred
  <1>6. CASE StoreListening
    <2>1. promised' \in [Socket -> [started : BOOLEAN, methods : SUBSET Methods, callback : BOOLEAN]]
      BY <1>6 DEF StoreListening
    <2>2. /\ listening' = TRUE /\ pcO' = "start"
          /\ UNCHANGED <<binded, idleable, terminate_listener, socket_fd, callback_map,
                         connection_callback, threadVars, op, sockVars, clientVars, fate>>
      BY <1>6 DEF StoreListening
    <2> QED
      BY <2>1, <2>2
  <1>7. CASE StartThread
    BY <1>7 DEF StartThread, NotifyListener
  <1>8. ASSUME NEW o \in OwnerOps, BeginShutdown(o) \/ BeginReset(o) PROVE TypeOK'
    <2>1. op' \in {"shutdown", "reset", "destroy"}
      BY <1>8 DEF BeginShutdown, BeginReset, AllOps
    <2>2. CASE BeginShutdown(o)
      <3>1. /\ binded' = FALSE /\ pcO' = "sd_store"
            /\ UNCHANGED <<listening, idleable, terminate_listener, socket_fd, callback_map,
                           connection_callback, threadVars, sockVars, clientVars, fate, promised>>
        BY <2>2 DEF BeginShutdown
      <3>2. /\ binded' \in BOOLEAN /\ op' \in {"none", "shutdown", "reset", "destroy"}
            /\ pcO' \in {"idle", "store", "start", "sd_store", "sd_shut", "sd_close", "sd_await",
                        "sd_block", "sd_asleep", "sd_done", "clear", "terminate", "join", "dead"}
        BY ONLY <2>1, <3>1
      <3> QED
        BY ONLY TypeOK, <3>1, <3>2
    <2>3. CASE BeginReset(o)
      BY <2>1, <2>3 DEF BeginReset
    <2> QED
      BY <1>8, <2>2, <2>3
  <1>9. CASE Shutdown
    <2>1. CASE SdStore
      BY <2>1 DEF SdStore, NotifyListener
    <2>2. CASE SdShut
      <3>1. lsock' \in [Socket -> {"none", "open", "leaked", "shut", "closed"}]
        BY <2>2 DEF SdShut
      <3>2. client' \in [Clients -> ClientStates]
        BY <2>2 DEF SdShut
      <3> QED
        BY <2>2, <3>1, <3>2 DEF SdShut
    <2>3. CASE SdClose
      <3>1. lsock' \in [Socket -> {"none", "open", "leaked", "shut", "closed"}]
        BY <2>3 DEF SdClose
      <3> QED
        BY <2>3, <3>1 DEF SdClose
    <2>4. CASE SdAwait
      BY <2>4 DEF SdAwait
    <2>5. CASE SdBlock
      BY <2>5 DEF SdBlock
    <2>6. CASE SdReturn
      BY <2>6 DEF SdReturn
    <2> QED
      BY <1>9, <2>1, <2>2, <2>3, <2>4, <2>5, <2>6 DEF Shutdown
  <1>10. CASE Clear
    <2>1. CASE Race
      BY <2>1, RaceTypeOK
    <2>2. CASE ~Race
      <3>1. promised' = [n \in Socket |-> [promised[n] EXCEPT !.methods = {}, !.callback = FALSE]]
        BY <1>10, <2>2 DEF Clear
      <3>2. promised' \in [Socket -> [started : BOOLEAN, methods : SUBSET Methods, callback : BOOLEAN]]
        BY <3>1
      <3>3. /\ callback_map' \subseteq Methods /\ connection_callback' \in BOOLEAN
            /\ pcO' \in {"idle", "dead", "terminate"}
        BY <1>10, <2>2 DEF Clear
      <3>4. UNCHANGED <<binded, listening, idleable, terminate_listener, socket_fd, threadVars,
                          op, sockVars, clientVars, fate>>
        BY <1>10, <2>2 DEF Clear
      <3> QED
        BY <3>2, <3>3, <3>4
    <2> QED
      BY <2>1, <2>2
  <1>11. CASE Terminate
    BY <1>11 DEF Terminate, NotifyListener
  <1>12. CASE Join
    BY <1>12 DEF Join
  <1> QED
    BY <1>1, <1>2, <1>3, <1>4, <1>5, <1>6, <1>7, <1>8, <1>9, <1>10, <1>11, <1>12 DEF Owner

LEMMA ThreadTypeOK == ASSUME TypeOK, Thread \/ ThreadAcceptErrors PROVE TypeOK'
  <1> USE DEF TypeOK, Socket, ClientStates
  <1>1. CASE ThreadTop
    BY <1>1 DEF ThreadTop, NotifyIdleable
  <1>2. CASE ThreadWait
    BY <1>2 DEF ThreadWait
  <1>6. CASE ThreadBlock
    BY <1>6 DEF ThreadBlock
  <1>7. CASE ThreadReady
    BY <1>7 DEF ThreadReady
  <1>8. CASE ThreadBusy
    <2>1. /\ idleable' = FALSE /\ pcT' = "accept"
          /\ UNCHANGED <<binded, listening, terminate_listener, socket_fd, callback_map,
                         connection_callback, accepting, ownerVars, sockVars, clientVars, fate,
                         promised>>
      BY <1>8 DEF ThreadBusy
    <2>2. /\ idleable' \in BOOLEAN
          /\ pcT' \in {"none", "top", "wait", "block", "asleep", "ready", "busy", "accept",
                      "accepting", "returned"}
      BY <2>1
    <2> QED
      BY ONLY TypeOK, <2>1, <2>2
  <1>3. CASE ThreadAccept
    BY <1>3, DieTypeOK DEF ThreadAccept
  <1>4. CASE ThreadAcceptFails \/ ThreadAcceptErrors
    BY <1>4, DieTypeOK DEF ThreadAcceptFails, ThreadAcceptErrors
  <1>5. ASSUME NEW c \in Clients, ThreadAccepts(c) PROVE TypeOK'
    BY <1>5 DEF ThreadAccepts
  <1> QED
    BY <1>1, <1>2, <1>3, <1>4, <1>5, <1>6, <1>7, <1>8 DEF Thread

LEMMA HandlerTypeOK == ASSUME TypeOK, NEW c \in Clients, Handler(c) PROVE TypeOK'
  <1> USE DEF TypeOK, Socket, ClientStates, HandlerStep
  <1>1. CASE HandlerBegins(c)
    BY <1>1 DEF HandlerBegins
  <1>2. CASE HandlerCopies(c)
    BY <1>2 DEF HandlerCopies
  <1>3. CASE HandlerCalls(c)
    BY <1>3 DEF HandlerCalls
  <1> QED
    BY <1>1, <1>2, <1>3 DEF Handler

LEMMA ClientTypeOK == ASSUME TypeOK, NEW c \in Clients, Client(c) PROVE TypeOK'
  <1> USE ListenerAssumption DEF TypeOK, Socket, ClientStates
  <1>1. CASE ClientLeaves(c)
    BY <1>1 DEF ClientLeaves
  <1>2. ASSUME NEW n \in Socket, ClientConnects(c, n) PROVE TypeOK'
    BY <1>2 DEF ClientConnects
  <1> QED
    BY <1>1, <1>2 DEF Client

LEMMA NextTypeOK == TypeOK /\ [Next]_vars => TypeOK'
  <1> SUFFICES ASSUME TypeOK, [Next]_vars PROVE TypeOK'
    OBVIOUS
  <1>1. CASE HandlerAfterDestroy
    BY <1>1, DieTypeOK DEF HandlerAfterDestroy
  <1>2. CASE SpuriousWakeup
    BY <1>2 DEF SpuriousWakeup, TypeOK, Socket
  <1> QED
    BY <1>1, <1>2, OwnerTypeOK, ThreadTypeOK, HandlerTypeOK, ClientTypeOK, StutterTypeOK DEF Next

(* Type correctness: the fields of the listener, its sockets and clients   *)
(* stay in their types, for any number of clients, sockets and methods.    *)
THEOREM TypeCorrect == Spec => []TypeOK
  BY InitTypeOK, NextTypeOK, PTL DEF Spec

-----------------------------------------------------------------------------
(* The inductive invariant, in the parts the theorems are about.           *)

InShutdown == pcO \in {"sd_store", "sd_shut"}

MadeSocket == {"open", "shut", "closed"}

Accepted(c) == client[c] \notin {"new", "queued", "aborted", "refused"}

(* Sockets: numbers are handed out in order, and the one socket_fd names   *)
(* is open exactly while the object is bound or about to close it.         *)
SocketInv ==
  /\ OpenSocketIsBound
  /\ binded \/ InShutdown => Open(socket_fd)
  /\ socket_fd <= bound /\ (socket_fd # 0 => lsock[socket_fd] \in MadeSocket)
  /\ accepting <= bound /\ (accepting # 0 => lsock[accepting] \in MadeSocket)
  /\ \A n \in Socket : n > bound => lsock[n] = "none"

(* The owner: what its location says of the flags.                         *)
OwnerInv ==
  /\ pcO \in {"store", "start"} => binded
  /\ pcO = "store" => ~listening
  /\ InShutdown \/ pcO \in {"sd_close", "sd_await", "sd_block", "sd_asleep", "sd_done", "clear",
                            "terminate", "join", "dead"} => ~binded
  /\ listening /\ ~binded => pcO = "sd_store"
  /\ pcT # "none" => socket_fd # 0
  /\ pcT = "accepting" => accepting # 0

(* Clients: one that has come has come to a socket that was bound, and     *)
(* those that wait, wait for an open one.                                  *)
ClientInv ==
  \A c \in Clients :
    /\ client[c] = "new" <=> to[c] = 0
    /\ to[c] # 0 => lsock[to[c]] \in MadeSocket
    /\ client[c] = "queued" => Open(to[c])

(* What has been promised to the clients of each socket: nothing before    *)
(* listening begins, and never more than what is configured.               *)
PromiseInv ==
  /\ \A n \in Socket : /\ n > bound => ~promised[n].started
                       /\ promised[n].methods \subseteq callback_map
                       /\ promised[n].callback => connection_callback
  /\ binded /\ ~listening => ~promised[socket_fd].started

(* The first socket: the thread accepts on it only once listening began,   *)
(* since no earlier listen() can have let it through.                      *)
DeferredInv ==
  /\ bound = 0 => pcT = "none"
  /\ 1 \in Socket /\ Open(1) /\ ~promised[1].started =>
       ~listening /\ pcT \notin {"busy", "accept", "accepting"} /\ (pcT = "ready" => terminate_listener)
  /\ DeferredWaits

(* A socket has been taken down.                                           *)
TornDown == \E n \in Socket : lsock[n] \in {"shut", "closed"}

(* Before the first shutdown a client is accepted only while listening.    *)
DownInv ==
  /\ pcO \in {"sd_close", "sd_await", "sd_block", "sd_asleep", "sd_done"} => TornDown
  /\ (\E c \in Clients : Accepted(c)) => TornDown \/ listening \/ pcO = "sd_shut"
  /\ pcT \in {"busy", "accept", "accepting"} \/ (pcT = "ready" /\ ~terminate_listener) =>
       TornDown \/ listening \/ pcO = "sd_shut"

LEMMA ClearFrame ==
  ASSUME Clear
  PROVE  /\ pcO = "clear" /\ pcO' \in {"clear", "idle", "dead", "terminate"}
         /\ UNCHANGED <<binded, listening, idleable, terminate_listener, socket_fd, threadVars, op,
                       sockVars, clientVars>>
  <1>1. CASE Race
    BY <1>1 DEF Clear, Race, Die
  <1>2. CASE ~Race
    BY <1>2 DEF Clear
  <1> QED
    BY <1>1, <1>2

(* Reconfiguring never adds to what was promised, nor takes it from a      *)
(* method that stays.                                                      *)
LEMMA ChangeMapPromise ==
  ASSUME TypeOK, NEW ms \in SUBSET Methods, ChangeMap(ms), NEW n \in Socket
  PROVE  /\ promised'[n].started = promised[n].started
         /\ promised'[n].callback = promised[n].callback
         /\ promised'[n].methods \subseteq promised[n].methods
         /\ promised[n].methods \subseteq callback_map => promised'[n].methods \subseteq callback_map'
  <1>1. CASE promised' = [k \in Socket |-> [promised[k] EXCEPT !.methods = @ \cap ms]] /\ callback_map' = ms
    BY <1>1 DEF TypeOK
  <1>2. CASE UNCHANGED <<promised, callback_map>>
    BY <1>2
  <1> QED
    BY <1>1, <1>2 DEF ChangeMap, Race, Die

LEMMA ClearPromise ==
  ASSUME TypeOK, Clear, NEW n \in Socket
  PROVE  /\ promised'[n].started = promised[n].started
         /\ promised'[n].callback => promised[n].callback
         /\ promised'[n].methods \subseteq promised[n].methods
         /\ promised[n].methods \subseteq callback_map => promised'[n].methods \subseteq callback_map'
         /\ (promised[n].callback => connection_callback) => (promised'[n].callback => connection_callback')
  <1>1. CASE Race
    BY <1>1 DEF Race, Die
  <1>2. CASE ~Race
    <2>1. /\ promised' = [k \in Socket |-> [promised[k] EXCEPT !.methods = {}, !.callback = FALSE]]
          /\ callback_map' = {} /\ connection_callback' = FALSE
      BY <1>2 DEF Clear
    <2>2. promised'[n] = [promised[n] EXCEPT !.methods = {}, !.callback = FALSE]
      BY <2>1
    <2>3. promised[n] \in [started : BOOLEAN, methods : SUBSET Methods, callback : BOOLEAN]
      BY DEF TypeOK
    <2>4. /\ promised'[n].started = promised[n].started
          /\ promised'[n].methods = {}
          /\ promised'[n].callback = FALSE
      BY <2>2, <2>3, Zenon
    <2> QED
      BY <2>1, <2>4
  <1> QED
    BY <1>1, <1>2


LEMMA SocketInit == Init => SocketInv
  BY ListenerAssumption DEF Init, SocketInv, OpenSocketIsBound, Open, InShutdown

LEMMA SocketNext ==
  ASSUME TypeOK, SocketInv, OwnerInv, [Next]_vars
  PROVE  SocketInv'
  <1> USE ListenerAssumption DEF SocketInv, OpenSocketIsBound, Open, InShutdown, MadeSocket, OwnerInv, TypeOK, Socket
  <1>1. ASSUME NEW m \in Methods, AddMethod(m) \/ RemoveMethod(m) PROVE SocketInv'
    BY <1>1 DEF AddMethod, RemoveMethod, ChangeMap, Race, Die
  <1>2. CASE OnConnection
    BY <1>2 DEF OnConnection, Race, Die
  <1>3. CASE BindFails
    BY <1>3 DEF BindFails
  <1>4. ASSUME NEW d \in BOOLEAN, Listen(d) PROVE SocketInv'
    BY <1>4 DEF Listen
  <1>5. CASE InvokeDeferred
    BY <1>5 DEF InvokeDeferred
  <1>6. CASE StoreListening
    BY <1>6 DEF StoreListening
  <1>7. CASE StartThread
    BY <1>7 DEF StartThread, NotifyListener
  <1>8. ASSUME NEW o \in OwnerOps, BeginShutdown(o) \/ BeginReset(o) PROVE SocketInv'
    BY <1>8 DEF BeginShutdown, BeginReset
  <1>9. CASE SdStore
    BY <1>9 DEF SdStore, NotifyListener
  <1>10. CASE SdShut
    BY <1>10 DEF SdShut
  <1>11. CASE SdClose
    BY <1>11 DEF SdClose
  <1>12. CASE SdAwait \/ SdBlock \/ SdReturn
    BY <1>12 DEF SdAwait, SdBlock, SdReturn
  <1>13. CASE Clear
    BY <1>13, ClearFrame
  <1>14. CASE Terminate \/ Join
    BY <1>14 DEF Terminate, Join, NotifyListener
  <1>15. CASE ThreadTop
    BY <1>15 DEF ThreadTop, NotifyIdleable
  <1>16. CASE ThreadWait \/ ThreadBlock \/ ThreadReady \/ ThreadBusy
    BY <1>16 DEF ThreadWait, ThreadBlock, ThreadReady, ThreadBusy
  <1>17. CASE ThreadAccept
    BY <1>17 DEF ThreadAccept, Die
  <1>18. CASE ThreadAcceptFails \/ ThreadAcceptErrors
    BY <1>18 DEF ThreadAcceptFails, ThreadAcceptErrors, Die
  <1>19. ASSUME NEW c \in Clients, ThreadAccepts(c) PROVE SocketInv'
    BY <1>19 DEF ThreadAccepts
  <1>20. CASE HandlerAfterDestroy
    BY <1>20 DEF HandlerAfterDestroy, Die
  <1>21. CASE SpuriousWakeup
    BY <1>21 DEF SpuriousWakeup
  <1>22. ASSUME NEW c \in Clients, Handler(c) PROVE SocketInv'
    BY <1>22 DEF Handler, HandlerBegins, HandlerCopies, HandlerCalls, HandlerStep
  <1>23. ASSUME NEW c \in Clients, NEW n \in Socket, ClientConnects(c, n) PROVE SocketInv'
    BY <1>23 DEF ClientConnects
  <1>24. ASSUME NEW c \in Clients, ClientLeaves(c) PROVE SocketInv'
    BY <1>24 DEF ClientLeaves
  <1>25. CASE UNCHANGED vars
    BY <1>25 DEF vars
  <1> QED
    BY <1>1, <1>2, <1>3, <1>4, <1>5, <1>6, <1>7, <1>8, <1>9, <1>10, <1>11, <1>12, <1>13, <1>14, <1>15, <1>16, <1>17, <1>18, <1>19, <1>20, <1>21, <1>22, <1>23, <1>24, <1>25
       DEF Next, Owner, Thread, Shutdown, Client

LEMMA OwnerInit == Init => OwnerInv
  BY DEF Init, OwnerInv, InShutdown

LEMMA OwnerNext ==
  ASSUME TypeOK, SocketInv, OwnerInv, [Next]_vars
  PROVE  OwnerInv'
  <1> USE ListenerAssumption DEF SocketInv, Open, InShutdown, OwnerInv, TypeOK, Socket
  <1>1. ASSUME NEW m \in Methods, AddMethod(m) \/ RemoveMethod(m) PROVE OwnerInv'
    BY <1>1 DEF AddMethod, RemoveMethod, ChangeMap, Race, Die
  <1>2. CASE OnConnection
    BY <1>2 DEF OnConnection, Race, Die
  <1>3. CASE BindFails
    BY <1>3 DEF BindFails
  <1>4. ASSUME NEW d \in BOOLEAN, Listen(d) PROVE OwnerInv'
    BY <1>4 DEF Listen
  <1>5. CASE InvokeDeferred
    BY <1>5 DEF InvokeDeferred
  <1>6. CASE StoreListening
    BY <1>6 DEF StoreListening
  <1>7. CASE StartThread
    BY <1>7 DEF StartThread, NotifyListener
  <1>8. ASSUME NEW o \in OwnerOps, BeginShutdown(o) \/ BeginReset(o) PROVE OwnerInv'
    BY <1>8 DEF BeginShutdown, BeginReset
  <1>9. CASE SdStore
    BY <1>9 DEF SdStore, NotifyListener
  <1>10. CASE SdShut
    BY <1>10 DEF SdShut
  <1>11. CASE SdClose
    BY <1>11 DEF SdClose
  <1>12. CASE SdAwait \/ SdBlock \/ SdReturn
    BY <1>12 DEF SdAwait, SdBlock, SdReturn
  <1>13. CASE Clear
    BY <1>13, ClearFrame
  <1>14. CASE Terminate \/ Join
    BY <1>14 DEF Terminate, Join, NotifyListener
  <1>15. CASE ThreadTop
    BY <1>15 DEF ThreadTop, NotifyIdleable
  <1>16. CASE ThreadWait \/ ThreadBlock \/ ThreadReady \/ ThreadBusy
    BY <1>16 DEF ThreadWait, ThreadBlock, ThreadReady, ThreadBusy
  <1>17. CASE ThreadAccept
    BY <1>17 DEF ThreadAccept, Die
  <1>18. CASE ThreadAcceptFails \/ ThreadAcceptErrors
    BY <1>18 DEF ThreadAcceptFails, ThreadAcceptErrors, Die
  <1>19. ASSUME NEW c \in Clients, ThreadAccepts(c) PROVE OwnerInv'
    BY <1>19 DEF ThreadAccepts
  <1>20. CASE HandlerAfterDestroy
    BY <1>20 DEF HandlerAfterDestroy, Die
  <1>21. CASE SpuriousWakeup
    BY <1>21 DEF SpuriousWakeup
  <1>22. ASSUME NEW c \in Clients, Handler(c) PROVE OwnerInv'
    BY <1>22 DEF Handler, HandlerBegins, HandlerCopies, HandlerCalls, HandlerStep
  <1>23. ASSUME NEW c \in Clients, NEW n \in Socket, ClientConnects(c, n) PROVE OwnerInv'
    BY <1>23 DEF ClientConnects
  <1>24. ASSUME NEW c \in Clients, ClientLeaves(c) PROVE OwnerInv'
    BY <1>24 DEF ClientLeaves
  <1>25. CASE UNCHANGED vars
    BY <1>25 DEF vars
  <1> QED
    BY <1>1, <1>2, <1>3, <1>4, <1>5, <1>6, <1>7, <1>8, <1>9, <1>10, <1>11, <1>12, <1>13, <1>14, <1>15, <1>16, <1>17, <1>18, <1>19, <1>20, <1>21, <1>22, <1>23, <1>24, <1>25
       DEF Next, Owner, Thread, Shutdown, Client

LEMMA ClientInit == Init => ClientInv
  BY DEF Init, ClientInv

LEMMA ClientNext ==
  ASSUME TypeOK, SocketInv, OwnerInv, ClientInv, [Next]_vars
  PROVE  ClientInv'
  <1> USE ListenerAssumption DEF SocketInv, OpenSocketIsBound, Open, InShutdown, MadeSocket, OwnerInv, ClientInv, TypeOK, Socket
  <1>1. ASSUME NEW m \in Methods, AddMethod(m) \/ RemoveMethod(m) PROVE ClientInv'
    BY <1>1 DEF AddMethod, RemoveMethod, ChangeMap, Race, Die
  <1>2. CASE OnConnection
    BY <1>2 DEF OnConnection, Race, Die
  <1>3. CASE BindFails
    BY <1>3 DEF BindFails
  <1>4. ASSUME NEW d \in BOOLEAN, Listen(d) PROVE ClientInv'
    BY <1>4 DEF Listen
  <1>5. CASE InvokeDeferred
    BY <1>5 DEF InvokeDeferred
  <1>6. CASE StoreListening
    BY <1>6 DEF StoreListening
  <1>7. CASE StartThread
    BY <1>7 DEF StartThread, NotifyListener
  <1>8. ASSUME NEW o \in OwnerOps, BeginShutdown(o) \/ BeginReset(o) PROVE ClientInv'
    BY <1>8 DEF BeginShutdown, BeginReset
  <1>9. CASE SdStore
    BY <1>9 DEF SdStore, NotifyListener
  <1>10. CASE SdShut
    BY <1>10 DEF SdShut
  <1>11. CASE SdClose
    BY <1>11 DEF SdClose
  <1>12. CASE SdAwait \/ SdBlock \/ SdReturn
    BY <1>12 DEF SdAwait, SdBlock, SdReturn
  <1>13. CASE Clear
    BY <1>13, ClearFrame
  <1>14. CASE Terminate \/ Join
    BY <1>14 DEF Terminate, Join, NotifyListener
  <1>15. CASE ThreadTop
    BY <1>15 DEF ThreadTop, NotifyIdleable
  <1>16. CASE ThreadWait \/ ThreadBlock \/ ThreadReady \/ ThreadBusy
    BY <1>16 DEF ThreadWait, ThreadBlock, ThreadReady, ThreadBusy
  <1>17. CASE ThreadAccept
    BY <1>17 DEF ThreadAccept, Die
  <1>18. CASE ThreadAcceptFails \/ ThreadAcceptErrors
    BY <1>18 DEF ThreadAcceptFails, ThreadAcceptErrors, Die
  <1>19. ASSUME NEW c \in Clients, ThreadAccepts(c) PROVE ClientInv'
    BY <1>19 DEF ThreadAccepts
  <1>20. CASE HandlerAfterDestroy
    BY <1>20 DEF HandlerAfterDestroy, Die
  <1>21. CASE SpuriousWakeup
    BY <1>21 DEF SpuriousWakeup
  <1>22. ASSUME NEW c \in Clients, Handler(c) PROVE ClientInv'
    BY <1>22 DEF Handler, HandlerBegins, HandlerCopies, HandlerCalls, HandlerStep
  <1>23. ASSUME NEW c \in Clients, NEW n \in Socket, ClientConnects(c, n) PROVE ClientInv'
    BY <1>23 DEF ClientConnects
  <1>24. ASSUME NEW c \in Clients, ClientLeaves(c) PROVE ClientInv'
    BY <1>24 DEF ClientLeaves
  <1>25. CASE UNCHANGED vars
    BY <1>25 DEF vars
  <1> QED
    BY <1>1, <1>2, <1>3, <1>4, <1>5, <1>6, <1>7, <1>8, <1>9, <1>10, <1>11, <1>12, <1>13, <1>14, <1>15, <1>16, <1>17, <1>18, <1>19, <1>20, <1>21, <1>22, <1>23, <1>24, <1>25
       DEF Next, Owner, Thread, Shutdown, Client

LEMMA PromiseInit == Init => PromiseInv
  BY DEF Init, PromiseInv, Nothing

LEMMA PromiseNext ==
  ASSUME TypeOK, SocketInv, OwnerInv, PromiseInv, [Next]_vars
  PROVE  PromiseInv'
  <1> USE ListenerAssumption DEF SocketInv, Open, InShutdown, OwnerInv, PromiseInv, TypeOK, Socket
  <1>1. ASSUME NEW m \in Methods, AddMethod(m) \/ RemoveMethod(m) PROVE PromiseInv'
    <2>1. PICK ms \in SUBSET Methods : ChangeMap(ms)
      BY <1>1 DEF AddMethod, RemoveMethod
    <2>2. UNCHANGED <<binded, listening, socket_fd, bound, connection_callback>>
      BY <2>1 DEF ChangeMap, Race, Die
    <2> QED
      BY <2>1, <2>2, ChangeMapPromise
  <1>2. CASE OnConnection
    BY <1>2 DEF OnConnection, Race, Die
  <1>3. CASE BindFails
    BY <1>3 DEF BindFails
  <1>4. ASSUME NEW d \in BOOLEAN, Listen(d) PROVE PromiseInv'
    BY <1>4 DEF Listen
  <1>5. CASE InvokeDeferred
    BY <1>5 DEF InvokeDeferred
  <1>6. CASE StoreListening
    BY <1>6 DEF StoreListening
  <1>7. CASE StartThread
    BY <1>7 DEF StartThread, NotifyListener
  <1>8. ASSUME NEW o \in OwnerOps, BeginShutdown(o) \/ BeginReset(o) PROVE PromiseInv'
    BY <1>8 DEF BeginShutdown, BeginReset
  <1>9. CASE SdStore
    BY <1>9 DEF SdStore, NotifyListener
  <1>10. CASE SdShut
    BY <1>10 DEF SdShut
  <1>11. CASE SdClose
    BY <1>11 DEF SdClose
  <1>12. CASE SdAwait \/ SdBlock \/ SdReturn
    BY <1>12 DEF SdAwait, SdBlock, SdReturn
  <1>13. CASE Clear
    <2>1. \A n \in Socket : /\ promised'[n].started = promised[n].started
                            /\ promised'[n].methods \subseteq callback_map'
                            /\ promised'[n].callback => connection_callback'
      BY <1>13, ClearPromise
    <2>2. UNCHANGED <<binded, listening, bound, socket_fd>>
      BY <1>13, ClearFrame
    <2> QED
      BY <2>1, <2>2
  <1>14. CASE Terminate \/ Join
    BY <1>14 DEF Terminate, Join, NotifyListener
  <1>15. CASE ThreadTop
    BY <1>15 DEF ThreadTop, NotifyIdleable
  <1>16. CASE ThreadWait \/ ThreadBlock \/ ThreadReady \/ ThreadBusy
    BY <1>16 DEF ThreadWait, ThreadBlock, ThreadReady, ThreadBusy
  <1>17. CASE ThreadAccept
    BY <1>17 DEF ThreadAccept, Die
  <1>18. CASE ThreadAcceptFails \/ ThreadAcceptErrors
    BY <1>18 DEF ThreadAcceptFails, ThreadAcceptErrors, Die
  <1>19. ASSUME NEW c \in Clients, ThreadAccepts(c) PROVE PromiseInv'
    BY <1>19 DEF ThreadAccepts
  <1>20. CASE HandlerAfterDestroy
    BY <1>20 DEF HandlerAfterDestroy, Die
  <1>21. CASE SpuriousWakeup
    BY <1>21 DEF SpuriousWakeup
  <1>22. ASSUME NEW c \in Clients, Handler(c) PROVE PromiseInv'
    BY <1>22 DEF Handler, HandlerBegins, HandlerCopies, HandlerCalls, HandlerStep
  <1>23. ASSUME NEW c \in Clients, NEW n \in Socket, ClientConnects(c, n) PROVE PromiseInv'
    BY <1>23 DEF ClientConnects
  <1>24. ASSUME NEW c \in Clients, ClientLeaves(c) PROVE PromiseInv'
    BY <1>24 DEF ClientLeaves
  <1>25. CASE UNCHANGED vars
    BY <1>25 DEF vars
  <1> QED
    BY <1>1, <1>2, <1>3, <1>4, <1>5, <1>6, <1>7, <1>8, <1>9, <1>10, <1>11, <1>12, <1>13, <1>14, <1>15, <1>16, <1>17, <1>18, <1>19, <1>20, <1>21, <1>22, <1>23, <1>24, <1>25
       DEF Next, Owner, Thread, Shutdown, Client

LEMMA DeferredInit == Init => DeferredInv
  BY DEF Init, DeferredInv, Nothing, DeferredWaits, FirstClients, Open

LEMMA DeferredNext ==
  ASSUME TypeOK, SocketInv, OwnerInv, ClientInv, PromiseInv, DeferredInv, [Next]_vars
  PROVE  DeferredInv'
  <1> USE ListenerAssumption DEF DeferredInv, DeferredWaits, FirstClients, SocketInv, OpenSocketIsBound, Open, InShutdown, OwnerInv, ClientInv, PromiseInv, TypeOK, Socket
  <1>1. ASSUME NEW m \in Methods, AddMethod(m) \/ RemoveMethod(m) PROVE DeferredInv'
    <2>1. PICK ms \in SUBSET Methods : ChangeMap(ms)
      BY <1>1 DEF AddMethod, RemoveMethod
    <2>2. UNCHANGED <<binded, listening, terminate_listener, socket_fd, connection_callback, threadVars,
                    ownerVars, sockVars, clientVars>>
      BY <2>1 DEF ChangeMap, Race, Die
    <2>3. 1 \in Socket => /\ promised'[1].started = promised[1].started
                          /\ promised'[1].callback = promised[1].callback
                          /\ promised'[1].methods \subseteq promised[1].methods
      BY <2>1, ChangeMapPromise, Zenon
    <2> QED
      BY <2>2, <2>3
  <1>2. CASE OnConnection
    BY <1>2 DEF OnConnection, Race, Die
  <1>3. CASE BindFails
    BY <1>3 DEF BindFails
  <1>4. ASSUME NEW d \in BOOLEAN, Listen(d) PROVE DeferredInv'
    BY <1>4 DEF Listen
  <1>5. CASE InvokeDeferred
    BY <1>5 DEF InvokeDeferred
  <1>6. CASE StoreListening
    BY <1>6 DEF StoreListening
  <1>7. CASE StartThread
    BY <1>7 DEF StartThread, NotifyListener
  <1>8. ASSUME NEW o \in OwnerOps, BeginShutdown(o) \/ BeginReset(o) PROVE DeferredInv'
    BY <1>8 DEF BeginShutdown, BeginReset
  <1>9. CASE SdStore
    BY <1>9 DEF SdStore, NotifyListener
  <1>10. CASE SdShut
    BY <1>10 DEF SdShut
  <1>11. CASE SdClose
    BY <1>11 DEF SdClose
  <1>12. CASE SdAwait \/ SdBlock \/ SdReturn
    BY <1>12 DEF SdAwait, SdBlock, SdReturn
  <1>13. CASE Clear
    BY <1>13, ClearFrame, ClearPromise
  <1>14. CASE Terminate \/ Join
    BY <1>14 DEF Terminate, Join, NotifyListener
  <1>15. CASE ThreadTop
    BY <1>15 DEF ThreadTop, NotifyIdleable
  <1>16. CASE ThreadWait \/ ThreadBlock \/ ThreadReady \/ ThreadBusy
    BY <1>16 DEF ThreadWait, ThreadBlock, ThreadReady, ThreadBusy
  <1>17. CASE ThreadAccept
    BY <1>17 DEF ThreadAccept, Die
  <1>18. CASE ThreadAcceptFails \/ ThreadAcceptErrors
    BY <1>18 DEF ThreadAcceptFails, ThreadAcceptErrors, Die
  <1>19. ASSUME NEW c \in Clients, ThreadAccepts(c) PROVE DeferredInv'
    BY <1>19 DEF ThreadAccepts
  <1>20. CASE HandlerAfterDestroy
    BY <1>20 DEF HandlerAfterDestroy, Die
  <1>21. CASE SpuriousWakeup
    BY <1>21 DEF SpuriousWakeup
  <1>22. ASSUME NEW c \in Clients, Handler(c) PROVE DeferredInv'
    <2>1. PICK target \in ClientStates \ {"new", "queued", "aborted", "refused"} :
            client' = [client EXCEPT ![c] = target]
      BY <1>22 DEF Handler, HandlerBegins, HandlerCopies, HandlerCalls, HandlerStep, ClientStates
    <2>2. /\ client[c] \notin {"queued", "aborted", "refused"}
          /\ UNCHANGED <<fieldVars, threadVars, ownerVars, sockVars, to, promised>>
      BY <1>22 DEF Handler, HandlerBegins, HandlerCopies, HandlerCalls, HandlerStep
    <2> QED
      BY <2>1, <2>2
  <1>23. ASSUME NEW c \in Clients, NEW n \in Socket, ClientConnects(c, n) PROVE DeferredInv'
    BY <1>23 DEF ClientConnects
  <1>24. ASSUME NEW c \in Clients, ClientLeaves(c) PROVE DeferredInv'
    BY <1>24 DEF ClientLeaves
  <1>25. CASE UNCHANGED vars
    BY <1>25 DEF vars
  <1> QED
    BY <1>1, <1>2, <1>3, <1>4, <1>5, <1>6, <1>7, <1>8, <1>9, <1>10, <1>11, <1>12, <1>13, <1>14, <1>15, <1>16, <1>17, <1>18, <1>19, <1>20, <1>21, <1>22, <1>23, <1>24, <1>25
       DEF Next, Owner, Thread, Shutdown, Client

LEMMA HandedInit == Init => HandedReady
  BY DEF Init, HandedReady, FirstClients

LEMMA HandedNext ==
  ASSUME TypeOK, SocketInv, OwnerInv, ClientInv, PromiseInv, DeferredInv, HandedReady, [Next]_vars
  PROVE  HandedReady'
  <1> USE ListenerAssumption DEF HandedReady, DeferredInv, DeferredWaits, FirstClients, SocketInv, OpenSocketIsBound, Open, InShutdown, OwnerInv, ClientInv, PromiseInv, TypeOK, Socket
  <1>1. ASSUME NEW m \in Methods, AddMethod(m) \/ RemoveMethod(m) PROVE HandedReady'
    <2>1. PICK ms \in SUBSET Methods : ChangeMap(ms)
      BY <1>1 DEF AddMethod, RemoveMethod
    <2>2. UNCHANGED <<binded, listening, terminate_listener, socket_fd, connection_callback, threadVars,
                    ownerVars, sockVars, clientVars>>
      BY <2>1 DEF ChangeMap, Race, Die
    <2>3. 1 \in Socket => /\ promised'[1].started = promised[1].started
                          /\ promised'[1].callback = promised[1].callback
                          /\ promised'[1].methods \subseteq promised[1].methods
      BY <2>1, ChangeMapPromise, Zenon
    <2> QED
      BY <2>2, <2>3
  <1>2. CASE OnConnection
    BY <1>2 DEF OnConnection, Race, Die
  <1>3. CASE BindFails
    BY <1>3 DEF BindFails
  <1>4. ASSUME NEW d \in BOOLEAN, Listen(d) PROVE HandedReady'
    BY <1>4 DEF Listen
  <1>5. CASE InvokeDeferred
    BY <1>5 DEF InvokeDeferred
  <1>6. CASE StoreListening
    BY <1>6 DEF StoreListening
  <1>7. CASE StartThread
    BY <1>7 DEF StartThread, NotifyListener
  <1>8. ASSUME NEW o \in OwnerOps, BeginShutdown(o) \/ BeginReset(o) PROVE HandedReady'
    BY <1>8 DEF BeginShutdown, BeginReset
  <1>9. CASE SdStore
    BY <1>9 DEF SdStore, NotifyListener
  <1>10. CASE SdShut
    BY <1>10 DEF SdShut
  <1>11. CASE SdClose
    BY <1>11 DEF SdClose
  <1>12. CASE SdAwait \/ SdBlock \/ SdReturn
    BY <1>12 DEF SdAwait, SdBlock, SdReturn
  <1>13. CASE Clear
    BY <1>13, ClearFrame, ClearPromise
  <1>14. CASE Terminate \/ Join
    BY <1>14 DEF Terminate, Join, NotifyListener
  <1>15. CASE ThreadTop
    BY <1>15 DEF ThreadTop, NotifyIdleable
  <1>16. CASE ThreadWait \/ ThreadBlock \/ ThreadReady \/ ThreadBusy
    BY <1>16 DEF ThreadWait, ThreadBlock, ThreadReady, ThreadBusy
  <1>17. CASE ThreadAccept
    BY <1>17 DEF ThreadAccept, Die
  <1>18. CASE ThreadAcceptFails \/ ThreadAcceptErrors
    BY <1>18 DEF ThreadAcceptFails, ThreadAcceptErrors, Die
  <1>19. ASSUME NEW c \in Clients, ThreadAccepts(c) PROVE HandedReady'
    BY <1>19 DEF ThreadAccepts
  <1>20. CASE HandlerAfterDestroy
    BY <1>20 DEF HandlerAfterDestroy, Die
  <1>21. CASE SpuriousWakeup
    BY <1>21 DEF SpuriousWakeup
  <1>22. ASSUME NEW c \in Clients, Handler(c) PROVE HandedReady'
    BY <1>22 DEF Handler, HandlerBegins, HandlerCopies, HandlerCalls, HandlerStep
  <1>23. ASSUME NEW c \in Clients, NEW n \in Socket, ClientConnects(c, n) PROVE HandedReady'
    BY <1>23 DEF ClientConnects
  <1>24. ASSUME NEW c \in Clients, ClientLeaves(c) PROVE HandedReady'
    BY <1>24 DEF ClientLeaves
  <1>25. CASE UNCHANGED vars
    BY <1>25 DEF vars
  <1> QED
    BY <1>1, <1>2, <1>3, <1>4, <1>5, <1>6, <1>7, <1>8, <1>9, <1>10, <1>11, <1>12, <1>13, <1>14, <1>15, <1>16, <1>17, <1>18, <1>19, <1>20, <1>21, <1>22, <1>23, <1>24, <1>25
       DEF Next, Owner, Thread, Shutdown, Client

LEMMA DownInit == Init => DownInv /\ FatalOnlyAfterShutdown
  BY DEF Init, DownInv, Accepted, FatalOnlyAfterShutdown

LEMMA DownNext ==
  ASSUME TypeOK, SocketInv, OwnerInv, ClientInv, DownInv, [Next]_vars
  PROVE  DownInv'
  <1> USE ListenerAssumption DEF DownInv, TornDown, Accepted, SocketInv, OpenSocketIsBound, Open, InShutdown, MadeSocket, OwnerInv, ClientInv, TypeOK, Socket
  <1>1. ASSUME NEW m \in Methods, AddMethod(m) \/ RemoveMethod(m) PROVE DownInv'
    BY <1>1 DEF AddMethod, RemoveMethod, ChangeMap, Race, Die
  <1>2. CASE OnConnection
    BY <1>2 DEF OnConnection, Race, Die
  <1>3. CASE BindFails
    BY <1>3 DEF BindFails
  <1>4. ASSUME NEW d \in BOOLEAN, Listen(d) PROVE DownInv'
    BY <1>4 DEF Listen
  <1>5. CASE InvokeDeferred
    BY <1>5 DEF InvokeDeferred
  <1>6. CASE StoreListening
    BY <1>6 DEF StoreListening
  <1>7. CASE StartThread
    BY <1>7 DEF StartThread, NotifyListener
  <1>8. ASSUME NEW o \in OwnerOps, BeginShutdown(o) \/ BeginReset(o) PROVE DownInv'
    BY <1>8 DEF BeginShutdown, BeginReset
  <1>9. CASE SdStore
    BY <1>9 DEF SdStore, NotifyListener
  <1>10. CASE SdShut
    BY <1>10 DEF SdShut
  <1>11. CASE SdClose
    BY <1>11 DEF SdClose
  <1>12. CASE SdAwait \/ SdBlock \/ SdReturn
    BY <1>12 DEF SdAwait, SdBlock, SdReturn
  <1>13. CASE Clear
    BY <1>13, ClearFrame
  <1>14. CASE Terminate \/ Join
    BY <1>14 DEF Terminate, Join, NotifyListener
  <1>15. CASE ThreadTop
    BY <1>15 DEF ThreadTop, NotifyIdleable
  <1>16. CASE ThreadWait \/ ThreadBlock \/ ThreadReady \/ ThreadBusy
    BY <1>16 DEF ThreadWait, ThreadBlock, ThreadReady, ThreadBusy
  <1>17. CASE ThreadAccept
    BY <1>17 DEF ThreadAccept, Die
  <1>18. CASE ThreadAcceptFails \/ ThreadAcceptErrors
    BY <1>18 DEF ThreadAcceptFails, ThreadAcceptErrors, Die
  <1>19. ASSUME NEW c \in Clients, ThreadAccepts(c) PROVE DownInv'
    BY <1>19 DEF ThreadAccepts
  <1>20. CASE HandlerAfterDestroy
    BY <1>20 DEF HandlerAfterDestroy, Die
  <1>21. CASE SpuriousWakeup
    BY <1>21 DEF SpuriousWakeup
  <1>22. ASSUME NEW c \in Clients, Handler(c) PROVE DownInv'
    BY <1>22 DEF Handler, HandlerBegins, HandlerCopies, HandlerCalls, HandlerStep
  <1>23. ASSUME NEW c \in Clients, NEW n \in Socket, ClientConnects(c, n) PROVE DownInv'
    BY <1>23 DEF ClientConnects
  <1>24. ASSUME NEW c \in Clients, ClientLeaves(c) PROVE DownInv'
    BY <1>24 DEF ClientLeaves
  <1>25. CASE UNCHANGED vars
    BY <1>25 DEF vars
  <1> QED
    BY <1>1, <1>2, <1>3, <1>4, <1>5, <1>6, <1>7, <1>8, <1>9, <1>10, <1>11, <1>12, <1>13, <1>14, <1>15, <1>16, <1>17, <1>18, <1>19, <1>20, <1>21, <1>22, <1>23, <1>24, <1>25
       DEF Next, Owner, Thread, Shutdown, Client

(* The steps that end the process, but for an accept() that fails on an    *)
(* open socket and a reconfiguration: each finds a socket taken down.      *)
LEMMA DeathAfterShutdown ==
  ASSUME TypeOK, SocketInv, OwnerInv, ClientInv, DownInv, Next,
         fate' # fate, fate' \notin {"accept_error", "reconfigured"}
  PROVE  TornDown /\ UNCHANGED lsock
  <1> USE DEF TypeOK, Socket, Open, SocketInv, MadeSocket, OwnerInv, DownInv, TornDown, InShutdown
  <1>1. ASSUME MapInUse \/ CallbackInUse, Race, MayConfigure \/ pcO = "clear"
        PROVE  TornDown /\ UNCHANGED lsock
    BY <1>1 DEF Race, Die, MayConfigure, MapInUse, CallbackInUse, Accepted
  <1>2. CASE OnConnection \/ Clear \/ \E m \in Methods : AddMethod(m) \/ RemoveMethod(m)
    BY <1>1, <1>2 DEF AddMethod, RemoveMethod, ChangeMap, OnConnection, Clear
  <1>3. CASE ThreadAccept
    BY <1>3 DEF ThreadAccept, Die
  <1>4. CASE ThreadAcceptFails \/ ThreadAcceptErrors
    BY <1>4 DEF ThreadAcceptFails, ThreadAcceptErrors, Die
  <1>5. CASE HandlerAfterDestroy
    BY <1>5 DEF HandlerAfterDestroy, Die, Accepted
  <1>6. CASE UNCHANGED fate
    BY <1>6
  <1> QED
    BY <1>2, <1>3, <1>4, <1>5, <1>6
       DEF Next, Owner, BindFails, Listen, InvokeDeferred, StoreListening, StartThread,
           BeginShutdown, BeginReset, Shutdown, SdStore, SdShut, SdClose, SdAwait, SdBlock, SdReturn,
           Terminate, Join, Thread, ThreadTop, ThreadWait, ThreadBlock, ThreadReady, ThreadBusy,
           ThreadAccepts, SpuriousWakeup, Handler, HandlerBegins, HandlerCopies, HandlerCalls,
           HandlerStep, Client, ClientConnects, ClientLeaves

LEMMA FatalNext ==
  ASSUME TypeOK, SocketInv, OwnerInv, ClientInv, DownInv,
         FatalOnlyAfterShutdown, [Next]_vars
  PROVE  FatalOnlyAfterShutdown'
  <1>1. CASE fate' # fate /\ fate' \notin {"accept_error", "reconfigured"}
    <2>1. TornDown /\ UNCHANGED lsock
      BY <1>1, DeathAfterShutdown
    <2> QED
      BY <2>1 DEF FatalOnlyAfterShutdown, TornDown
  <1>2. CASE fate' \in {"accept_error", "reconfigured"} \/ (fate' = fate /\ fate = "running")
    BY <1>2 DEF FatalOnlyAfterShutdown
  <1>3. CASE fate # "running"
    <2>1. UNCHANGED <<lsock, fate>>
      BY <1>3 DEF Next
    <2> QED
      BY <2>1 DEF FatalOnlyAfterShutdown
  <1> QED
    BY <1>1, <1>2, <1>3

-----------------------------------------------------------------------------
(* The parts together are inductive.                                       *)
ListenerInv == /\ SocketInv /\ OwnerInv /\ ClientInv /\ PromiseInv
               /\ DeferredInv /\ HandedReady /\ DownInv

LEMMA ListenerInvariant == Spec => []ListenerInv
  <1>1. Init => ListenerInv
    BY SocketInit, OwnerInit, ClientInit, PromiseInit, DeferredInit, HandedInit, DownInit
       DEF ListenerInv
  <1>2. TypeOK /\ ListenerInv /\ [Next]_vars => ListenerInv'
    BY SocketNext, OwnerNext, ClientNext, PromiseNext, DeferredNext, HandedNext, DownNext
       DEF ListenerInv
  <1> QED
    BY <1>1, <1>2, TypeCorrect, PTL DEF Spec

(* An open listening socket is always the one socket_fd names, and bound   *)
(* or about to be closed: listen(), shutdown() and reset() in any order    *)
(* never leave one behind.                                                 *)
THEOREM NoSocketForgotten == Spec => []OpenSocketIsBound
  <1>1. ListenerInv => OpenSocketIsBound
    BY DEF ListenerInv, SocketInv
  <1> QED
    BY <1>1, ListenerInvariant, PTL

(* No client of the first listen() is accepted before invoke_deferred().   *)
THEOREM DeferredListenerWaits == Spec => []DeferredWaits
  <1>1. ListenerInv => DeferredWaits
    BY DEF ListenerInv, DeferredInv
  <1> QED
    BY <1>1, ListenerInvariant, PTL

(* Every connection of the first listen() reaches the callback that was    *)
(* set when listening began, with every method added until then that was   *)
(* not removed, although handlers read both without a lock.                *)
THEOREM HandedOverReady == Spec => []HandedReady
  <1>1. ListenerInv => HandedReady
    BY DEF ListenerInv
  <1> QED
    BY <1>1, ListenerInvariant, PTL

(* Whatever the owner does in whatever order, a failed accept() on a socket *)
(* that is not open, a race of a handler with the owner and a handler that *)
(* outlives the listener all come after a socket was taken down.           *)
THEOREM FatalAfterShutdown == Spec => []FatalOnlyAfterShutdown
  <1>1. Init => FatalOnlyAfterShutdown
    BY DownInit
  <1>2. TypeOK /\ ListenerInv /\ FatalOnlyAfterShutdown /\ [Next]_vars => FatalOnlyAfterShutdown'
    BY FatalNext DEF ListenerInv
  <1> QED
    BY <1>1, <1>2, TypeCorrect, ListenerInvariant, PTL DEF Spec

-----------------------------------------------------------------------------
(* The refinement of Acceptor.                                             *)

Opened == \E n \in Socket : Open(n)
States == [c \in Clients |-> StateOf(c)]

LEMMA ServiceInit == Init => Service!Init
  BY DEF Init, Service!Init, StateOf, Open

(* A step that changes neither which sockets are open nor what a client    *)
(* sees is a stutter of the acceptor.                                      *)
LEMMA ServiceStutter ==
  ASSUME Opened' = Opened, \A c \in Clients : StateOf(c)' = StateOf(c)
  PROVE  UNCHANGED <<Opened, States>>
  BY DEF States

(* One client moves on, the others stay as they are.                       *)
LEMMA ServiceMove ==
  ASSUME TypeOK, NEW c \in Clients, NEW target, client' = [client EXCEPT ![c] = target]
  PROVE  States' = [States EXCEPT ![c] = StateOf(c)']
  <1>1. ASSUME NEW d \in Clients, d # c PROVE StateOf(d)' = StateOf(d)
    BY <1>1 DEF StateOf, TypeOK
  <1> QED
    BY <1>1 DEF States

LEMMA ServiceShut ==
  ASSUME TypeOK, SocketInv, ClientInv, SdShut
  PROVE  Service!Close
  <1>1. Open(socket_fd) /\ socket_fd \in Socket /\ \A n \in Socket : Open(n) => n = socket_fd
    BY DEF SdShut, SocketInv, OpenSocketIsBound, InShutdown, Open, TypeOK, Socket
  <1>2. Opened /\ ~Opened'
    BY <1>1 DEF SdShut, Opened, Open, TypeOK
  <1>3. ASSUME NEW c \in Clients
        PROVE  StateOf(c)' = IF StateOf(c) = "waiting" THEN "refused" ELSE StateOf(c)
    <2>1. client[c] = "queued" => to[c] = socket_fd
      <3>1. to[c] \in 0..MaxListens
        BY DEF TypeOK
      <3> QED
        BY <1>1, <3>1 DEF ClientInv, Open, Socket
    <2>2. client'[c] = IF client[c] = "queued" THEN "refused" ELSE client[c]
      BY <2>1 DEF SdShut
    <2> QED
      BY <2>2 DEF StateOf, TypeOK, ClientStates
  <1>4. States' = [c \in Clients |-> IF States[c] = "waiting" THEN "refused" ELSE States[c]]
    BY <1>3 DEF States
  <1> QED
    BY <1>2, <1>4 DEF Service!Close, Opened, States

LEMMA ServiceNext ==
  ASSUME TypeOK, SocketInv, OwnerInv, ClientInv, [Next]_vars
  PROVE  [Service!Next]_<<Opened, States>>
  <1>1. ASSUME NEW d \in BOOLEAN, Listen(d) PROVE Service!Bind
    <2>1. bound + 1 \in Socket /\ bound \in Nat
      BY <1>1, ListenerAssumption DEF Listen, TypeOK, Socket
    <2>2. ~Opened /\ Opened' /\ UNCHANGED client
      BY <1>1, <2>1 DEF Listen, Opened, SocketInv, OpenSocketIsBound, Open, TypeOK, Socket
    <2>3. UNCHANGED States
      BY <2>2 DEF States, StateOf
    <2> QED
      BY <2>2, <2>3 DEF Service!Bind, Opened, States
  <1>2. CASE SdShut
    BY <1>2, ServiceShut DEF Service!Next
  <1>3. ASSUME NEW c \in Clients, NEW n \in Socket, ClientConnects(c, n) PROVE Service!Connect(c)
    <2>1. Opened /\ UNCHANGED Opened /\ StateOf(c) = "away" /\ StateOf(c)' = "waiting"
      BY <1>3 DEF ClientConnects, Opened, Open, StateOf, TypeOK
    <2>2. States' = [States EXCEPT ![c] = "waiting"] /\ States[c] = "away"
      BY <1>3, <2>1, ServiceMove DEF ClientConnects, States
    <2> QED
      BY <2>1, <2>2 DEF Service!Connect, Service!Move, Opened, States
  <1>4. ASSUME NEW c \in Clients, ThreadAccepts(c) PROVE Service!Accept(c)
    <2>1. Opened /\ UNCHANGED Opened /\ StateOf(c) = "waiting" /\ StateOf(c)' = "accepted"
      BY <1>4 DEF ThreadAccepts, Opened, Open, StateOf, TypeOK, Socket
    <2>2. States' = [States EXCEPT ![c] = "accepted"] /\ States[c] = "waiting"
      BY <1>4, <2>1, ServiceMove DEF ThreadAccepts, States
    <2> QED
      BY <2>1, <2>2 DEF Service!Accept, Service!Move, Opened, States
  <1>10. ASSUME NEW c \in Clients, ClientLeaves(c), client[c] = "queued" PROVE Service!Abort(c)
    <2>1. Opened' = Opened /\ StateOf(c) = "waiting" /\ StateOf(c)' = "aborted"
      BY <1>10 DEF ClientLeaves, Opened, Open, StateOf, TypeOK
    <2>2. States' = [States EXCEPT ![c] = "aborted"] /\ States[c] = "waiting"
      BY <1>10, <2>1, ServiceMove DEF ClientLeaves, States
    <2> QED
      BY <2>1, <2>2 DEF Service!Abort, Service!Move, Opened, States
  <1>5. ASSUME NEW c \in Clients, HandlerCalls(c) PROVE Service!Serve(c)
    <2>1. UNCHANGED Opened /\ StateOf(c) = "accepted" /\ StateOf(c)' = "served"
      BY <1>5 DEF HandlerCalls, HandlerStep, Opened, Open, StateOf, TypeOK
    <2>2. States' = [States EXCEPT ![c] = "served"] /\ States[c] = "accepted"
      BY <1>5, <2>1, ServiceMove DEF HandlerCalls, HandlerStep, States
    <2> QED
      BY <2>1, <2>2 DEF Service!Serve, Service!Move, Opened, States
  <1>6. ASSUME NEW c \in Clients, \/ HandlerBegins(c) \/ HandlerCopies(c)
                                  \/ ClientLeaves(c) /\ client[c] = "handed"
        PROVE  UNCHANGED <<Opened, States>>
    <2>1. UNCHANGED lsock /\ \A d \in Clients : StateOf(d)' = StateOf(d)
      BY <1>6 DEF HandlerBegins, HandlerCopies, HandlerStep, ClientLeaves, StateOf, TypeOK
    <2> QED
      BY <2>1, ServiceStutter DEF Opened, Open
  <1>7. CASE UNCHANGED client /\ \A n \in Socket : Open(n)' = Open(n)
    <2>1. \A c \in Clients : StateOf(c)' = StateOf(c)
      BY <1>7 DEF StateOf
    <2> QED
      BY <1>7, <2>1, ServiceStutter DEF Opened, Socket
  <1>8. CASE BindFails \/ SdClose
    <2>1. UNCHANGED client /\ \A n \in Socket : Open(n)' = Open(n)
      BY <1>8 DEF BindFails, SdClose, SocketInv, OpenSocketIsBound, Open, OwnerInv, InShutdown, TypeOK, Socket
    <2> QED
      BY <1>7, <2>1
  <1>9. CASE \/ UNCHANGED <<client, lsock>>
    BY <1>7, <1>9 DEF Open
  <1> QED
    <2>1. ASSUME NEW m \in Methods, AddMethod(m) \/ RemoveMethod(m) PROVE UNCHANGED <<client, lsock>>
      BY <2>1 DEF AddMethod, RemoveMethod, ChangeMap, Race, Die
    <2>2. ASSUME Owner, ~BindFails, ~SdShut, ~SdClose, \A d \in BOOLEAN : ~Listen(d)
          PROVE  UNCHANGED <<client, lsock>>
      BY <2>1, <2>2, ClearFrame
         DEF Owner, OnConnection, Race, Die, InvokeDeferred, StoreListening, StartThread, BeginShutdown,
             BeginReset, Shutdown, SdStore, SdAwait, SdBlock, SdReturn, Terminate, Join
    <2>3. ASSUME Thread \/ ThreadAcceptErrors, \A c \in Clients : ~ThreadAccepts(c) PROVE UNCHANGED <<client, lsock>>
      BY <2>3 DEF Thread, ThreadTop, ThreadWait, ThreadBlock, ThreadReady, ThreadBusy, ThreadAccept,
                  ThreadAcceptFails, ThreadAcceptErrors, Die
    <2>4. CASE HandlerAfterDestroy \/ SpuriousWakeup \/ UNCHANGED vars
      BY <1>9, <2>4 DEF HandlerAfterDestroy, Die, SpuriousWakeup
    <2> QED
      BY <1>1, <1>2, <1>3, <1>4, <1>5, <1>6, <1>8, <1>9, <1>10, <2>2, <2>3, <2>4
         DEF Next, Handler, Client, ClientLeaves, Service!Next

(* The listener, its thread and the detached handlers together implement   *)
(* Acceptor: each client waits, is accepted and is handed over once, and   *)
(* is refused only by a shutdown that comes before it was accepted.        *)
THEOREM AcceptorImplemented == Spec => ImplementsAcceptor
  <1>1. TypeOK /\ ListenerInv /\ [Next]_vars => [Service!Next]_<<Opened, States>>
    BY ServiceNext DEF ListenerInv
  <1> QED
    BY <1>1, ServiceInit, TypeCorrect, ListenerInvariant, PTL
       DEF Spec, ImplementsAcceptor, Service!Spec, Opened, States

=============================================================================
