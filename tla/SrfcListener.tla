----------------------------- MODULE SrfcListener -----------------------------
(***************************************************************************)
(* One net::srfc_listener object and every thread that touches it: the     *)
(* owner, the thread running __listener_thread__ and a detached            *)
(* connection_handler for each client that was accepted.                   *)
(*                                                                         *)
(* Listening sockets are numbered 1, 2, ... in the order they are bound;   *)
(* socket_fd, which shutdown() does not reset, holds the number of the     *)
(* last one.  A client comes once.                                         *)
(***************************************************************************)
EXTENDS Integers, FiniteSets

CONSTANTS Clients,
          Methods,
          MaxListens,  \* bound: sockets made for listening in one behaviour
          MaxOpen,     \* descriptors for accepted clients, or leaked, before EMFILE
          OwnerOps     \* what the owner does besides configuring and listening

AllOps == {"shutdown", "reset", "destroy",
           "configure"}  \* add_method, remove_method, on_connection while listening

ASSUME ListenerAssumption == /\ MaxListens \in Nat /\ MaxOpen \in Nat
                             /\ OwnerOps \subseteq AllOps

Socket == 1..MaxListens

VARIABLES
  \* the fields of srfc_listener; connection_callback is FALSE for the default
  binded, listening, idleable, terminate_listener, socket_fd, callback_map,
  connection_callback,
  \* __listener_thread__: program counter, the socket it is in accept() with
  pcT, accepting,
  \* the owner: program counter, and the operation that runs shutdown()
  pcO, op,
  \* the sockets made, and the state of each
  bound, lsock,
  \* the clients: state, the socket they came to, methods of their connection
  client, to, methods,
  \* why the process died, "running" while it has not
  fate,
  \* auxiliary: promised[n]: what was configured when listening began on n
  \* and has not been removed since
  promised

fieldVars  == <<binded, listening, idleable, terminate_listener, socket_fd, callback_map,
                connection_callback>>
threadVars == <<pcT, accepting>>
ownerVars  == <<pcO, op>>
sockVars   == <<bound, lsock>>
clientVars == <<client, to, methods>>

vars == <<fieldVars, threadVars, ownerVars, sockVars, clientVars, fate, promised>>

Nothing == [started |-> FALSE, methods |-> {}, callback |-> FALSE]

Init == /\ binded = FALSE /\ listening = FALSE /\ idleable = TRUE
        /\ terminate_listener = FALSE /\ socket_fd = 0
        /\ callback_map = {} /\ connection_callback = FALSE
        /\ pcT = "none" /\ accepting = 0
        /\ pcO = "idle" /\ op = "none"
        /\ bound = 0 /\ lsock = [n \in Socket |-> "none"]
        /\ client = [c \in Clients |-> "new"]
        /\ to = [c \in Clients |-> 0]
        /\ methods = [c \in Clients |-> {}]
        /\ fate = "running"
        /\ promised = [n \in Socket |-> Nothing]

Open(n) == n # 0 /\ lsock[n] = "open"

(* Descriptors in use for clients, or lost.                                *)
Held == Cardinality({c \in Clients : client[c] \in {"accepted", "copying", "copied", "handed"}})
          + Cardinality({n \in Socket : lsock[n] = "leaked"})

Die(cause) == /\ fate' = cause
              /\ UNCHANGED <<fieldVars, threadVars, ownerVars, sockVars, clientVars, promised>>

(* A notify reaches a thread that is asleep and is lost on one that has    *)
(* only evaluated its predicate: neither mutex is held by the notifiers.   *)
NotifyListener == pcT' = IF pcT = "asleep" THEN "wait" ELSE pcT

NotifyIdleable == pcO' = IF pcO = "sd_asleep" THEN "sd_await" ELSE pcO

SpuriousWakeup ==
  \/ /\ pcT = "asleep" /\ pcT' = "wait"
     /\ UNCHANGED <<fieldVars, accepting, ownerVars, sockVars, clientVars, fate, promised>>
  \/ /\ pcO = "sd_asleep" /\ pcO' = "sd_await"
     /\ UNCHANGED <<fieldVars, threadVars, op, sockVars, clientVars, fate, promised>>

-----------------------------------------------------------------------------
(* Configuration: add_method, remove_method, on_connection.  Handlers read *)
(* callback_map and connection_callback without a lock, and a callback may *)
(* still run when its connection has been handed over: a change meanwhile  *)
(* is undefined, it may end the process or go unnoticed.                   *)

MayConfigure == pcO = "idle" /\ (~listening \/ "configure" \in OwnerOps)

MapInUse == \E c \in Clients : client[c] = "copying"

CallbackInUse == \E c \in Clients : client[c] \in {"copied", "handed"}

Race == Die(IF listening THEN "reconfigured" ELSE "data_race")

ChangeMap(ms) ==
  \/ /\ callback_map' = ms
     /\ promised' = [n \in Socket |-> [promised[n] EXCEPT !.methods = @ \cap ms]]
     /\ UNCHANGED <<binded, listening, idleable, terminate_listener, socket_fd,
                    connection_callback, threadVars, ownerVars, sockVars, clientVars, fate>>
  \/ MapInUse /\ Race

AddMethod(m) == MayConfigure /\ m \notin callback_map /\ ChangeMap(callback_map \cup {m})

RemoveMethod(m) == MayConfigure /\ m \in callback_map /\ ChangeMap(callback_map \ {m})

OnConnection ==
  /\ MayConfigure
  /\ \/ /\ connection_callback' = TRUE
        /\ UNCHANGED <<binded, listening, idleable, terminate_listener, socket_fd, callback_map,
                       threadVars, ownerVars, sockVars, clientVars, fate, promised>>
     \/ CallbackInUse /\ Race

-----------------------------------------------------------------------------
(* listen() and invoke_deferred().                                         *)

(* Mutant: listen() of a listener that is bound already.                   *)
Listen_Twice(deferred) ==
  /\ pcO = "idle" /\ bound < MaxListens
  /\ bound' = bound + 1
  /\ lsock' = [lsock EXCEPT ![bound + 1] = "open"]
  /\ socket_fd' = bound + 1
  /\ binded' = TRUE
  /\ pcO' = IF deferred THEN "idle" ELSE "store"
  /\ UNCHANGED <<listening, idleable, terminate_listener, callback_map, connection_callback,
                 threadVars, op, clientVars, fate, promised>>

(* Mutant: a deferred listener starts all the same.                        *)
Listen_IgnoresDeferred(deferred) ==
  /\ pcO = "idle" /\ ~listening /\ ~binded /\ bound < MaxListens
  /\ bound' = bound + 1
  /\ lsock' = [lsock EXCEPT ![bound + 1] = "open"]
  /\ socket_fd' = bound + 1
  /\ binded' = TRUE /\ listening' = TRUE
  /\ pcO' = "start"
  /\ UNCHANGED <<idleable, terminate_listener, callback_map, connection_callback,
                 threadVars, op, clientVars, fate, promised>>

(* Mutant: the result of socket() is not checked.                          *)
Listen_Unchecked(deferred) ==
  /\ pcO = "idle" /\ ~listening /\ ~binded
  /\ socket_fd' = -1
  /\ binded' = TRUE
  /\ pcO' = IF deferred THEN "idle" ELSE "store"
  /\ UNCHANGED <<listening, idleable, terminate_listener, callback_map, connection_callback,
                 threadVars, op, sockVars, clientVars, fate, promised>>

(* The checks and __bind__, which binds the socket and listens on it;      *)
(* listen(socket_t) gets such a socket from its caller.                    *)
Listen(deferred) ==
  /\ pcO = "idle" /\ ~listening /\ ~binded /\ bound < MaxListens
  /\ bound' = bound + 1
  /\ lsock' = [lsock EXCEPT ![bound + 1] = "open"]
  /\ socket_fd' = bound + 1
  /\ binded' = TRUE
  /\ pcO' = IF deferred THEN "idle" ELSE "store"
  /\ UNCHANGED <<listening, idleable, terminate_listener, callback_map, connection_callback,
                 threadVars, op, clientVars, fate, promised>>

(* The socket cannot be set up, bound or listened on: __bind__ throws to   *)
(* the owner, and nothing closes the descriptor.                           *)
BindFails ==
  /\ pcO = "idle" /\ ~listening /\ ~binded /\ bound < MaxListens
  /\ bound' = bound + 1
  /\ lsock' = [lsock EXCEPT ![bound + 1] = "leaked"]
  /\ UNCHANGED <<fieldVars, threadVars, ownerVars, clientVars, fate, promised>>

InvokeDeferred ==
  /\ pcO = "idle" /\ ~listening /\ binded
  /\ pcO' = "store"
  /\ UNCHANGED <<fieldVars, threadVars, op, sockVars, clientVars, fate, promised>>

StoreListening ==
  /\ pcO = "store"
  /\ listening' = TRUE
  /\ pcO' = "start"
  /\ promised' = [promised EXCEPT ![socket_fd] =
                    [started |-> TRUE, methods |-> callback_map, callback |-> connection_callback]]
  /\ UNCHANGED <<binded, idleable, terminate_listener, socket_fd, callback_map,
                 connection_callback, threadVars, op, sockVars, clientVars, fate>>

(* Mutant: a thread that exists is left asleep, a missing one not started. *)
StartThread_Missing ==
  /\ pcO = "start" /\ pcO' = "idle"
  /\ UNCHANGED <<fieldVars, threadVars, op, sockVars, clientVars, fate, promised>>

StartThread ==
  /\ pcO = "start"
  /\ IF pcT = "none" THEN pcT' = "top" ELSE NotifyListener
  /\ pcO' = "idle"
  /\ UNCHANGED <<fieldVars, accepting, op, sockVars, clientVars, fate, promised>>

-----------------------------------------------------------------------------
(* shutdown(), reset() and the destructor.                                 *)

(* shutdown() with its check; reset() and the destructor call it if the    *)
(* listener is bound.                                                      *)
BeginShutdown(o) ==
  /\ pcO = "idle" /\ binded /\ o \in OwnerOps \ {"configure"}
  /\ op' = o
  /\ binded' = FALSE
  /\ pcO' = "sd_store"
  /\ UNCHANGED <<listening, idleable, terminate_listener, socket_fd, callback_map,
                 connection_callback, threadVars, sockVars, clientVars, fate, promised>>

BeginReset(o) ==
  /\ pcO = "idle" /\ ~binded /\ o \in OwnerOps \cap {"reset", "destroy"}
  /\ op' = o
  /\ pcO' = "clear"
  /\ UNCHANGED <<fieldVars, threadVars, sockVars, clientVars, fate, promised>>

SdStore ==
  /\ pcO = "sd_store"
  /\ listening' = FALSE
  /\ NotifyListener
  /\ pcO' = "sd_shut"
  /\ UNCHANGED <<binded, idleable, terminate_listener, socket_fd, callback_map,
                 connection_callback, accepting, op, sockVars, clientVars, fate, promised>>

(* Mutant: the socket is closed without ::shutdown.                        *)
SdShut_Skipped ==
  /\ pcO = "sd_shut"
  /\ pcO' = "sd_close"
  /\ UNCHANGED <<fieldVars, threadVars, op, sockVars, clientVars, fate, promised>>

(* __shutdown__ of a listening socket fails a blocked accept() and refuses *)
(* the clients that wait for it.                                           *)
SdShut ==
  /\ pcO = "sd_shut"
  /\ lsock' = [lsock EXCEPT ![socket_fd] = "shut"]
  /\ client' = [c \in Clients |-> IF client[c] = "queued" /\ to[c] = socket_fd
                                  THEN "refused" ELSE client[c]]
  /\ pcO' = "sd_close"
  /\ UNCHANGED <<fieldVars, threadVars, op, bound, to, methods, fate, promised>>

(* __close__; a blocked accept() would keep a socket not shut down open.   *)
SdClose ==
  /\ pcO = "sd_close"
  /\ lsock' = IF Open(socket_fd) /\ pcT = "accepting" THEN lsock
              ELSE [lsock EXCEPT ![socket_fd] = "closed"]
  /\ pcO' = IF pcT = "none" THEN "sd_done" ELSE "sd_await"
  /\ UNCHANGED <<fieldVars, threadVars, op, bound, clientVars, fate, promised>>

SdAwait ==
  /\ pcO = "sd_await"
  /\ pcO' = IF idleable THEN "sd_done" ELSE "sd_block"
  /\ UNCHANGED <<fieldVars, threadVars, op, sockVars, clientVars, fate, promised>>

SdBlock ==
  /\ pcO = "sd_block"
  /\ pcO' = "sd_asleep"
  /\ UNCHANGED <<fieldVars, threadVars, op, sockVars, clientVars, fate, promised>>

SdReturn ==
  /\ pcO = "sd_done"
  /\ pcO' = IF op = "shutdown" THEN "idle" ELSE "clear"
  /\ UNCHANGED <<fieldVars, threadVars, op, sockVars, clientVars, fate, promised>>

Clear ==
  /\ pcO = "clear"
  /\ \/ /\ callback_map' = {} /\ connection_callback' = FALSE
        /\ promised' = [n \in Socket |-> [promised[n] EXCEPT !.methods = {}, !.callback = FALSE]]
        /\ pcO' = CASE op = "reset" -> "idle"
                    [] op = "destroy" /\ pcT = "none" -> "dead"
                    [] OTHER -> "terminate"
        /\ UNCHANGED <<binded, listening, idleable, terminate_listener, socket_fd, threadVars,
                       op, sockVars, clientVars, fate>>
     \/ (MapInUse \/ CallbackInUse) /\ Race

Terminate ==
  /\ pcO = "terminate"
  /\ terminate_listener' = TRUE
  /\ NotifyListener
  /\ pcO' = "join"
  /\ UNCHANGED <<binded, listening, idleable, socket_fd, callback_map, connection_callback,
                 accepting, op, sockVars, clientVars, fate, promised>>

Join ==
  /\ pcO = "join" /\ pcT = "returned"
  /\ pcO' = "dead"
  /\ UNCHANGED <<fieldVars, threadVars, op, sockVars, clientVars, fate, promised>>

Shutdown == SdStore \/ SdShut \/ SdClose \/ SdAwait \/ SdBlock \/ SdReturn

Owner == \/ \E m \in Methods : AddMethod(m) \/ RemoveMethod(m)
         \/ OnConnection
         \/ BindFails \/ \E d \in BOOLEAN : Listen(d)
         \/ InvokeDeferred \/ StoreListening \/ StartThread
         \/ \E o \in OwnerOps : BeginShutdown(o) \/ BeginReset(o)
         \/ Shutdown \/ Clear \/ Terminate \/ Join

-----------------------------------------------------------------------------
(* __listener_thread__.                                                    *)

ThreadTop ==
  /\ pcT = "top"
  /\ idleable' = TRUE
  /\ NotifyIdleable
  /\ pcT' = "wait"
  /\ UNCHANGED <<binded, listening, terminate_listener, socket_fd, callback_map,
                 connection_callback, accepting, op, sockVars, clientVars, fate, promised>>

ThreadWait ==
  /\ pcT = "wait"
  /\ pcT' = IF listening \/ terminate_listener THEN "ready" ELSE "block"
  /\ UNCHANGED <<fieldVars, accepting, ownerVars, sockVars, clientVars, fate, promised>>

ThreadBlock ==
  /\ pcT = "block"
  /\ pcT' = "asleep"
  /\ UNCHANGED <<fieldVars, accepting, ownerVars, sockVars, clientVars, fate, promised>>

ThreadReady ==
  /\ pcT = "ready"
  /\ pcT' = IF terminate_listener THEN "returned" ELSE "busy"
  /\ UNCHANGED <<fieldVars, accepting, ownerVars, sockVars, clientVars, fate, promised>>

ThreadBusy ==
  /\ pcT = "busy"
  /\ idleable' = FALSE
  /\ pcT' = "accept"
  /\ UNCHANGED <<binded, listening, terminate_listener, socket_fd, callback_map,
                 connection_callback, accepting, ownerVars, sockVars, clientVars, fate, promised>>

(* Mutant: the thread accepts on the socket it accepted on before.         *)
ThreadAccept_Cached ==
  /\ pcT = "accept"
  /\ IF Open(accepting)
     THEN /\ pcT' = "accepting"
          /\ UNCHANGED <<fieldVars, accepting, ownerVars, sockVars, clientVars, fate, promised>>
     ELSE Die("accept_failed")

(* __accept__ loads socket_fd and enters accept(); what it throws nobody   *)
(* catches, so the thread takes the process with it.                       *)
ThreadAccept ==
  /\ pcT = "accept"
  /\ IF Open(socket_fd)
     THEN /\ pcT' = "accepting" /\ accepting' = socket_fd
          /\ UNCHANGED <<fieldVars, ownerVars, sockVars, clientVars, fate, promised>>
     ELSE Die("accept_failed")

ThreadAccepts(c) ==
  /\ pcT = "accepting" /\ Open(accepting)
  /\ client[c] = "queued" /\ to[c] = accepting /\ Held < MaxOpen
  /\ client' = [client EXCEPT ![c] = "accepted"]
  /\ pcT' = "top"
  /\ UNCHANGED <<fieldVars, accepting, ownerVars, sockVars, to, methods, fate, promised>>

ThreadAcceptFails == pcT = "accepting" /\ ~Open(accepting) /\ Die("accept_failed")

(* accept() fails on an open socket, whatever the reason: a client that    *)
(* aborted, no descriptor or memory left, a signal; or there is no thread  *)
(* for the client.                                                         *)
ThreadAcceptErrors == pcT = "accepting" /\ Open(accepting) /\ Die("accept_error")

OutOfDescriptors ==
  Held >= MaxOpen /\ \E c \in Clients : client[c] = "queued" /\ to[c] = accepting

Thread == \/ ThreadTop \/ ThreadWait \/ ThreadBlock \/ ThreadReady \/ ThreadBusy
          \/ ThreadAccept \/ ThreadAcceptFails \/ \E c \in Clients : ThreadAccepts(c)

-----------------------------------------------------------------------------
(* connection_handler(): makes a deferred srfc_connection, adds the        *)
(* methods, and passes it on.  The default callback drops it.              *)

HandlerStep(c, from, target) ==
  /\ client[c] = from /\ pcO # "dead"
  /\ client' = [client EXCEPT ![c] = target]
  /\ UNCHANGED <<fieldVars, threadVars, ownerVars, sockVars, to, fate, promised>>

HandlerBegins(c) == HandlerStep(c, "accepted", "copying") /\ UNCHANGED methods

HandlerCopies(c) == /\ HandlerStep(c, "copying", "copied")
                    /\ methods' = [methods EXCEPT ![c] = callback_map]

(* Mutant: the connection is passed on before its methods are added.       *)
HandlerCalls_Early(c) ==
  /\ client[c] \in {"accepted", "copied"}
  /\ HandlerStep(c, client[c], IF connection_callback THEN "handed" ELSE "dropped")
  /\ UNCHANGED methods

HandlerCalls(c) ==
  /\ HandlerStep(c, "copied", IF connection_callback THEN "handed" ELSE "dropped")
  /\ UNCHANGED methods

(* The handlers are detached; one that has not passed its connection on    *)
(* when the listener is gone uses freed memory.                            *)
HandlerAfterDestroy ==
  /\ pcO = "dead"
  /\ \E c \in Clients : client[c] \in {"accepted", "copying", "copied"}
  /\ Die("use_after_free")

Handler(c) == HandlerBegins(c) \/ HandlerCopies(c) \/ HandlerCalls(c)

-----------------------------------------------------------------------------
(* The clients.  One that leaves while it waits may be taken out of the    *)
(* queue, or stays there and is accepted like any other; the connection of *)
(* one that was accepted notices, and closes its descriptor, once it has   *)
(* been handed over.                                                       *)

ClientConnects(c, n) ==
  /\ client[c] = "new" /\ Open(n)
  /\ client' = [client EXCEPT ![c] = "queued"]
  /\ to' = [to EXCEPT ![c] = n]
  /\ UNCHANGED <<fieldVars, threadVars, ownerVars, sockVars, methods, fate, promised>>

ClientLeaves(c) ==
  /\ client[c] \in {"queued", "handed"}
  /\ client' = [client EXCEPT ![c] = IF @ = "queued" THEN "aborted" ELSE "gone"]
  /\ UNCHANGED <<fieldVars, threadVars, ownerVars, sockVars, to, methods, fate, promised>>

Client(c) == ClientLeaves(c) \/ \E n \in Socket : ClientConnects(c, n)

Next == /\ fate = "running"
        /\ \/ Owner \/ Thread \/ ThreadAcceptErrors \/ HandlerAfterDestroy \/ SpuriousWakeup
           \/ \E c \in Clients : Handler(c) \/ Client(c)

Spec == Init /\ [][Next]_vars

(* The scheduler runs every thread of the library; the owner's choice of   *)
(* the next operation and the clients are free.                            *)
OwnerRuns == fate = "running" /\ (StoreListening \/ StartThread \/ Shutdown \/ Clear
                                 \/ Terminate \/ Join)

Fairness == /\ WF_vars(OwnerRuns)
            /\ WF_vars(fate = "running" /\ Thread)
            /\ WF_vars(fate = "running" /\ OutOfDescriptors /\ ThreadAcceptErrors)
            /\ WF_vars(fate = "running" /\ HandlerAfterDestroy)
            /\ \A c \in Clients : WF_vars(fate = "running" /\ Handler(c))

FairSpec == Spec /\ Fairness

-----------------------------------------------------------------------------
(* Every variable has its type.                                            *)
ClientStates == {"new", "queued", "aborted", "refused", "accepted", "copying", "copied", "handed",
                 "dropped", "gone"}

TypeOK ==
  /\ binded \in BOOLEAN /\ listening \in BOOLEAN /\ idleable \in BOOLEAN
  /\ terminate_listener \in BOOLEAN /\ connection_callback \in BOOLEAN
  /\ socket_fd \in 0..MaxListens /\ callback_map \subseteq Methods
  /\ pcT \in {"none", "top", "wait", "block", "asleep", "ready", "busy", "accept",
              "accepting", "returned"}
  /\ accepting \in 0..MaxListens
  /\ pcO \in {"idle", "store", "start", "sd_store", "sd_shut", "sd_close", "sd_await",
              "sd_block", "sd_asleep", "sd_done", "clear", "terminate", "join", "dead"}
  /\ op \in {"none", "shutdown", "reset", "destroy"}
  /\ bound \in 0..MaxListens
  /\ lsock \in [Socket -> {"none", "open", "leaked", "shut", "closed"}]
  /\ client \in [Clients -> ClientStates]
  /\ to \in [Clients -> 0..MaxListens]
  /\ methods \in [Clients -> SUBSET Methods]
  /\ fate \in {"running", "accept_failed", "accept_error", "data_race", "reconfigured", "use_after_free"}
  /\ promised \in [Socket -> [started : BOOLEAN, methods : SUBSET Methods, callback : BOOLEAN]]

(* Clients of the first listen(): a deferred listener may accept too early *)
(* once it has been shut down and bound again, because a thread that has   *)
(* passed the wait for the old socket goes on to the new one.              *)
FirstClients == {c \in Clients : to[c] = 1}

(* A connection is handed over with every method, and to the callback,     *)
(* that was set when listening began, unless removed or reset since.       *)
HandedReady ==
  \A c \in FirstClients :
    /\ client[c] \in {"copied", "handed"} => promised[1].methods \subseteq methods[c]
    /\ client[c] = "dropped" => ~promised[1].callback

(* A listening socket that is open is the one socket_fd names, and the     *)
(* object is bound or shutdown() is about to close it: none is forgotten.  *)
OpenSocketIsBound ==
  \A n \in Socket : Open(n) => n = socket_fd /\ (binded \/ pcO \in {"sd_store", "sd_shut"})

(* Of its own accord the listener ends the process only once a socket has  *)
(* been taken down: before that, its thread never accepts on a socket that *)
(* is not open, no handler races with the owner and none outlives the      *)
(* object.  An accept() that fails on an open socket ends the process too, *)
(* and so may an owner that reconfigures while it listens.                 *)
FatalOnlyAfterShutdown ==
  fate \in {"accept_failed", "data_race", "use_after_free"} =>
    \E n \in Socket : lsock[n] \in {"shut", "closed"}

(* A deferred listener does not accept before it is told to, so that the   *)
(* application can set its callbacks.                                      *)
DeferredWaits ==
  \A c \in FirstClients : client[c] \notin {"queued", "aborted", "refused"} => promised[1].started

(* Clients wait, are accepted and handed over once, and are refused only   *)
(* by a shutdown: the listener implements Acceptor.                        *)
StateOf(c) == CASE client[c] = "new" -> "away"
                [] client[c] = "queued" -> "waiting"
                [] client[c] \in {"aborted", "refused"} -> client[c]
                [] client[c] \in {"accepted", "copying", "copied"} -> "accepted"
                [] client[c] \in {"handed", "dropped", "gone"} -> "served"

Service == INSTANCE Acceptor WITH open <- \E n \in Socket : Open(n),
                                state <- [c \in Clients |-> StateOf(c)]

ImplementsAcceptor == Service!Spec

Stopped == fate # "running"

(* A client that waits while the first listen() is in force is handed to   *)
(* the application, or refused by a shutdown.                              *)
ClientServed ==
  \A c \in Clients :
    client[c] = "queued" /\ to[c] = 1 /\ listening
      ~> client[c] \notin {"queued", "accepted", "copying", "copied"} \/ Stopped
=============================================================================
