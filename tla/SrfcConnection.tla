---------------------------- MODULE SrfcConnection ----------------------------
(***************************************************************************)
(* One net::srfc_connection object and every thread that touches it:       *)
(*                                                                         *)
(*   owner     the application thread that connects, shuts down, resets    *)
(*             and destroys the object;                                    *)
(*   listener  the thread running __listener__;                            *)
(*   calls     one std::async thread for each send_request;                *)
(*   handlers  one detached thread for each message that is dispatched.    *)
(*                                                                         *)
(* Each thread has a program counter; a step is one access to state shared *)
(* with another thread.  Atomics are sequentially consistent, the accesses *)
(* the code leaves unsynchronised (socket_fd, callback_map) interleave at  *)
(* the same granularity.  Messages are whole: framing is the subject of    *)
(* SrfcFraming, but several messages may be read at once.                  *)
(***************************************************************************)
EXTENDS SrfcSocket, FiniteSets

CONSTANTS Calls,     \* send_request calls of the application
          Requests,  \* requests the peer may make
          Ids,       \* request ids; an application may reuse a request object
          Methods,   \* method names
          MethodOf,  \* MethodOf[r]: the method the peer's request r names
          OwnerOps,  \* what the owner does besides connecting: a subset of AllOps
          NoReply    \* a response made up locally: status connection_error

AllOps == {"shutdown", "reset", "destroy",  \* take down an object that is connected
           "remove",                        \* remove_method
           "early"}                         \* invoke_deferred before any connect

ASSUME ConnectionAssumption == /\ MethodOf \in [Requests -> Methods]
                               /\ OwnerOps \subseteq AllOps
                               /\ NoReply \notin Calls

Message == [type : {"RES"}, of : Calls, session : Session]
             \cup [type : {"REQ"}, of : Requests, session : Session]

Threads == {"owner", "listener"}  \* the threads that run shutdown()

VARIABLES
  \* the fields of srfc_connection
  connected, idleable, terminate_listener, socket_fd, callback_map, response_queue,
  \* __listener__: program counter and locals
  pcL, prev_connection, receivedData, reading,
  \* the owner, and how far each thread is in shutdown()
  pcO, sd,
  \* __send_request__: program counter, request id, the session the request
  \* reached (0: none), the answer given by the peer, the result returned
  call, rid, via, answered, reply,
  \* detached threads: responses in handle_response before add_response and
  \* before notify_all; requests in handle_request
  adding, notifying, req,
  \* why the process died, "running" while it has not
  fate,
  \* auxiliary: the connection was down or the send failed during the call
  broken

fieldVars    == <<connected, idleable, terminate_listener, socket_fd, callback_map, response_queue>>
listenerVars == <<pcL, prev_connection, receivedData, reading>>
ownerVars    == <<pcO, sd>>
callVars     == <<call, rid, via, answered, reply, broken>>
handlerVars  == <<adding, notifying, req>>

vars == <<fieldVars, listenerVars, ownerVars, callVars, handlerVars, fate, sockVars>>

Init == /\ SockInit
        /\ connected = FALSE /\ idleable = TRUE /\ terminate_listener = FALSE
        /\ socket_fd = 0 /\ callback_map = {} /\ response_queue = {}
        /\ pcL = "none" /\ prev_connection = 0 /\ receivedData = <<>> /\ reading = 0
        /\ pcO = "idle" /\ sd = [t \in Threads |-> "none"]
        /\ call = [c \in Calls |-> "new"]
        /\ rid \in [Calls -> Ids]
        /\ via = [c \in Calls |-> 0]
        /\ answered = {}
        /\ reply = [c \in Calls |-> NoReply]
        /\ broken = [c \in Calls |-> FALSE]
        /\ adding = {} /\ notifying = {}
        /\ req = [r \in Requests |-> "new"]
        /\ fate = "running"

Pending(c) == call[c] \notin {"new", "returned"}
Handling(r) == req[r] \in {"lookup", "invoke", "reply", "send"}

(* Mutant: no mutex.                                                       *)
MutexFree_Ignored == TRUE

(* Locking of response_cv_mutex: a call holds it while it evaluates the    *)
(* predicate of the wait and from then on until it sleeps or returns.      *)
MutexFree == \A c \in Calls : call[c] \notin {"test", "block", "woke", "read"}

Die(cause) == /\ fate' = cause
              /\ UNCHANGED <<fieldVars, listenerVars, ownerVars, callVars, handlerVars, sockVars>>

-----------------------------------------------------------------------------
(* Condition variables.  A notify reaches the threads asleep at that       *)
(* moment and is lost on one that has evaluated its predicate ("block") but *)
(* is not asleep yet: no notifier holds the waiter's mutex.                *)

NotifyListener == pcL' = IF pcL = "asleep" THEN "wait" ELSE pcL

NotifyCalls == call' = [c \in Calls |-> IF call[c] = "asleep" THEN "wait" ELSE call[c]]

NotifyIdleable == sd' = [t \in Threads |-> IF sd[t] = "asleep" THEN "await" ELSE sd[t]]

(* Wakeups without a notify, which every condition variable may have.      *)
SpuriousWakeup ==
  \/ /\ pcL = "asleep" /\ pcL' = "wait"
     /\ UNCHANGED <<fieldVars, prev_connection, receivedData, reading, ownerVars,
                    callVars, handlerVars, fate, sockVars>>
  \/ \E c \in Calls :
       /\ call[c] = "asleep" /\ call' = [call EXCEPT ![c] = "wait"]
       /\ UNCHANGED <<fieldVars, listenerVars, ownerVars, rid, via, answered, reply,
                      broken, handlerVars, fate, sockVars>>
  \/ \E t \in Threads :
       /\ sd[t] = "asleep" /\ sd' = [sd EXCEPT ![t] = "await"]
       /\ UNCHANGED <<fieldVars, listenerVars, pcO, callVars, handlerVars, fate, sockVars>>

-----------------------------------------------------------------------------
(* connect(), invoke_deferred(), add_method(), remove_method().            *)

(* The check of connected and __connect__ up to the assignment of          *)
(* socket_fd; connect(socketFd) differs in where the socket comes from.    *)
Connect(f) ==
  /\ pcO = "idle" /\ ~connected
  /\ SocketOpen(f)
  /\ socket_fd' = f
  /\ pcO' = "connecting"
  /\ UNCHANGED <<connected, idleable, terminate_listener, callback_map, response_queue,
                 listenerVars, sd, callVars, handlerVars, fate>>

(* A connect that fails after socket() leaves the new descriptor open.     *)
ConnectFails(f) ==
  /\ pcO = "idle" /\ ~connected
  /\ SocketLeak(f)
  /\ UNCHANGED <<fieldVars, listenerVars, ownerVars, callVars, handlerVars, fate>>

ConnectStore(deferred) ==
  /\ pcO = "connecting"
  /\ connected' = TRUE
  /\ pcO' = IF deferred THEN "idle" ELSE "starting"
  /\ UNCHANGED <<idleable, terminate_listener, socket_fd, callback_map, response_queue,
                 listenerVars, sd, callVars, handlerVars, fate, sockVars>>

(* A disciplined owner calls it once the object is connected.              *)
InvokeDeferred ==
  /\ pcO = "idle"
  /\ connected \/ "early" \in OwnerOps
  /\ pcO' = "starting"
  /\ UNCHANGED <<fieldVars, listenerVars, sd, callVars, handlerVars, fate, sockVars>>

StartListener ==
  /\ pcO = "starting"
  /\ IF pcL = "none" THEN pcL' = "top" ELSE NotifyListener
  /\ pcO' = "idle"
  /\ UNCHANGED <<fieldVars, prev_connection, receivedData, reading, sd, callVars,
                 handlerVars, fate, sockVars>>

SetMethods(ms) ==
  /\ pcO = "idle"
  /\ callback_map' = ms
  /\ UNCHANGED <<connected, idleable, terminate_listener, socket_fd, response_queue,
                 listenerVars, ownerVars, callVars, handlerVars, fate, sockVars>>

AddMethod(m) == m \notin callback_map /\ SetMethods(callback_map \cup {m})

RemoveMethod(m) == /\ "remove" \in OwnerOps
                   /\ m \in callback_map
                   /\ SetMethods(callback_map \ {m})

-----------------------------------------------------------------------------
(* shutdown(), by thread t; reset() and the destructor, by the owner.      *)

BeginShutdown ==
  /\ pcO = "idle" /\ "shutdown" \in OwnerOps
  /\ pcO' = "shutdown" /\ sd' = [sd EXCEPT !["owner"] = "check"]
  /\ UNCHANGED <<fieldVars, listenerVars, callVars, handlerVars, fate, sockVars>>

BeginReset ==
  /\ pcO = "idle" /\ "reset" \in OwnerOps
  /\ pcO' = "reset"
  /\ sd' = [sd EXCEPT !["owner"] = IF connected THEN "check" ELSE "none"]
  /\ UNCHANGED <<fieldVars, listenerVars, callVars, handlerVars, fate, sockVars>>

(* The futures of send_request block in their destructors, so an owner     *)
(* destroys the object after its calls have returned.                      *)
BeginDestroy ==
  /\ pcO = "idle"
  /\ connected => "destroy" \in OwnerOps
  /\ \A c \in Calls : ~Pending(c)
  /\ pcO' = "destroy"
  /\ sd' = [sd EXCEPT !["owner"] = IF connected THEN "check" ELSE "none"]
  /\ UNCHANGED <<fieldVars, listenerVars, callVars, handlerVars, fate, sockVars>>

(* An exception leaves shutdown(): the caller of shutdown() or reset()     *)
(* gets it; out of the listener thread or of the destructor it terminates  *)
(* the process.                                                            *)
SdThrows(t, cause) ==
  IF t = "owner" /\ pcO # "destroy"
  THEN /\ sd' = [sd EXCEPT ![t] = "none"] /\ pcO' = "idle"
       /\ UNCHANGED <<fieldVars, listenerVars, callVars, handlerVars, fate, sockVars>>
  ELSE Die(cause)

(* The check of connected; the store that follows is a step of its own.    *)
SdCheck(t) ==
  /\ sd[t] = "check"
  /\ IF connected
     THEN /\ sd' = [sd EXCEPT ![t] = "store"]
          /\ UNCHANGED <<fieldVars, listenerVars, pcO, callVars, handlerVars, fate, sockVars>>
     ELSE SdThrows(t, "shutdown_when_down")

SdStore(t) ==
  /\ sd[t] = "store"
  /\ connected' = FALSE
  /\ broken' = [c \in Calls |-> broken[c] \/ Pending(c)]
  /\ NotifyListener
  /\ sd' = [sd EXCEPT ![t] = "shut"]
  /\ UNCHANGED <<idleable, terminate_listener, socket_fd, callback_map, response_queue,
                 prev_connection, receivedData, reading, pcO, call, rid, via, answered,
                 reply, handlerVars, fate, sockVars>>

(* Mutant: the socket is closed without ::shutdown.                        *)
SdShut_Skipped(t) ==
  /\ sd[t] = "shut"
  /\ sd' = [sd EXCEPT ![t] = "close"]
  /\ UNCHANGED <<fieldVars, listenerVars, pcO, callVars, handlerVars, fate, sockVars>>

SdShut(t) ==
  /\ sd[t] = "shut"
  /\ SocketShutdown(socket_fd)
  /\ sd' = [sd EXCEPT ![t] = "close"]
  /\ UNCHANGED <<fieldVars, listenerVars, pcO, callVars, handlerVars, fate>>

SdClose(t) ==
  /\ sd[t] = "close"
  /\ SocketClose(socket_fd)
  /\ sd' = [sd EXCEPT ![t] = "zero"]
  /\ UNCHANGED <<fieldVars, listenerVars, pcO, callVars, handlerVars, fate>>

SdCloseFails(t) == /\ sd[t] = "close" /\ CloseFails(socket_fd)
                   /\ SdThrows(t, "close_failed")

(* Mutant: shutdown() does not wait for the listener.                      *)
SdZero_NoWait(t) ==
  /\ sd[t] = "zero"
  /\ socket_fd' = 0
  /\ sd' = [sd EXCEPT ![t] = "notify"]
  /\ UNCHANGED <<connected, idleable, terminate_listener, callback_map, response_queue,
                 listenerVars, pcO, callVars, handlerVars, fate, sockVars>>

SdZero(t) ==
  /\ sd[t] = "zero"
  /\ socket_fd' = 0
  /\ sd' = [sd EXCEPT ![t] = IF pcL = "none" THEN "notify" ELSE "await"]
  /\ UNCHANGED <<connected, idleable, terminate_listener, callback_map, response_queue,
                 listenerVars, pcO, callVars, handlerVars, fate, sockVars>>

SdAwait(t) ==
  /\ sd[t] = "await"
  /\ sd' = [sd EXCEPT ![t] = IF idleable THEN "notify" ELSE "block"]
  /\ UNCHANGED <<fieldVars, listenerVars, pcO, callVars, handlerVars, fate, sockVars>>

SdBlock(t) ==
  /\ sd[t] = "block"
  /\ sd' = [sd EXCEPT ![t] = "asleep"]
  /\ UNCHANGED <<fieldVars, listenerVars, pcO, callVars, handlerVars, fate, sockVars>>

(* Mutant: shutdown() does not notify response_cv.                         *)
SdNotify_Silent(t) ==
  /\ sd[t] = "notify"
  /\ sd' = [sd EXCEPT ![t] = "clear"]
  /\ UNCHANGED <<fieldVars, listenerVars, pcO, callVars, handlerVars, fate, sockVars>>

SdNotify(t) ==
  /\ sd[t] = "notify"
  /\ NotifyCalls
  /\ sd' = [sd EXCEPT ![t] = "clear"]
  /\ UNCHANGED <<fieldVars, listenerVars, pcO, rid, via, answered, reply, broken,
                 handlerVars, fate, sockVars>>

SdClear(t) ==
  /\ sd[t] = "clear"
  /\ response_queue' = {}
  /\ sd' = [sd EXCEPT ![t] = "none"]
  /\ IF t = "listener" THEN pcL' = "top" /\ UNCHANGED pcO
     ELSE /\ pcO' = IF pcO = "shutdown" THEN "idle" ELSE pcO
          /\ UNCHANGED pcL
  /\ UNCHANGED <<connected, idleable, terminate_listener, socket_fd, callback_map,
                 prev_connection, receivedData, reading, callVars, handlerVars, fate, sockVars>>

ClearMethods ==
  /\ pcO \in {"reset", "destroy"} /\ sd["owner"] = "none"
  /\ callback_map' = {}
  /\ pcO' = CASE pcO = "reset" -> "idle"
              [] pcO = "destroy" /\ pcL = "none" -> "dead"
              [] OTHER -> "terminate"
  /\ UNCHANGED <<connected, idleable, terminate_listener, socket_fd, response_queue,
                 listenerVars, sd, callVars, handlerVars, fate, sockVars>>

Terminate ==
  /\ pcO = "terminate"
  /\ terminate_listener' = TRUE
  /\ NotifyListener
  /\ pcO' = "join"
  /\ UNCHANGED <<connected, idleable, socket_fd, callback_map, response_queue,
                 prev_connection, receivedData, reading, sd, callVars, handlerVars, fate, sockVars>>

Join ==
  /\ pcO = "join" /\ pcL = "returned"
  /\ pcO' = "dead"
  /\ UNCHANGED <<fieldVars, listenerVars, sd, callVars, handlerVars, fate, sockVars>>

Shutdown(t) == \/ SdCheck(t) \/ SdStore(t) \/ SdShut(t) \/ SdClose(t) \/ SdCloseFails(t)
               \/ SdZero(t) \/ SdAwait(t) \/ SdBlock(t) \/ SdNotify(t) \/ SdClear(t)

Owner == \/ \E f \in Fds : Connect(f) \/ ConnectFails(f)
         \/ \E d \in BOOLEAN : ConnectStore(d)
         \/ InvokeDeferred \/ StartListener
         \/ \E m \in Methods : AddMethod(m) \/ RemoveMethod(m)
         \/ BeginShutdown \/ BeginReset \/ BeginDestroy
         \/ Shutdown("owner") \/ ClearMethods \/ Terminate \/ Join

-----------------------------------------------------------------------------
(* __listener__.                                                           *)

ListenerTop ==
  /\ pcL = "top"
  /\ idleable' = TRUE
  /\ NotifyIdleable
  /\ pcL' = "snap"
  /\ UNCHANGED <<connected, terminate_listener, socket_fd, callback_map, response_queue,
                 prev_connection, receivedData, reading, pcO, callVars, handlerVars, fate, sockVars>>

ListenerSnap ==
  /\ pcL = "snap"
  /\ prev_connection' = socket_fd
  /\ receivedData' = IF connected THEN receivedData ELSE <<>>
  /\ pcL' = "wait"
  /\ UNCHANGED <<fieldVars, reading, ownerVars, callVars, handlerVars, fate, sockVars>>

(* Mutant: no wait, the thread reads whether connected or not.             *)
ListenerWait_Skipped ==
  /\ pcL = "wait"
  /\ pcL' = "ready"
  /\ UNCHANGED <<fieldVars, prev_connection, receivedData, reading, ownerVars, callVars,
                 handlerVars, fate, sockVars>>

ListenerWait ==
  /\ pcL = "wait"
  /\ pcL' = IF connected \/ terminate_listener THEN "ready" ELSE "block"
  /\ UNCHANGED <<fieldVars, prev_connection, receivedData, reading, ownerVars, callVars,
                 handlerVars, fate, sockVars>>

ListenerBlock ==
  /\ pcL = "block"
  /\ pcL' = "asleep"
  /\ UNCHANGED <<fieldVars, prev_connection, receivedData, reading, ownerVars, callVars,
                 handlerVars, fate, sockVars>>

ListenerReady ==
  /\ pcL = "ready"
  /\ pcL' = IF terminate_listener THEN "returned" ELSE "busy"
  /\ UNCHANGED <<fieldVars, prev_connection, receivedData, reading, ownerVars, callVars,
                 handlerVars, fate, sockVars>>

ListenerBusy ==
  /\ pcL = "busy"
  /\ idleable' = FALSE
  /\ pcL' = "compare"
  /\ UNCHANGED <<connected, terminate_listener, socket_fd, callback_map, response_queue,
                 prev_connection, receivedData, reading, ownerVars, callVars, handlerVars,
                 fate, sockVars>>

ListenerCompare ==
  /\ pcL = "compare"
  /\ receivedData' = IF prev_connection # socket_fd THEN <<>> ELSE receivedData
  /\ pcL' = "receive"
  /\ UNCHANGED <<fieldVars, prev_connection, reading, ownerVars, callVars, handlerVars,
                 fate, sockVars>>

(* __receive__ loads socket_fd and enters read(): of the console if it is  *)
(* 0, of the socket it names, or an error (a length_error of the vector    *)
(* built from -1 bytes) if it names none.                                  *)
ListenerReceive ==
  /\ pcL = "receive"
  /\ \/ socket_fd = 0 /\ stdin /\ pcL' = "console" /\ UNCHANGED <<receivedData, reading>>
     \/ /\ SocketOf(socket_fd) # 0
        /\ pcL' = "read" /\ reading' = SocketOf(socket_fd) /\ UNCHANGED receivedData
     \/ /\ SocketOf(socket_fd) = 0 /\ ~(socket_fd = 0 /\ stdin)
        /\ pcL' = "top" /\ receivedData' = <<>> /\ UNCHANGED reading
  /\ UNCHANGED <<fieldVars, prev_connection, ownerVars, callVars, handlerVars, fate, sockVars>>

(* A message leaves the listener: a new detached thread runs its handler.  *)
Dispatch(m) ==
  IF m.type = "RES"
  THEN adding' = adding \cup {m} /\ UNCHANGED req
  ELSE req' = [req EXCEPT ![m.of] = "lookup"] /\ UNCHANGED adding

(* What was typed at the console and read as if it had come from a peer:   *)
(* it is no message, and all that is held is dropped when it comes first.  *)
Line == [type |-> "LINE"]

(* The first of the messages held after a read is dispatched, the others   *)
(* wait for a later read.                                                  *)
Deliver(held) ==
  IF Head(held) = Line
  THEN receivedData' = <<>> /\ UNCHANGED <<adding, req>>
  ELSE receivedData' = Tail(held) /\ Dispatch(Head(held))

(* One read returns the k first messages that have arrived.                *)

ListenerData ==
  /\ pcL = "read"
  /\ \E k \in 1..Len(inbox[reading]) :
       /\ TakeFromInbox(reading, k)
       /\ Deliver(receivedData \o SubSeq(inbox[reading], 1, k))
  /\ pcL' = "top"
  /\ UNCHANGED <<fieldVars, prev_connection, reading, ownerVars, callVars, notifying, fate>>

ListenerError ==
  /\ pcL = "read" /\ ReadReturnsError(reading)
  /\ ReportReset(reading)
  /\ receivedData' = <<>>
  /\ pcL' = "top"
  /\ UNCHANGED <<fieldVars, prev_connection, reading, ownerVars, callVars, handlerVars, fate>>

(* Mutant: the listener starts over instead of running shutdown().         *)
StreamEnds_Ignored == /\ receivedData' = <<>>
                      /\ idleable' = TRUE
                      /\ pcL' = "top"
                      /\ UNCHANGED <<connected, terminate_listener, socket_fd, callback_map,
                                     response_queue, prev_connection, reading, ownerVars,
                                     callVars, handlerVars, fate, sockVars>>

(* Mutant: idleable is left FALSE, the listener will wait for itself.      *)
StreamEnds_NotIdleable == /\ receivedData' = <<>>
                          /\ pcL' = "shutdown"
                          /\ sd' = [sd EXCEPT !["listener"] = "check"]
                          /\ UNCHANGED <<fieldVars, prev_connection, reading, pcO,
                                         callVars, handlerVars, fate, sockVars>>

(* The end of the stream: idleable is stored without a notify, then the    *)
(* listener itself runs shutdown().                                        *)
StreamEnds == /\ receivedData' = <<>>
              /\ idleable' = TRUE
              /\ pcL' = "shutdown"
              /\ sd' = [sd EXCEPT !["listener"] = "check"]
              /\ UNCHANGED <<connected, terminate_listener, socket_fd, callback_map,
                             response_queue, prev_connection, reading, pcO, callVars,
                             handlerVars, fate, sockVars>>

ListenerEnd == pcL = "read" /\ ReadReturnsEnd(reading) /\ StreamEnds

(* read(0): a line of the console, which is kept if that is less than a    *)
(* preamble, or the end of the input.                                      *)
ListenerConsole ==
  /\ pcL = "console"
  /\ \/ /\ \/ Deliver(Append(receivedData, Line))
           \/ /\ receivedData \in {<<>>, <<Line>>} /\ receivedData' = <<Line>>
              /\ UNCHANGED <<adding, req>>
        /\ pcL' = "top"
        /\ UNCHANGED <<fieldVars, prev_connection, reading, ownerVars, callVars, notifying,
                       fate, sockVars>>
     \/ StreamEnds

ListenerRuns == \/ ListenerTop \/ ListenerSnap \/ ListenerWait \/ ListenerBlock
                \/ ListenerReady \/ ListenerBusy \/ ListenerCompare \/ ListenerReceive
                \/ ListenerData \/ ListenerError \/ ListenerEnd \/ Shutdown("listener")

Listener == ListenerRuns \/ ListenerConsole

-----------------------------------------------------------------------------
(* send_request() and its std::async thread.                               *)

(* Any application thread, while the object exists.                        *)
SendRequest(c) ==
  /\ call[c] = "new" /\ connected
  /\ pcO \notin {"destroy", "terminate", "join", "dead"}
  /\ call' = [call EXCEPT ![c] = "send"]
  /\ UNCHANGED <<fieldVars, listenerVars, ownerVars, rid, via, answered, reply, broken,
                 handlerVars, fate, sockVars>>

(* Mutant: the result is a response that was never filled in.              *)
Return_Unset(c, result) == /\ call' = [call EXCEPT ![c] = "returned"]
                           /\ reply' = [reply EXCEPT ![c] = 0]

(* The result of the call: m.of, or NoReply.                               *)
Return(c, result) == /\ call' = [call EXCEPT ![c] = "returned"]
                     /\ reply' = [reply EXCEPT ![c] = result]

CallSend(c) ==
  /\ call[c] = "send"
  /\ LET f == socket_fd
     IN \/ /\ SendDelivers(f)
           /\ via' = [via EXCEPT ![c] = SocketOf(f)]
           /\ call' = [call EXCEPT ![c] = "wait"]
           /\ UNCHANGED <<reply, broken, fate>>
        \/ /\ SendLoses(f)
           /\ call' = [call EXCEPT ![c] = "wait"]
           /\ UNCHANGED <<via, reply, broken, fate>>
        \/ /\ SendThrows(f)
           /\ Return(c, NoReply)
           /\ broken' = [broken EXCEPT ![c] = TRUE]
           /\ UNCHANGED <<via, fate>>
        \/ /\ SendKills(f)
           /\ fate' = "sigpipe"
           /\ UNCHANGED <<call, via, reply, broken>>
  /\ UNCHANGED <<fieldVars, listenerVars, ownerVars, rid, answered, handlerVars, sockVars>>

(* Mutant: any response will do.                                           *)
Answers_Any(m, c) == m.type = "RES"

Answers(m, c) == m.type = "RES" /\ rid[m.of] = rid[c]

(* received_response *)
Received(c) == \E m \in response_queue : Answers(m, c)

(* The predicate of response_cv.wait: !connected, then received_response.  *)
CallTestConnected(c) ==
  /\ call[c] = "wait" /\ MutexFree
  /\ call' = [call EXCEPT ![c] = IF connected THEN "test" ELSE "woke"]
  /\ UNCHANGED <<fieldVars, listenerVars, ownerVars, rid, via, answered, reply, broken,
                 handlerVars, fate, sockVars>>

(* Mutant: the predicate of the wait lacks received_response.              *)
CallTestReceived_Skipped(c) ==
  /\ call[c] = "test"
  /\ call' = [call EXCEPT ![c] = "woke"]
  /\ UNCHANGED <<fieldVars, listenerVars, ownerVars, rid, via, answered, reply, broken,
                 handlerVars, fate, sockVars>>

CallTestReceived(c) ==
  /\ call[c] = "test"
  /\ call' = [call EXCEPT ![c] = IF Received(c) THEN "woke" ELSE "block"]
  /\ UNCHANGED <<fieldVars, listenerVars, ownerVars, rid, via, answered, reply, broken,
                 handlerVars, fate, sockVars>>

CallBlock(c) ==
  /\ call[c] = "block"
  /\ call' = [call EXCEPT ![c] = "asleep"]
  /\ UNCHANGED <<fieldVars, listenerVars, ownerVars, rid, via, answered, reply, broken,
                 handlerVars, fate, sockVars>>

CallWoke(c) ==
  /\ call[c] = "woke"
  /\ IF connected THEN call' = [call EXCEPT ![c] = "read"] /\ UNCHANGED reply
                  ELSE Return(c, NoReply)
  /\ UNCHANGED <<fieldVars, listenerVars, ownerVars, rid, via, answered, broken,
                 handlerVars, fate, sockVars>>

(* Mutant: the response stays in the queue.                                *)
CallRead_KeepsResponse(c) ==
  /\ call[c] = "read"
  /\ \/ \E m \in response_queue : Answers(m, c) /\ Return(c, m.of)
     \/ ~Received(c) /\ Return(c, NoReply)
  /\ UNCHANGED <<fieldVars, listenerVars, ownerVars, rid, via, answered, broken,
                 handlerVars, fate, sockVars>>

(* read_response: takes a matching response out of the queue, or throws.   *)
CallRead(c) ==
  /\ call[c] = "read"
  /\ \/ \E m \in response_queue : /\ Answers(m, c)
                                  /\ Return(c, m.of)
                                  /\ response_queue' = response_queue \ {m}
     \/ ~Received(c) /\ Return(c, NoReply) /\ UNCHANGED response_queue
  /\ UNCHANGED <<connected, idleable, terminate_listener, socket_fd, callback_map,
                 listenerVars, ownerVars, rid, via, answered, broken, handlerVars, fate, sockVars>>

Call(c) == \/ CallSend(c) \/ CallTestConnected(c) \/ CallTestReceived(c)
           \/ CallBlock(c) \/ CallWoke(c) \/ CallRead(c)

-----------------------------------------------------------------------------
(* handle_response().                                                      *)

AddResponse(m) ==
  /\ m \in adding /\ pcO # "dead"
  /\ response_queue' = response_queue \cup {m}
  /\ adding' = adding \ {m} /\ notifying' = notifying \cup {m}
  /\ UNCHANGED <<connected, idleable, terminate_listener, socket_fd, callback_map,
                 listenerVars, ownerVars, callVars, req, fate, sockVars>>

(* Mutant: the response is queued and nobody is told.                      *)
NotifyResponse_Silent(m) ==
  /\ m \in notifying /\ pcO # "dead"
  /\ notifying' = notifying \ {m}
  /\ UNCHANGED <<fieldVars, listenerVars, ownerVars, callVars, adding, req, fate, sockVars>>

NotifyResponse(m) ==
  /\ m \in notifying /\ pcO # "dead"
  /\ NotifyCalls
  /\ notifying' = notifying \ {m}
  /\ UNCHANGED <<fieldVars, listenerVars, ownerVars, rid, via, answered, reply, broken,
                 adding, req, fate, sockVars>>

(* handle_request(): has_method, then get_method and the callback, then    *)
(* send_response, which checks connected before __send_response__ sends.   *)
RequestLookup(r) ==
  /\ req[r] = "lookup" /\ pcO # "dead"
  /\ IF MethodOf[r] \in callback_map
     THEN req' = [req EXCEPT ![r] = "invoke"]
     ELSE req' = [req EXCEPT ![r] = "reply"]     \* with status unknown_method
  /\ UNCHANGED <<fieldVars, listenerVars, ownerVars, callVars, adding, notifying, fate, sockVars>>

RequestInvoke(r) ==
  /\ req[r] = "invoke" /\ pcO # "dead"
  /\ IF MethodOf[r] \in callback_map
     THEN req' = [req EXCEPT ![r] = "reply"] /\ UNCHANGED fate
     ELSE fate' = "method_removed" /\ UNCHANGED req  \* get_method throws
  /\ UNCHANGED <<fieldVars, listenerVars, ownerVars, callVars, adding, notifying, sockVars>>

RequestReply(r) ==
  /\ req[r] = "reply" /\ pcO # "dead"
  /\ IF connected THEN req' = [req EXCEPT ![r] = "send"] /\ UNCHANGED fate
                  ELSE fate' = "reply_when_down" /\ UNCHANGED req
  /\ UNCHANGED <<fieldVars, listenerVars, ownerVars, callVars, adding, notifying, sockVars>>

(* The future of send_response holds what __send__ throws and is dropped.  *)
RequestSend(r) ==
  /\ req[r] = "send" /\ pcO # "dead"
  /\ \/ SendKills(socket_fd) /\ fate' = "sigpipe" /\ UNCHANGED req
     \/ /\ SendDelivers(socket_fd) \/ SendLoses(socket_fd) \/ SendThrows(socket_fd)
        /\ req' = [req EXCEPT ![r] = "gone"] /\ UNCHANGED fate
  /\ UNCHANGED <<fieldVars, listenerVars, ownerVars, callVars, adding, notifying, sockVars>>

(* The handlers are detached and nothing waits for them: one that is still *)
(* at work when the object is gone uses freed memory.                      *)
HandlerAfterDestroy ==
  /\ pcO = "dead"
  /\ adding \cup notifying # {} \/ \E r \in Requests : Handling(r)
  /\ Die("use_after_free")

RequestHandler(r) == RequestLookup(r) \/ RequestInvoke(r) \/ RequestReply(r) \/ RequestSend(r)

ResponseHandler == \E m \in adding \cup notifying : AddResponse(m) \/ NotifyResponse(m)

Handler == ResponseHandler \/ HandlerAfterDestroy \/ \E r \in Requests : RequestHandler(r)

-----------------------------------------------------------------------------
(* The peer: an srfc_connection at the other end, or anything that speaks  *)
(* its protocol.  It answers a request it received once, over the socket   *)
(* the request came by.                                                    *)

PeerReply(c) ==
  /\ via[c] # 0 /\ c \notin answered
  /\ peer[via[c]] = "up"
  /\ answered' = answered \cup {c}
  /\ Arrive(via[c], [type |-> "RES", of |-> c, session |-> via[c]])
  /\ UNCHANGED <<fieldVars, listenerVars, ownerVars, call, rid, via, reply, broken,
                 handlerVars, fate>>

PeerRequest(r, n) ==
  /\ req[r] = "new"
  /\ n <= sessions /\ peer[n] = "up"
  /\ req' = [req EXCEPT ![r] = "sent"]
  /\ Arrive(n, [type |-> "REQ", of |-> r, session |-> n])
  /\ UNCHANGED <<fieldVars, listenerVars, ownerVars, callVars, adding, notifying, fate>>

PeerLeaves(n) ==
  /\ PeerCloses(n) \/ PeerResets(n)
  /\ UNCHANGED <<fieldVars, listenerVars, ownerVars, callVars, handlerVars, fate>>

Peer == \/ \E c \in Calls : PeerReply(c)
        \/ \E n \in Session : PeerLeaves(n) \/ \E r \in Requests : PeerRequest(r, n)

-----------------------------------------------------------------------------
Next == /\ fate = "running"
        /\ \/ Owner \/ Listener \/ Handler \/ Peer \/ SpuriousWakeup
           \/ \E c \in Calls : SendRequest(c) \/ Call(c)

Spec == Init /\ [][Next]_vars

(* Weak fairness of every thread inside the library: the scheduler runs    *)
(* them all.  None of the owner's choice of the next operation, of the     *)
(* peer, of who may type at the console, of new calls, or of spurious      *)
(* wakeups.                                                                *)
OwnerRuns == fate = "running" /\ (\/ \E d \in BOOLEAN : ConnectStore(d)
                                 \/ StartListener \/ Shutdown("owner")
                                 \/ ClearMethods \/ Terminate \/ Join)

Fairness == /\ WF_vars(OwnerRuns)
            /\ WF_vars(fate = "running" /\ ListenerRuns)
            /\ \A c \in Calls : WF_vars(fate = "running" /\ Call(c))
            /\ \A r \in Requests : WF_vars(fate = "running" /\ RequestHandler(r))
            /\ WF_vars(fate = "running" /\ ResponseHandler)

FairSpec == Spec /\ Fairness

-----------------------------------------------------------------------------
(* Every variable has its type.                                            *)
FieldTypes ==
  /\ connected \in BOOLEAN /\ idleable \in BOOLEAN /\ terminate_listener \in BOOLEAN
  /\ socket_fd \in Fds \cup {0}
  /\ callback_map \subseteq Methods
  /\ response_queue \subseteq Message

ListenerTypes ==
  /\ pcL \in {"none", "top", "snap", "wait", "block", "asleep", "ready", "busy", "compare",
              "receive", "read", "console", "shutdown", "returned"}
  /\ prev_connection \in Fds \cup {0}
  /\ receivedData \in Seq(Message \cup {Line})
  /\ reading \in 0..MaxSessions
  /\ pcL = "read" => reading \in Session

OwnerTypes ==
  /\ pcO \in {"idle", "connecting", "starting", "shutdown", "reset", "destroy", "terminate",
              "join", "dead"}
  /\ sd \in [Threads -> {"none", "check", "store", "shut", "close", "zero", "await",
                         "block", "asleep", "notify", "clear"}]

CallTypes ==
  /\ call \in [Calls -> {"new", "send", "wait", "test", "block", "asleep", "woke", "read",
                         "returned"}]
  /\ rid \in [Calls -> Ids]
  /\ via \in [Calls -> 0..MaxSessions]
  /\ answered \subseteq Calls
  /\ reply \in [Calls -> Calls \cup {NoReply}]
  /\ broken \in [Calls -> BOOLEAN]

HandlerTypes ==
  /\ adding \subseteq Message /\ notifying \subseteq Message
  /\ req \in [Requests -> {"new", "sent", "lookup", "invoke", "reply", "send", "gone"}]

Fate == {"running", "shutdown_when_down", "close_failed", "sigpipe", "method_removed",
         "reply_when_down", "use_after_free"}

TypeOK == /\ SockTypeOK(Message) /\ FieldTypes /\ ListenerTypes /\ OwnerTypes /\ CallTypes
          /\ HandlerTypes /\ fate \in Fate

(* Where the peer's answer to call c can be: received by the kernel, in    *)
(* the listener's buffer, in a handler, in the queue, returned by a call.  *)
IsAnswer(m, c) == m.type = "RES" /\ m.of = c
InKernel(c)  == \E n \in Session : \E i \in DOMAIN inbox[n] : IsAnswer(inbox[n][i], c)
InBuffer(c)  == \E i \in DOMAIN receivedData : IsAnswer(receivedData[i], c)
InHandler(c) == \E m \in adding : IsAnswer(m, c)
InQueue(c)   == \E m \in response_queue : IsAnswer(m, c)
Taken(c)     == \E d \in Calls : call[d] = "returned" /\ reply[d] = c

(* An answer is never in two of these places, and no two calls return it.  *)
OneCopy ==
  \A c \in Calls :
    /\ InKernel(c)  => ~InBuffer(c) /\ ~InHandler(c) /\ ~InQueue(c) /\ ~Taken(c)
    /\ InBuffer(c)  => ~InHandler(c) /\ ~InQueue(c) /\ ~Taken(c)
    /\ InHandler(c) => ~InQueue(c) /\ ~Taken(c)
    /\ InQueue(c)   => ~Taken(c)
    /\ \A d, e \in Calls : reply[d] = c /\ reply[e] = c => d = e

(* A request gets at most one result. While the connection stays up, the   *)
(* answer to a pending call is not lost either on its way through kernel,  *)
(* listener, handler thread and queue, though another call with the same   *)
(* request id may have returned it.                                        *)
AnswerKept ==
  /\ OneCopy
  /\ \A c \in Calls :
       c \in answered /\ Pending(c) /\ ~broken[c] /\ peer[via[c]] = "up"
         => InKernel(c) \/ InBuffer(c) \/ InHandler(c) \/ InQueue(c) \/ Taken(c)

(* A call returns an answer to a request with its own id, one the peer     *)
(* gave.                                                                   *)
ReplyMatchesCall ==
  \A c \in Calls : reply[c] # NoReply => reply[c] \in answered /\ rid[reply[c]] = rid[c]

(* A call reports connection_error only if the connection was lost or the  *)
(* send failed while it was pending.                                       *)
NoFalseError ==
  \A c \in Calls : call[c] = "returned" /\ reply[c] = NoReply => broken[c]

(* The connection never reads or closes descriptor 0, the console, which   *)
(* socket_fd names while there is no socket.                               *)
ConsoleUntouched == pcL # "console" /\ stdin

(* The library ends the process only after a peer has left, or when the    *)
(* application removes a method while a request for it is handled.         *)
FatalOnlyAfterPeerLeft ==
  fate \notin {"running", "method_removed"} => \E n \in 1..sessions : peer[n] # "up"

(* While the object has no socket the listener reads none, but for the     *)
(* read that the owner's shutdown() is waiting for: once that has waited,  *)
(* and until the next connect(), nobody reads the old socket.  (A listener *)
(* that comes late may read the console, which is descriptor 0.)           *)
ShutdownAwaitsListener ==
  socket_fd = 0 /\ sd["owner"] \notin {"await", "block", "asleep"} => pcL # "read"

(* A blocked read is always one that can end: its socket is open, or was   *)
(* shut down before it was closed.                                         *)
ReadCanEnd == pcL = "read" => IsOpen(reading) \/ shut[reading]

(* What makes the two properties above inductive: who may be in shutdown(), *)
(* what socket_fd names on the way, and that idleable is FALSE from the     *)
(* moment the listener may read.                                           *)
ShutdownInv ==
  /\ sd["listener"] # "none" => pcL = "shutdown"
  /\ sd["owner"] # "none" => pcO \in {"shutdown", "reset", "destroy"}
  /\ sd["owner"] = "close" => SocketOf(socket_fd) = 0 \/ shut[SocketOf(socket_fd)]
  /\ sd["owner"] \in {"await", "block", "asleep", "notify", "clear"} => socket_fd = 0
  /\ pcL \in {"compare", "receive", "read", "console"} => ~idleable
  /\ ShutdownAwaitsListener
  /\ ReadCanEnd

(* What makes ReplyMatchesCall inductive: every response on its way to a   *)
(* call is one the peer gave.                                              *)
Genuine == {m \in Message : m.type = "RES" => m.of \in answered}

AnswersGenuine ==
  /\ inbox \in [Session -> Seq(Genuine)]
  /\ receivedData \in Seq(Genuine \cup {Line})
  /\ adding \subseteq Genuine
  /\ response_queue \subseteq Genuine
  /\ ReplyMatchesCall

Stopped == fate # "running"

(* A listener that was started notices the loss of the peer.               *)
PeerLossNoticed ==
  \A n \in Session :
    connected /\ pcL # "none" /\ SocketOf(socket_fd) = n /\ peer[n] # "up" ~> ~connected \/ Stopped

(* A call that sleeps when its answer is in the queue and the notify is    *)
(* still to come returns, unless the connection goes down first.           *)
AnswerWakesCall ==
  \A c \in Calls :
    call[c] = "asleep" /\ InQueue(c) /\ (\E m \in notifying : IsAnswer(m, c))
      ~> call[c] = "returned" \/ ~connected \/ Stopped

(* The two ways in which a shutdown() by the owner never ends: it sleeps   *)
(* although the listener idles, because it missed the notify; or it waits  *)
(* for a listener that reads the console, where nobody need ever type.     *)
ShutdownHangs == \/ sd["owner"] = "asleep" /\ idleable
                 \/ sd["owner"] # "none" /\ pcL = "console"

(* A call that sleeps when shutdown(), the owner's or the listener's, has  *)
(* marked the connection as down and the notify is still to come returns,  *)
(* unless that shutdown() hangs.                                           *)
ShutdownReleasesCalls ==
  \A c \in Calls : \A t \in Threads :
    call[c] = "asleep" /\ sd[t] \in {"shut", "close", "zero", "await", "notify"}
      ~> call[c] = "returned" \/ ShutdownHangs \/ Stopped

(* shutdown() of a connection with a listener does not end the process.    *)
ShutdownKeepsRunning == fate # "shutdown_when_down"

(* shutdown(), by the owner or the listener, ends, but for the two ways in *)
(* which the owner's hangs: nobody waits for itself or for the other.      *)
ShutdownEnds == \A t \in Threads : sd[t] # "none" ~> sd[t] = "none" \/ ShutdownHangs \/ Stopped

(* A response announced to the sleeping calls wakes the one waiting for it. *)
QueuedAnswerReturned ==
  \A c \in Calls : InQueue(c) /\ Pending(c) ~> call[c] = "returned" \/ ~connected \/ Stopped
=============================================================================
