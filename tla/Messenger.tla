------------------------------- MODULE Messenger -------------------------------
(***************************************************************************)
(* The messenger example: a server and its clients, each a process that    *)
(* reads lines from its console and sends them to the other end, which     *)
(* prints and answers them. Both ends use the library; its listener        *)
(* threads, detached handlers and calls appear here at the grain of one    *)
(* message (SrfcConnection has their steps).                               *)
(*                                                                         *)
(* An end is a client's side or the server's side of a connection.         *)
(***************************************************************************)
EXTENDS Integers, Sequences, SequencesExt

CONSTANTS Clients, Server,
          Lines, Empty,  \* what is typed; Empty is the empty line
          Typists,       \* the ends at which somebody types
          MaxLines       \* bound: lines typed at an end

Processes == Clients \cup {Server}
Ends == Clients \X {"client", "server"}
Process(e) == IF e[2] = "client" THEN e[1] ELSE Server
Peer(e) == <<e[1], IF e[2] = "client" THEN "server" ELSE "client">>

ASSUME MessengerAssumption == /\ Server \notin Clients /\ MaxLines \in Nat
                              /\ Typists \subseteq Ends

VARIABLES
  alive,      \* the processes that run
  left,       \* auxiliary: those that were ended from outside, or could not connect,
              \* listen or accept
  listening,  \* the server has bound its socket
  chat,       \* where the chat loop of an end is
  connected,  \* of the end's srfc_connection
  inbox,      \* messages on their way to an end
  receivedData, response_queue,
  printing, answering,  \* handlers of an end: before print_rpc, before send_response
  typed, printed        \* lines typed at an end; lines of the other end it printed

linkVars == <<inbox, receivedData, response_queue, printing, answering>>
vars == <<alive, left, listening, chat, connected, linkVars, typed, printed>>

Init == /\ alive = Processes /\ left = {}
        /\ listening = FALSE
        /\ chat = [e \in Ends |-> "new"]
        /\ connected = [e \in Ends |-> FALSE]
        /\ inbox = [e \in Ends |-> <<>>] /\ receivedData = [e \in Ends |-> <<>>]
        /\ response_queue = [e \in Ends |-> {}]
        /\ printing = [e \in Ends |-> {}] /\ answering = [e \in Ends |-> {}]
        /\ typed = [e \in Ends |-> <<>>] /\ printed = [e \in Ends |-> <<>>]

Runs(e) == Process(e) \in alive
PeerRuns(e) == Process(Peer(e)) \in alive

(* A request is named by its number at its end, which is its id.           *)
Request(e) == [type |-> "REQ", id |-> Len(typed[e]), line |-> Last(typed[e])]
Response(id) == [type |-> "RES", id |-> id]

Goto(e, location) == chat' = [chat EXCEPT ![e] = location]

EndProcess(p) == alive' = alive \ {p}

-----------------------------------------------------------------------------
(* The main functions, and the callback of the server's listener.          *)

Listen == /\ Server \in alive /\ ~listening
          /\ listening' = TRUE
          /\ UNCHANGED <<alive, left, chat, connected, linkVars, typed, printed>>

(* A process that is ended, or that a failing system call ends.            *)
Ended(p) == /\ p \in alive
            /\ EndProcess(p) /\ left' = left \cup {p}
            /\ UNCHANGED <<listening, chat, connected, linkVars, typed, printed>>

(* The address is in use: "Cannot start server", and main returns 1.       *)
ListenFails == ~listening /\ Ended(Server)

(* What accept() throws, for want of a descriptor for one, ends the        *)
(* listener's thread and with it the server.                               *)
AcceptFails == listening /\ Ended(Server)

Connect(c) ==
  /\ c \in alive /\ chat[<<c, "client">>] = "new" /\ listening /\ Server \in alive
  /\ Goto(<<c, "client">>, "reading")
  /\ connected' = [connected EXCEPT ![<<c, "client">>] = TRUE]
  /\ UNCHANGED <<alive, left, listening, linkVars, typed, printed>>

(* "Cannot connect to the server", for want of a server or otherwise.      *)
ConnectFails(c) == chat[<<c, "client">>] = "new" /\ Ended(c)

(* The listener accepts and hands over a deferred connection.              *)
Accept(c) ==
  /\ Server \in alive /\ chat[<<c, "server">>] = "new" /\ chat[<<c, "client">>] # "new"
  /\ Goto(<<c, "server">>, "deferred")
  /\ connected' = [connected EXCEPT ![<<c, "server">>] = TRUE]
  /\ UNCHANGED <<alive, left, listening, linkVars, typed, printed>>

InvokeDeferred(c) ==
  /\ Server \in alive /\ chat[<<c, "server">>] = "deferred"
  /\ Goto(<<c, "server">>, "reading")
  /\ UNCHANGED <<alive, left, listening, connected, linkVars, typed, printed>>

(* The threads of the server share one console: any that reads may get it. *)
ReadLine(e) ==
  /\ Runs(e) /\ chat[e] = "reading" /\ e \in Typists /\ Len(typed[e]) < MaxLines
  /\ \E line \in Lines : typed' = [typed EXCEPT ![e] = Append(@, line)]
  /\ Goto(e, "sending")
  /\ UNCHANGED <<alive, left, listening, connected, linkVars, printed>>

-----------------------------------------------------------------------------
(* send_request, whose future is discarded at once.                        *)

(* What it throws nobody catches.                                          *)
SendRequest(e) ==
  /\ Runs(e) /\ chat[e] = "sending"
  /\ IF connected[e] THEN Goto(e, "transmit") /\ UNCHANGED alive
                     ELSE EndProcess(Process(e)) /\ UNCHANGED chat
  /\ UNCHANGED <<left, listening, connected, linkVars, typed, printed>>

Arrives(e, message) == inbox' = [inbox EXCEPT ![Peer(e)] = Append(@, message)]

(* Mutant: the discarded future does not wait.                             *)
AfterSend_NoWait == "reading"

AfterSend == "waiting"

(* Once the other process has ended the bytes are lost, send() fails, or   *)
(* SIGPIPE ends this one too.                                              *)
Transmit(e) ==
  /\ Runs(e) /\ chat[e] = "transmit"
  /\ \/ PeerRuns(e) /\ Arrives(e, Request(e)) /\ Goto(e, AfterSend) /\ UNCHANGED alive
     \/ /\ ~PeerRuns(e) /\ UNCHANGED inbox
        /\ \/ \E next \in {AfterSend, "reading"} : Goto(e, next) /\ UNCHANGED alive
           \/ EndProcess(Process(e)) /\ UNCHANGED chat
  /\ UNCHANGED <<left, listening, connected, receivedData, response_queue, printing, answering,
                 typed, printed>>

Received(e) == Len(typed[e]) \in response_queue[e]

ReadResponse(e) == response_queue' = [response_queue EXCEPT ![e] = @ \ {Len(typed[e])}]

(* The predicate of the wait, and what follows when it holds.              *)
Await(e) ==
  /\ Runs(e) /\ chat[e] = "waiting"
  /\ IF connected[e] /\ ~Received(e)
     THEN Goto(e, "blocking") /\ UNCHANGED response_queue
     ELSE Goto(e, "reading") /\ ReadResponse(e)
  /\ UNCHANGED <<alive, left, listening, connected, inbox, receivedData, printing, answering,
                 typed, printed>>

Block(e) == /\ Runs(e) /\ chat[e] = "blocking"
            /\ Goto(e, "asleep")
            /\ UNCHANGED <<alive, left, listening, connected, linkVars, typed, printed>>

(* Mutant: a shutdown or an answer does not notify.                        *)
Notified_Never(e) == UNCHANGED chat

(* Lost on a call that is not asleep yet.                                  *)
Notified(e) == IF chat[e] = "asleep" THEN Goto(e, "waiting") ELSE UNCHANGED chat

-----------------------------------------------------------------------------
(* The listener thread of an end, and the handlers it detaches.            *)

(* Mutant: the thread that reads the console also reads the socket.        *)
Listens_WhenIdle(e) == Runs(e) /\ connected[e] /\ chat[e] = "reading"

Listens(e) == Runs(e) /\ connected[e] /\ chat[e] # "deferred"

(* Mutant: every message is taken.                                         *)
Valid_Any(message) == TRUE

(* A parameter without a value is refused.                                 *)
Valid(message) == message.type = "REQ" => message.line # Empty

(* A read takes what is there, and one message of it is dispatched.        *)
Receive(e) ==
  /\ Listens(e)
  /\ \E k \in 1..Len(inbox[e]) :
       LET data == receivedData[e] \o SubSeq(inbox[e], 1, k)
           message == Head(data)
       IN  /\ inbox' = [inbox EXCEPT ![e] = SubSeq(@, k + 1, Len(@))]
           /\ receivedData' = [receivedData EXCEPT ![e] = Tail(data)]
           /\ IF message.type = "RES"
              THEN /\ response_queue' = [response_queue EXCEPT ![e] = @ \cup {message.id}]
                   /\ Notified(e) /\ UNCHANGED printing
              ELSE /\ printing' = IF Valid(message)
                                  THEN [printing EXCEPT ![e] = @ \cup {message}] ELSE printing
                   /\ UNCHANGED <<response_queue, chat>>
  /\ UNCHANGED <<alive, left, listening, connected, answering, typed, printed>>

PrintRpc(e, request) ==
  /\ Runs(e) /\ request \in printing[e]
  /\ printing' = [printing EXCEPT ![e] = @ \ {request}]
  /\ answering' = [answering EXCEPT ![e] = @ \cup {request.id}]
  /\ printed' = [printed EXCEPT ![e] = Append(@, request.line)]
  /\ UNCHANGED <<alive, left, listening, chat, connected, inbox, receivedData, response_queue,
                 typed>>

(* send_response throws out of the handler on a connection that is down.   *)
SendResponse(e, id) ==
  /\ Runs(e) /\ id \in answering[e]
  /\ answering' = [answering EXCEPT ![e] = @ \ {id}]
  /\ IF connected[e] /\ PeerRuns(e) THEN Arrives(e, Response(id)) /\ UNCHANGED alive
     ELSE /\ UNCHANGED inbox
          /\ (connected[e] /\ UNCHANGED alive) \/ EndProcess(Process(e))
  /\ UNCHANGED <<left, listening, chat, connected, receivedData, response_queue, printing,
                 typed, printed>>

(* Mutant: a read that finds nothing is taken for the end.                 *)
StreamEnds_WhenEmpty(e) == inbox[e] = <<>>

StreamEnds(e) == ~PeerRuns(e)

(* The listener finds the end of the stream, or a reset that drops what    *)
(* was on its way.                                                         *)
Shutdown(e) ==
  /\ Listens(e) /\ StreamEnds(e)
  /\ connected' = [connected EXCEPT ![e] = FALSE]
  /\ inbox' = [inbox EXCEPT ![e] = <<>>]
  /\ receivedData' = [receivedData EXCEPT ![e] = <<>>]
  /\ response_queue' = [response_queue EXCEPT ![e] = {}]
  /\ Notified(e)
  /\ UNCHANGED <<alive, left, listening, printing, answering, typed, printed>>

(* Somebody ends a process.                                                *)
Leave(p) == Ended(p)

Thread(e) == \/ SendRequest(e) \/ Transmit(e) \/ Await(e) \/ Block(e)
             \/ Receive(e) \/ Shutdown(e)
             \/ \E request \in printing[e] : PrintRpc(e, request)
             \/ \E id \in answering[e] : SendResponse(e, id)

Next == \/ Listen \/ ListenFails \/ AcceptFails
        \/ \E c \in Clients : Connect(c) \/ ConnectFails(c) \/ Accept(c) \/ InvokeDeferred(c)
        \/ \E p \in Processes : Leave(p)
        \/ \E e \in Ends : ReadLine(e) \/ Thread(e)

Spec == Init /\ [][Next]_vars

(* The operating system runs the threads of both programs.                 *)
FairSpec == /\ Spec
            /\ \A e \in Ends : WF_vars(Thread(e))
            /\ \A c \in Clients : WF_vars(Accept(c) \/ InvokeDeferred(c))

-----------------------------------------------------------------------------
Locations == {"new", "deferred", "reading", "sending", "transmit", "waiting", "blocking", "asleep"}

(* Every variable has its type; a handler has a request whose line is not  *)
(* empty.                                                                  *)
TypeOK ==
  /\ alive \subseteq Processes /\ left \subseteq Processes \ alive
  /\ listening \in BOOLEAN /\ connected \in [Ends -> BOOLEAN] /\ chat \in [Ends -> Locations]
  /\ \A e \in Ends :
       /\ typed[e] \in Seq(Lines) /\ printed[e] \in Seq(Lines)
       /\ response_queue[e] \subseteq 1..MaxLines /\ answering[e] \subseteq 1..MaxLines
       /\ printing[e] \subseteq [type : {"REQ"}, id : 1..MaxLines, line : Lines \ {Empty}]

(* Lines are printed at the other end in the order they were typed, each   *)
(* once and none left out, although every request has a thread of its own. *)
PrintedInOrder == \A e \in Ends : IsPrefix(printed[e], typed[Peer(e)])

(* As long as the server runs no client is ended by its own threads, even  *)
(* when others leave in the middle of a call. The server is ended by its   *)
(* threads only after it accepted a client that is no more: one that could *)
(* not connect, or was never accepted, does it no harm.                    *)
EndsOnlyAfterLoss ==
  /\ Server \in alive => \A c \in Clients : c \in alive \cup left
  /\ \/ Server \in alive \cup left
     \/ \E c \in left \ {Server} : chat[<<c, "server">>] # "new"

Starved(e) == /\ Runs(e) /\ chat[e] = "asleep" /\ Last(typed[e]) # Empty
              /\ Len(typed[e]) \notin response_queue[e]

(* Two ends that wait for each other's answer do not do so for ever: a     *)
(* message may stay in a buffer, but never the one that both need.         *)
NeverBothStarved ==
  \A c \in Clients : LET BothStarved == \A side \in {"client", "server"} : Starved(<<c, side>>)
                     IN  BothStarved ~> ~BothStarved

(* A chat that sleeps in a call when the connection goes down goes on, or  *)
(* its own process ends; one that is about to sleep may miss the shutdown. *)
LossReleasesChat ==
  \A e \in Ends : Runs(e) /\ ~PeerRuns(e) /\ connected[e] /\ chat[e] = "asleep"
                  ~> ~Runs(e) \/ chat[e] # "asleep"
=============================================================================
