----------------------------- MODULE CaptureConsole -----------------------------
(***************************************************************************)
(* The netshot server: a listener that hands every connection to a console *)
(* of its own, run_interactive_console, all of which read the same         *)
(* standard input. A console builds a request, sends it, waits for the     *)
(* answer and offers to save its payload.                                  *)
(***************************************************************************)
CONSTANTS Connections, NoRequestYet

VARIABLES
  server,     \* the process runs
  console,    \* where a console is
  connected,  \* of the server's srfc_connection
  asked       \* the request a console waits for

serverVars == <<server, console, connected, asked>>

ServerInit == /\ server = TRUE
              /\ console = [c \in Connections |-> "none"]
              /\ connected = [c \in Connections |-> FALSE]
              /\ asked = [c \in Connections |-> NoRequestYet]

At(c, location) == server /\ console[c] = location

Moves(c, target) == console' = [console EXCEPT ![c] = target]

-----------------------------------------------------------------------------
(* The listener accepts, and hands over a deferred connection.             *)
Accept(c) == /\ At(c, "none") /\ Moves(c, "deferred")
             /\ connected' = [connected EXCEPT ![c] = TRUE]
             /\ UNCHANGED <<server, asked>>

(* on_connection_callback starts the listener of the connection.           *)
Open(c) == /\ At(c, "deferred") /\ Moves(c, "top")
           /\ UNCHANGED <<server, connected, asked>>

(* make_requst_from_console: what is typed may be refused.                 *)
Build == {"check", "top"}

(* A round of the loop starts.                                             *)
Top(c) == /\ At(c, "top")
          /\ \E next \in Build : Moves(c, IF connected[c] THEN next ELSE "closed")
          /\ UNCHANGED <<server, connected, asked>>

Check(c) == /\ At(c, "check") /\ Moves(c, IF connected[c] THEN "send" ELSE "closed")
            /\ UNCHANGED <<server, connected, asked>>

(* The end of the process.                                                 *)
ServerEnds == /\ server /\ server' = FALSE
              /\ console' = [c \in Connections |-> "none"]
              /\ connected' = [c \in Connections |-> FALSE]
              /\ asked' = [c \in Connections |-> NoRequestYet]

(* send_request throws once the connection has gone down since the test,   *)
(* and nobody catches it.                                                  *)
Send(c) == /\ At(c, "send")
           /\ IF connected[c] THEN Moves(c, "transmit") /\ UNCHANGED <<server, connected, asked>>
                              ELSE ServerEnds

(* Mutant: the answer is not waited for.                                   *)
AfterTransmit_NoWait == "top"

AfterTransmit == "wait"

Transmit(c, r) == /\ At(c, "transmit") /\ Moves(c, AfterTransmit)
                  /\ asked' = [asked EXCEPT ![c] = r]
                  /\ UNCHANGED <<server, connected>>

(* The bytes are lost, send() fails, or SIGPIPE ends the process.          *)
TransmitFails(c) ==
  /\ At(c, "transmit")
  /\ \/ \E next \in {"wait", "top"} : Moves(c, next) /\ UNCHANGED <<server, connected, asked>>
     \/ ServerEnds

(* The answer, or the error of a connection that went down, is shown, and  *)
(* its payload saved, however often the path is refused.                   *)
GetResponse(c) == /\ At(c, "wait") /\ Moves(c, "top")
                  /\ asked' = [asked EXCEPT ![c] = NoRequestYet]
                  /\ UNCHANGED <<server, connected>>

(* The listener of the connection finds it closed.                         *)
NoticeLoss(c) == /\ server /\ connected[c] /\ console[c] # "deferred"
                 /\ connected' = [connected EXCEPT ![c] = FALSE]
                 /\ UNCHANGED <<server, console, asked>>
=============================================================================
