-------------------------------- MODULE Netshot --------------------------------
(***************************************************************************)
(* The netshot application: a server with its consoles and a client that   *)
(* is started again when it has ended, over the same capture directory.    *)
(* Each run of the client is a connection of the server. The library is at *)
(* the grain of one request here: it reaches the callback or is lost, and  *)
(* the answer reaches the console or is lost.                              *)
(***************************************************************************)
EXTENDS CaptureClient, CaptureConsole

VARIABLES run,   \* the run of the client, 0 before the first
          down,  \* the client's own connection has been found closed
          ended  \* auxiliary: the user or a signal ended a process

vars == <<clientVars, serverVars, run, down, ended>>

ASSUME NetshotAssumption == Connections \subseteq Nat \ {0} /\ Requests \subseteq Nat

Init == ClientInit /\ ServerInit /\ run = 0 /\ down = FALSE /\ ended = FALSE

Linked(c) == server /\ client /\ run = c

-----------------------------------------------------------------------------
StartClient == /\ server /\ run + 1 \in Connections
               /\ Start /\ run' = run + 1
               /\ UNCHANGED <<serverVars, down, ended>>

(* The listener of the client's connection finds it closed.                *)
ClientNoticesLoss == /\ client /\ ~server /\ ~down /\ down' = TRUE
                     /\ UNCHANGED <<clientVars, serverVars, run, ended>>

ClientExit == Exit /\ down' = FALSE /\ UNCHANGED <<serverVars, run>>

(* Mutant: run_client does not wait.                                       *)
ClientReturns_AtOnce == ClientExit /\ UNCHANGED ended

ClientReturns == down /\ ClientExit /\ UNCHANGED ended

(* A handler whose answer finds the connection down throws, and one that   *)
(* still sends it may get SIGPIPE.                                         *)
AnswerFails == /\ ~server /\ \E r \in Requests : req[r] = "answered"
               /\ ClientExit /\ UNCHANGED ended

ClientKilled == ClientExit /\ ended' = TRUE

ServerKilled == ServerEnds /\ ended' = TRUE /\ UNCHANGED <<clientVars, run, down>>

(* received_response, for the request the console waits for.               *)
Answered(c) == asked[c] # NoRequestYet /\ req[asked[c]] = "answered"

ConsoleStep(c) ==
  /\ \/ Accept(c) /\ c <= run /\ \A d \in Connections : d < c => console[d] # "none"
     \/ Open(c) \/ Top(c) \/ Check(c) \/ Send(c)
     \/ TransmitFails(c) /\ ~Linked(c)
     \/ GetResponse(c) /\ (~connected[c] \/ Answered(c))
     \/ NoticeLoss(c) /\ ~Linked(c)
  /\ UNCHANGED <<clientVars, run, down, ended>>

(* The request reaches a callback of the client.                           *)
SendRequest(c) ==
  /\ Linked(c)
  /\ \E r \in Requests, m \in Methods :
       /\ \A q \in Requests : q < r => req[q] # "new"
       /\ Transmit(c, r) /\ Receive(r, m)
  /\ UNCHANGED <<run, down, ended>>

ClientStep == /\ client
              /\ \/ \E r \in Requests : Callback(r) \/ SpuriousWakeup(r)
                 \/ \E t \in Threads : Capture(t)
              /\ UNCHANGED <<serverVars, run, down, ended>>

Midnight == DayPasses /\ UNCHANGED <<serverVars, run, down, ended>>

Next == \/ StartClient \/ ClientNoticesLoss \/ ClientReturns \/ AnswerFails
        \/ ClientKilled \/ ServerKilled
        \/ \E c \in Connections : ConsoleStep(c) \/ SendRequest(c)
        \/ ClientStep \/ Midnight

Spec == Init /\ [][Next]_vars

(* The threads of the client are scheduled; nobody has to type.            *)
FairSpec ==
  /\ Spec
  /\ WF_vars((\E r \in Requests : Callback(r)) /\ UNCHANGED <<serverVars, run, down, ended>>)
  /\ WF_vars((\E t \in Threads : Capture(t)) /\ UNCHANGED <<serverVars, run, down, ended>>)

-----------------------------------------------------------------------------
(* Every variable has its type.                                            *)
TypeOK ==
  /\ ClientTypeOK /\ run \in {0} \cup Connections /\ {server, down, ended} \subseteq BOOLEAN
  /\ connected \in [Connections -> BOOLEAN]
  /\ console \in [Connections -> {"none", "deferred", "top", "check", "send", "transmit", "wait", "closed"}]
  /\ asked \in [Connections -> Requests \cup {NoRequestYet}]

(* A process ends only because somebody ended one: the client after the    *)
(* server, the server when the client goes while it sends.                 *)
EndsOnlyAfterKill == ~ended => server /\ (client <=> run # 0)
=============================================================================
