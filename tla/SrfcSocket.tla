------------------------------ MODULE SrfcSocket ------------------------------
(***************************************************************************)
(* The platform layer below one srfc_connection: the descriptor table of   *)
(* the process, the TCP sockets the connection opened and the peer at      *)
(* their other end.  network/unix/srfc_connection_unix.cpp calls the       *)
(* operating system; what the system answers is modelled here from those   *)
(* calls.  The win32 layer makes the same calls with other answers and is  *)
(* not modelled.                                                           *)
(*                                                                         *)
(* Sockets are numbered by the session they serve, 1, 2, ... in the order  *)
(* they are opened.  Descriptors are numbers that are reused once closed.  *)
(***************************************************************************)
EXTENDS Integers, Sequences

CONSTANTS Fds,         \* descriptor numbers a socket can get
          MaxSessions  \* bound: sockets opened in one behaviour

ASSUME SocketAssumption == /\ Fds \subseteq Nat \ {0}
                           /\ MaxSessions \in Nat

Session == 1..MaxSessions

VARIABLES fds,       \* fds[f]: the session open under descriptor f, 0 if free
          sessions,  \* how many sockets have been opened
          shut,      \* shut[n]: ::shutdown(SHUT_RDWR) was called on socket n
          peer,      \* peer[n]: "up", "closed" (orderly) or "reset"
          inbox,     \* inbox[n]: messages received by the kernel, not yet read
          stdin      \* descriptor 0, the console, is open

sockVars == <<fds, sessions, shut, peer, inbox, stdin>>

SockInit == /\ fds = [f \in Fds |-> 0]
            /\ sessions = 0
            /\ shut = [n \in Session |-> FALSE]
            /\ peer = [n \in Session |-> "up"]
            /\ inbox = [n \in Session |-> <<>>]
            /\ stdin = TRUE

-----------------------------------------------------------------------------
(* What the system makes of a descriptor value held in socket_fd: 0 is the *)
(* console, any other number the socket open under it, if there is one.    *)

SocketOf(f) == IF f = 0 THEN 0 ELSE fds[f]

Live(n) == n # 0 /\ ~shut[n] /\ peer[n] = "up"

IsOpen(n) == \E f \in Fds : fds[f] = n

(* __connect__, and accept() on the listening side: a new socket under     *)
(* some free descriptor.                                                   *)
SocketOpen(f) == /\ fds[f] = 0
                 /\ sessions < MaxSessions
                 /\ sessions' = sessions + 1
                 /\ fds' = [fds EXCEPT ![f] = sessions + 1]
                 /\ UNCHANGED <<shut, peer, inbox, stdin>>

(* A socket that never gets a connection, under a descriptor nobody keeps. *)
SocketLeak(f) == /\ fds[f] = 0
                 /\ sessions < MaxSessions
                 /\ sessions' = sessions + 1
                 /\ fds' = [fds EXCEPT ![f] = sessions + 1]
                 /\ peer' = [peer EXCEPT ![sessions + 1] = "closed"]
                 /\ UNCHANGED <<shut, inbox, stdin>>

(* __shutdown__: wakes a blocked read.  Its failures (no such socket) are  *)
(* swallowed by the caller, srfc_connection::shutdown.                     *)
SocketShutdown(f) ==
  /\ shut' = IF SocketOf(f) = 0 THEN shut
             ELSE [shut EXCEPT ![SocketOf(f)] = TRUE]
  /\ UNCHANGED <<fds, sessions, peer, inbox, stdin>>

(* __close__ succeeds on an open descriptor, descriptor 0 included, and    *)
(* throws on any other.                                                    *)
CloseFails(f) == IF f = 0 THEN ~stdin ELSE fds[f] = 0

SocketClose(f) ==
  /\ ~CloseFails(f)
  /\ IF f = 0 THEN stdin' = FALSE /\ UNCHANGED fds
              ELSE fds' = [fds EXCEPT ![f] = 0] /\ UNCHANGED stdin
  /\ UNCHANGED <<sessions, shut, peer, inbox>>

(* __send__ on descriptor f, by outcome: delivered to the peer; accepted   *)
(* by the kernel and lost; an exception (no socket, or a reset not yet     *)
(* reported); the process killed by SIGPIPE, which the code neither masks  *)
(* nor avoids with MSG_NOSIGNAL.                                           *)
SendDelivers(f) == Live(SocketOf(f))
SendLoses(f)    == SocketOf(f) # 0 /\ ~shut[SocketOf(f)] /\ peer[SocketOf(f)] # "up"
SendThrows(f)   == SocketOf(f) # 0 => peer[SocketOf(f)] = "reset"
SendKills(f)    == SocketOf(f) # 0 /\ ~Live(SocketOf(f))

(* Mutant: a read with nothing to return reports the end of the stream.    *)
ReadReturnsEnd_WhenEmpty(n) == inbox[n] = <<>>

(* read() on socket n, by outcome.  Bytes already received are returned    *)
(* before the end of the stream; a reset is reported once, then the end.   *)
ReadReturnsError(n) == peer[n] = "reset"
ReadReturnsEnd(n) == inbox[n] = <<>> /\ (shut[n] \/ peer[n] = "closed")

TakeFromInbox(n, k) ==
  /\ inbox' = [inbox EXCEPT ![n] = SubSeq(@, k + 1, Len(@))]
  /\ UNCHANGED <<fds, sessions, shut, peer, stdin>>

ReportReset(n) == /\ peer' = [peer EXCEPT ![n] = "closed"]
                  /\ UNCHANGED <<fds, sessions, shut, inbox, stdin>>

-----------------------------------------------------------------------------
(* The peer and the network.                                               *)

(* A message of the peer arrives, unless this side has closed the socket.  *)
Arrive(n, m) ==
  /\ inbox' = IF IsOpen(n) THEN [inbox EXCEPT ![n] = Append(@, m)] ELSE inbox
  /\ UNCHANGED <<fds, sessions, shut, peer, stdin>>

PeerCloses(n) == /\ n <= sessions /\ peer[n] = "up"
                 /\ peer' = [peer EXCEPT ![n] = "closed"]
                 /\ UNCHANGED <<fds, sessions, shut, inbox, stdin>>

(* A reset discards what the kernel holds for the socket.                  *)
PeerResets(n) == /\ n <= sessions /\ peer[n] = "up"
                 /\ peer' = [peer EXCEPT ![n] = "reset"]
                 /\ inbox' = [inbox EXCEPT ![n] = <<>>]
                 /\ UNCHANGED <<fds, sessions, shut, stdin>>

SockTypeOK(Message) ==
  /\ fds \in [Fds -> 0..MaxSessions]
  /\ sessions \in 0..MaxSessions
  /\ shut \in [Session -> BOOLEAN]
  /\ peer \in [Session -> {"up", "closed", "reset"}]
  /\ inbox \in [Session -> Seq(Message)]
  /\ stdin \in BOOLEAN
=============================================================================
