----------------------------- MODULE NetshotProofs -----------------------------
(***************************************************************************)
(* Theorems about Netshot, for every value of its constants.               *)
(***************************************************************************)
EXTENDS Netshot, FiniteSetTheorems, FunctionTheorems, WellFoundedInduction, TLAPS

USE DEF vars, clientVars, serverVars, flagVars, scapVars, nameVars, diskVars

-----------------------------------------------------------------------------
(* The numbers that get_new_name tries.                                    *)

(* Among more numbers than there are files, one is free on the given day.  *)
LEMMA SomeNumberFree ==
  ASSUME IsFiniteSet(files), NEW base, NEW from \in Nat
  PROVE  \E n \in from..from + Cardinality(files) : <<base, n>> \notin files
  <1> DEFINE Tried == from..from + Cardinality(files)
             File == [n \in Tried |-> <<base, n>>]
  <1>1. Cardinality(files) \in Nat
    BY FS_CardinalityType
  <1>2. IsFiniteSet(Tried) /\ Cardinality(Tried) = Cardinality(files) + 1
    <2> DEFINE last == from + Cardinality(files)
    <2>1. last \in Int /\ from <= last /\ last - from + 1 = Cardinality(files) + 1
      BY <1>1
    <2> HIDE DEF last
    <2>2. /\ IsFiniteSet(from..last)
          /\ Cardinality(from..last) = IF from > last THEN 0 ELSE last - from + 1
      BY <2>1, FS_Interval
    <2>3. Cardinality(from..last) = Cardinality(files) + 1
      BY <2>1, <2>2
    <2> QED
      BY <2>2, <2>3 DEF last
  <1>3. SUFFICES ASSUME \A n \in Tried : <<base, n>> \in files PROVE FALSE
    OBVIOUS
  <1>4. File \in [Tried -> files]
    BY <1>3
  <1>5. \A a, b \in Tried : File[a] = File[b] => a = b
    OBVIOUS
  <1> HIDE DEF Tried, File
  <1>6. File \in Injection(Tried, files)
    BY <1>4, <1>5, Fun_IsInj
  <1>7. Cardinality(Tried) <= Cardinality(files)
    BY <1>6, FS_Injection
  <1> QED
    BY <1>1, <1>2, <1>7

(* The least number of a nonempty set.                                     *)
LEMMA LeastNumber ==
  ASSUME NEW S, S \subseteq Nat, S # {}
  PROVE  \E n \in S : \A m \in S : n <= m
  <1>1. \E n \in S : \A m \in S : ~ (<<m, n>> \in OpToRel(<, Nat))
    BY NatLessThanWellFounded, WFMin
  <1>2. PICK n \in S : \A m \in S : ~ (<<m, n>> \in OpToRel(<, Nat))
    BY <1>1
  <1>3. \A m \in S : ~ (m < n)
    BY <1>2 DEF OpToRel
  <1> QED
    BY <1>3

(* The name a capture thread chooses is not that of a file.                *)
LEMMA FirstFreeIsFree ==
  ASSUME IsFiniteSet(files), NEW base, NEW from \in Nat \ {0}
  PROVE  /\ FirstFree(base, from) \in Nat \ {0}
         /\ <<base, FirstFree(base, from)>> \notin files
  <1> DEFINE Tried == from..from + Cardinality(files)
             Free == {n \in Tried : <<base, n>> \notin files}
  <1>1. Cardinality(files) \in Nat
    BY FS_CardinalityType
  <1>2. Free \subseteq Nat /\ Free # {}
    <2>1. \E n \in Tried : <<base, n>> \notin files
      BY SomeNumberFree
    <2> QED
      BY <1>1, <2>1
  <1>3. PICK n \in Free : \A m \in Free : n <= m
    <2> HIDE DEF Free
    <2> QED BY <1>2, LeastNumber
  <1>4. \A k \in from..n-1 : <<base, k>> \in files
    BY <1>1, <1>3
  <1>5. \E i \in Tried : <<base, i>> \notin files /\ \A k \in from..i-1 : <<base, k>> \in files
    BY <1>3, <1>4
  <1>6. /\ FirstFree(base, from) \in Tried
        /\ <<base, FirstFree(base, from)>> \notin files
    BY <1>5 DEF FirstFree
  <1> QED
    BY <1>1, <1>6

-----------------------------------------------------------------------------
(* A name that was chosen is that of a screenshot, and the directory is    *)
(* finite, as FirstFree needs.                                             *)
Chosen(t) == scap[t] \in {"dump", "open", "write"}

TypeInv ==
  /\ TypeOK /\ IsFiniteSet(files)
  /\ \A t \in Threads : Chosen(t) => name[t] \in (1..Days) \X (Nat \ {0})

(* Only runs that were started have a console, and that of the present run *)
(* is connected.                                                           *)
LinkInv ==
  \A c \in Connections : console[c] # "none" => c <= run /\ (Linked(c) => connected[c])

(* A handler runs in the client, and while there is a server its console   *)
(* waits for the answer: there is one handler at a time.                   *)
Busy(r) == ~Handled(r)

RequestInv ==
  /\ \A r \in Requests : Busy(r) =>
       /\ client
       /\ server => /\ run \in Connections /\ connected[run]
                    /\ console[run] = "wait" /\ asked[run] = r
  /\ \A r, q \in Requests : Busy(r) /\ Busy(q) => r = q

(* scap_finished_flag is FALSE while a thread captures and when RUN_SCAP   *)
(* is about to start one; RUN_SCAP has found it TRUE.                      *)
CaptureInv ==
  /\ \A t \in Threads : Active(t) => ~scap_finished_flag
  /\ \A r \in Requests :
       /\ req[r] \in {"set_run", "set_finished", "spawn"} => \A t \in Threads : ~Active(t)
       /\ req[r] = "spawn" => ~scap_finished_flag
       /\ req[r] \in {"set_finished", "spawn"} => ~stopped
  /\ OneCapture /\ StopEndsCapture

(* A name stays free until its thread opens the file.                      *)
FileInv ==
  /\ NothingOverwritten
  /\ \A t \in Threads : scap[t] \in {"dump", "open"} => name[t] \notin files

(* Until somebody ends a process there is one run of the client, and every *)
(* console is connected to it.                                             *)
EndInv ==
  /\ EndsOnlyAfterKill
  /\ ~ended => run <= 1 /\ \A c \in Connections : console[c] # "none" => c = run /\ connected[c]
  /\ \A c \in Connections : connected[c] => console[c] # "none"
  /\ down => ~server

-----------------------------------------------------------------------------
(* What a step does to the client.                                         *)
LEMMA ClientMoves ==
  ASSUME [Next]_vars
  PROVE  \/ UNCHANGED clientVars
         \/ Start \/ Exit \/ DayPasses
         \/ \E r \in Requests, m \in Methods : Receive(r, m)
         \/ \E r \in Requests : Callback(r)
         \/ \E r \in Requests : SpuriousWakeup(r)
         \/ \E t \in Threads : Capture(t)
  <1>1. CASE StartClient \/ ClientNoticesLoss
    BY <1>1 DEF StartClient, ClientNoticesLoss
  <1>2. CASE ClientReturns \/ AnswerFails \/ ClientKilled
    BY <1>2 DEF ClientReturns, AnswerFails, ClientKilled, ClientExit
  <1>3. CASE ServerKilled
    BY <1>3 DEF ServerKilled
  <1>4. CASE \E c \in Connections : ConsoleStep(c) \/ SendRequest(c)
    BY <1>4 DEF ConsoleStep, SendRequest
  <1>5. CASE ClientStep
    BY <1>5 DEF ClientStep
  <1>6. CASE Midnight
    BY <1>6 DEF Midnight
  <1>7. CASE UNCHANGED vars
    BY <1>7
  <1> QED
    BY <1>1, <1>2, <1>3, <1>4, <1>5, <1>6, <1>7 DEF Next

LEMMA NoNameType == NoName \in (0..Days) \X Nat
  BY CaptureAssumption DEF NoName

(* A callback keeps the types, and touches neither the threads that        *)
(* capture nor the directory, but for the thread that RUN_SCAP starts.     *)
LEMMA CallbackType ==
  ASSUME TypeInv, NEW r \in Requests, Callback(r) \/ SpuriousWakeup(r)
  PROVE  ClientTypeOK' /\ IsFiniteSet(files')
         /\ \A t \in Threads : Chosen(t)' => name'[t] \in (1..Days) \X (Nat \ {0})
  <1> USE DEF TypeInv, TypeOK, ClientTypeOK, Chosen, Goto, Answer, NoCapture, Methods
  <1>1. CASE PrintMessage(r) \/ Unknown(r) \/ ListScap(r) \/ GetFileScap(r) \/ RunSpawnFails(r)
    BY <1>1 DEF PrintMessage, Unknown, ListScap, GetFileScap, RunSpawnFails
  <1>2. CASE RunCheck(r)
    BY <1>2 DEF RunCheck
  <1>3. CASE RunCheckFinished(r)
    BY <1>3 DEF RunCheckFinished
  <1>4. CASE RunSet(r) \/ RunSetFinished(r)
    BY <1>4 DEF RunSet, RunSetFinished
  <1>5. CASE RunSpawn(r)
    BY <1>5 DEF RunSpawn
  <1>6. CASE StopCheck(r) \/ StopClear(r)
    BY <1>6 DEF StopCheck, StopClear
  <1>7. CASE StopAwait(r)
    BY <1>7 DEF StopAwait
  <1>8. CASE StopBlock(r) \/ SpuriousWakeup(r)
    BY <1>8 DEF StopBlock, SpuriousWakeup
  <1> QED
    BY <1>1, <1>2, <1>3, <1>4, <1>5, <1>6, <1>7, <1>8 DEF Callback

LEMMA CaptureType ==
  ASSUME TypeInv, NEW t \in Threads, Capture(t)
  PROVE  ClientTypeOK' /\ IsFiniteSet(files')
         /\ \A u \in Threads : Chosen(u)' => name'[u] \in (1..Days) \X (Nat \ {0})
  <1> USE CaptureAssumption DEF TypeInv, TypeOK, ClientTypeOK, Chosen, Step, NoRequest, Methods
  <1>1. CASE ScapName(t)
    <2> DEFINE n == FirstFree(day, FirstNumber)
    <2>1. FirstNumber \in Nat \ {0}
      BY DEF FirstNumber
    <2>2. n \in Nat \ {0}
      BY <2>1, FirstFreeIsFree
    <2> HIDE DEF n
    <2>3. /\ Step(t, "name", "dump") /\ name' = [name EXCEPT ![t] = <<day, n>>]
          /\ name_base' = day /\ counter' = n + 1
          /\ NoRequest /\ UNCHANGED <<flagVars, displays, diskVars>>
      BY <1>1 DEF ScapName, n
    <2>4. <<day, n>> \in (1..Days) \X (Nat \ {0}) /\ <<day, n>> \in (0..Days) \X Nat
      BY <2>2
    <2> QED
      BY <2>2, <2>3, <2>4
  <1>2. CASE ScapDump(t)
    BY <1>2 DEF ScapDump
  <1>3. CASE ScapOpen(t)
    <2>1. IsFiniteSet(files')
      <3>1. files' = files \/ files' = files \cup {name[t]}
        BY <1>3 DEF ScapOpen
      <3>2. IsFiniteSet(files \cup {name[t]})
        BY FS_AddElement
      <3> QED
        BY <3>1, <3>2
    <2>2. ClientTypeOK'
      BY <1>3 DEF ScapOpen
    <2>3. \A u \in Threads : Chosen(u)' => name'[u] \in (1..Days) \X (Nat \ {0})
      BY <1>3 DEF ScapOpen
    <2> QED
      BY <2>1, <2>2, <2>3
  <1>4. CASE ScapWrite(t)
    BY <1>4 DEF ScapWrite
  <1>5. CASE ScapFails(t)
    BY <1>5 DEF ScapFails
  <1>6. CASE ScapCheck(t)
    BY <1>6 DEF ScapCheck
  <1>7. CASE ScapFinish(t)
    BY <1>7 DEF ScapFinish
  <1>8. CASE ScapNotify(t)
    BY <1>8 DEF ScapNotify, NoName
  <1> QED
    BY <1>1, <1>2, <1>3, <1>4, <1>5, <1>6, <1>7, <1>8 DEF Capture

LEMMA ClientType ==
  ASSUME TypeInv, [Next]_vars
  PROVE  ClientTypeOK' /\ IsFiniteSet(files')
         /\ \A t \in Threads : Chosen(t)' => name'[t] \in (1..Days) \X (Nat \ {0})
  <1> USE DEF TypeInv, TypeOK, ClientTypeOK, Chosen
  <1>1. CASE UNCHANGED clientVars
    BY <1>1
  <1>2. CASE Start
    BY <1>2 DEF Start
  <1>3. CASE Exit
    <2>1. req' \in [Requests -> Methods \cup {"new", "check_finished", "set_run", "set_finished",
                         "spawn", "clear", "await", "block", "asleep", "answered", "lost"}]
      BY <1>3 DEF Exit
    <2>2. /\ name' \in [Threads -> (0..Days) \X Nat]
          /\ name_base' \in 0..Days /\ displays' \in 0..MaxDisplays /\ counter' \in Nat \ {0}
      BY <1>3, NoNameType, CaptureAssumption DEF Exit
    <2>3. \A t \in Threads : ~Chosen(t)'
      BY <1>3 DEF Exit
    <2> QED
      BY <1>3, <2>1, <2>2, <2>3 DEF Exit
  <1>4. CASE DayPasses
    BY <1>4, CaptureAssumption DEF DayPasses
  <1>5. CASE \E r \in Requests, m \in Methods : Receive(r, m)
    BY <1>5 DEF Receive
  <1>6. CASE \E r \in Requests : Callback(r) \/ SpuriousWakeup(r)
    BY <1>6, CallbackType
  <1>7. CASE \E t \in Threads : Capture(t)
    BY <1>7, CaptureType
  <1> QED
    BY <1>1, <1>2, <1>3, <1>4, <1>5, <1>6, <1>7, ClientMoves

LEMMA ServerType ==
  ASSUME TypeInv, [Next]_vars
  PROVE  /\ run' \in {0} \cup Connections /\ {server', down', ended'} \subseteq BOOLEAN
         /\ connected' \in [Connections -> BOOLEAN]
         /\ console' \in [Connections -> {"none", "deferred", "top", "check", "send", "transmit",
                                          "wait", "closed"}]
         /\ asked' \in [Connections -> Requests \cup {NoRequestYet}]
  <1> USE DEF TypeInv, TypeOK, Moves
  <1>1. CASE StartClient \/ ClientNoticesLoss \/ ClientReturns \/ AnswerFails \/ ClientKilled
    BY <1>1 DEF StartClient, ClientNoticesLoss, ClientReturns, AnswerFails, ClientKilled, ClientExit
  <1>2. CASE ServerKilled
    BY <1>2 DEF ServerKilled, ServerEnds
  <1>3. ASSUME NEW c \in Connections, ConsoleStep(c) PROVE
         /\ run' = run /\ down' = down /\ ended' = ended /\ server' \in BOOLEAN
         /\ connected' \in [Connections -> BOOLEAN]
         /\ console' \in [Connections -> {"none", "deferred", "top", "check", "send", "transmit",
                                          "wait", "closed"}]
         /\ asked' \in [Connections -> Requests \cup {NoRequestYet}]
    <2>1. CASE Accept(c)
      BY <1>3, <2>1 DEF ConsoleStep, Accept
    <2>2. CASE Open(c) \/ Top(c) \/ Check(c)
      BY <1>3, <2>2 DEF ConsoleStep, Open, Top, Build, Check
    <2>3. CASE Send(c)
      BY <1>3, <2>3 DEF ConsoleStep, Send, ServerEnds
    <2>4. CASE TransmitFails(c)
      <3>1. CASE ServerEnds
        BY <1>3, <3>1 DEF ConsoleStep, ServerEnds
      <3>2. CASE \E next \in {"wait", "top"} : Moves(c, next) /\ UNCHANGED <<server, connected, asked>>
        BY <1>3, <3>2 DEF ConsoleStep
      <3> QED
        BY <2>4, <3>1, <3>2 DEF TransmitFails
    <2>5. CASE GetResponse(c) \/ NoticeLoss(c)
      BY <1>3, <2>5 DEF ConsoleStep, GetResponse, NoticeLoss
    <2> QED
      BY <1>3, <2>1, <2>2, <2>3, <2>4, <2>5 DEF ConsoleStep
  <1>4. ASSUME NEW c \in Connections, SendRequest(c) PROVE
         /\ UNCHANGED <<run, down, ended, server, connected>>
         /\ console' \in [Connections -> {"none", "deferred", "top", "check", "send", "transmit",
                                          "wait", "closed"}]
         /\ asked' \in [Connections -> Requests \cup {NoRequestYet}]
    BY <1>4 DEF SendRequest, Transmit, AfterTransmit
  <1>5. CASE ClientStep \/ Midnight \/ UNCHANGED vars
    BY <1>5 DEF ClientStep, Midnight
  <1>6. CASE \E c \in Connections : ConsoleStep(c) \/ SendRequest(c)
    BY <1>3, <1>4, <1>6
  <1> QED
    BY <1>1, <1>2, <1>5, <1>6 DEF Next

LEMMA TypeNext == TypeInv /\ [Next]_vars => TypeInv'
  BY ClientType, ServerType DEF TypeInv, TypeOK

LEMMA TypeInit == Init => TypeInv
  <1> SUFFICES ASSUME Init PROVE TypeInv
    OBVIOUS
  <1>1. ClientTypeOK /\ IsFiniteSet(files)
    <2> USE CaptureAssumption DEF Init, ClientInit
    <2>1. /\ name \in [Threads -> (0..Days) \X Nat]
          /\ name_base \in 0..Days /\ displays \in 0..MaxDisplays /\ day \in 1..Days
          /\ counter \in Nat \ {0}
      BY NoNameType
    <2>2. /\ files \subseteq (1..Days) \X (Nat \ {0}) /\ IsFiniteSet(files)
          /\ overwritten = {}
      <3>1. files = Existing /\ overwritten = {}
        OBVIOUS
      <3>2. Existing \subseteq (1..Days) \X (Nat \ {0}) /\ IsFiniteSet(Existing)
        BY ONLY CaptureAssumption DEF CaptureAssumption
      <3> QED
        BY ONLY <3>1, <3>2
    <2>3. {client, run_scap_flag, scap_finished_flag, stopped} \subseteq BOOLEAN
      BY ONLY Init, Zenon DEF Init, ClientInit
    <2>5. scap \in [Threads -> {"none", "name", "dump", "open", "write", "failed", "check",
                               "finish", "notify"}]
      OBVIOUS
    <2>4. req \in [Requests -> Methods \cup {"new", "check_finished", "set_run", "set_finished",
                        "spawn", "clear", "await", "block", "asleep", "answered", "lost"}]
      OBVIOUS
    <2> QED
      BY ONLY <2>1, <2>2, <2>3, <2>4, <2>5 DEF ClientTypeOK
  <1>2. \A t \in Threads : ~Chosen(t)
    BY DEF Init, ClientInit, Chosen
  <1> QED
    BY <1>1, <1>2 DEF Init, ServerInit, TypeInv, TypeOK

LEMMA TypeInvariant == Spec => []TypeInv
  BY TypeInit, TypeNext, PTL DEF Spec

(* Every variable has its type: the handlers and capture threads of the    *)
(* client and the consoles of the server are where their code can be, and  *)
(* the directory holds names that get_new_name makes.                      *)
THEOREM TypeCorrect == Spec => []TypeOK
  BY TypeInvariant, PTL DEF TypeInv

-----------------------------------------------------------------------------
(* A callback moves its own handler, which is not one that has answered.   *)
LEMMA CallbackFrame ==
  ASSUME TypeOK, NEW r \in Requests, Callback(r) \/ SpuriousWakeup(r)
  PROVE  /\ client' = client /\ Busy(r)
         /\ \A q \in Requests : q # r => req'[q] = req[q]
  <1> USE DEF TypeOK, ClientTypeOK, Busy, Handled, Goto, Answer, NoCapture
  <1>1. CASE PrintMessage(r) \/ Unknown(r) \/ ListScap(r) \/ GetFileScap(r) \/ RunSpawnFails(r)
    BY <1>1 DEF PrintMessage, Unknown, ListScap, GetFileScap, RunSpawnFails
  <1>2. CASE RunCheck(r) \/ RunCheckFinished(r)
    BY <1>2 DEF RunCheck, RunCheckFinished
  <1>3. CASE RunSet(r) \/ RunSetFinished(r) \/ RunSpawn(r)
    BY <1>3 DEF RunSet, RunSetFinished, RunSpawn
  <1>4. CASE StopCheck(r) \/ StopClear(r) \/ StopAwait(r)
    BY <1>4 DEF StopCheck, StopClear, StopAwait
  <1>5. CASE StopBlock(r) \/ SpuriousWakeup(r)
    BY <1>5 DEF StopBlock, SpuriousWakeup
  <1> QED
    BY <1>1, <1>2, <1>3, <1>4, <1>5 DEF Callback

(* A capture thread wakes handlers, and starts and ends none.              *)
LEMMA CaptureFrame ==
  ASSUME TypeOK, NEW t \in Threads, Capture(t)
  PROVE  /\ client' = client
         /\ \A q \in Requests : req'[q] = req[q] \/ (req[q] = "asleep" /\ req'[q] = "await")
  BY DEF TypeOK, ClientTypeOK, Capture, ScapName, ScapDump, ScapOpen, ScapWrite, ScapFails, ScapCheck,
         ScapFinish, ScapNotify, NoRequest

(* The console that waits for a handler keeps waiting.                     *)
LEMMA ConsoleWaits ==
  ASSUME TypeOK, RequestInv, NEW c \in Connections, ConsoleStep(c),
         NEW r \in Requests, Busy(r), server'
  PROVE  server /\ connected'[run] /\ console'[run] = "wait" /\ asked'[run] = r
  <1>1. server
    BY DEF ConsoleStep, Accept, Open, Top, Check, Send, TransmitFails, GetResponse, NoticeLoss,
           ServerEnds, At
  <1>2. /\ run \in Connections /\ connected[run] /\ console[run] = "wait" /\ asked[run] = r
        /\ Linked(run) /\ ~Answered(run)
    BY <1>1 DEF RequestInv, Linked, Answered, Busy, Handled
  <1>3. c # run
    BY <1>2 DEF ConsoleStep, Accept, Open, Top, Check, Send, TransmitFails, GetResponse, NoticeLoss, At
  <1>4. \/ server' = FALSE
        \/ /\ \E target : console' = [console EXCEPT ![c] = target]
           /\ connected' = connected \/ \E b : connected' = [connected EXCEPT ![c] = b]
           /\ asked' = asked \/ \E q : asked' = [asked EXCEPT ![c] = q]
        \/ UNCHANGED <<console, asked>> /\ \E b : connected' = [connected EXCEPT ![c] = b]
    BY DEF ConsoleStep, Accept, Open, Top, Check, Send, TransmitFails, GetResponse, NoticeLoss,
           ServerEnds, Moves
  <1> QED
    BY <1>1, <1>2, <1>3, <1>4 DEF TypeOK

LEMMA LinkNext == ASSUME TypeOK, LinkInv, [Next]_vars PROVE LinkInv'
  <1> USE NetshotAssumption DEF LinkInv, Linked, TypeOK, ClientTypeOK
  <1>1. CASE StartClient
    BY <1>1 DEF StartClient, Start
  <1>2. CASE ClientReturns \/ AnswerFails \/ ClientKilled
    BY <1>2 DEF ClientReturns, AnswerFails, ClientKilled, ClientExit, Exit
  <1>3. CASE ServerKilled
    BY <1>3 DEF ServerKilled, ServerEnds
  <1>4. ASSUME NEW c \in Connections, ConsoleStep(c) PROVE LinkInv'
    BY <1>4 DEF ConsoleStep, Accept, Open, Top, Check, Send, TransmitFails, GetResponse, NoticeLoss,
           ServerEnds, At, Moves
  <1>5. ASSUME NEW c \in Connections, SendRequest(c) PROVE LinkInv'
    BY <1>5 DEF SendRequest, Transmit, Receive, At, Moves
  <1>6. CASE \E r \in Requests : (Callback(r) \/ SpuriousWakeup(r)) /\ UNCHANGED <<serverVars, run>>
    BY <1>6, CallbackFrame
  <1>7. CASE \E t \in Threads : Capture(t) /\ UNCHANGED <<serverVars, run>>
    BY <1>7, CaptureFrame
  <1>8. CASE ClientStep
    BY <1>6, <1>7, <1>8 DEF ClientStep
  <1>9. CASE Midnight \/ ClientNoticesLoss \/ UNCHANGED vars
    BY <1>9 DEF Midnight, DayPasses, ClientNoticesLoss
  <1> QED
    BY <1>1, <1>2, <1>3, <1>4, <1>5, <1>8, <1>9 DEF Next

LEMMA RequestNext == ASSUME TypeOK, LinkInv, RequestInv, [Next]_vars PROVE RequestInv'
  <1>1. CASE StartClient
    BY <1>1 DEF StartClient, Start, RequestInv, Busy, Handled
  <1>2. CASE ClientReturns \/ AnswerFails \/ ClientKilled
    BY <1>2 DEF ClientReturns, AnswerFails, ClientKilled, ClientExit, Exit, RequestInv, Busy, Handled
  <1>3. CASE ServerKilled
    BY <1>3 DEF ServerKilled, ServerEnds, RequestInv, Busy, Handled
  <1>4. ASSUME NEW c \in Connections, ConsoleStep(c) PROVE RequestInv'
    <2>1. UNCHANGED <<clientVars, run>>
      BY <1>4 DEF ConsoleStep
    <2> QED
      BY <1>4, <2>1, ConsoleWaits DEF RequestInv, Busy, Handled
  <1>5. ASSUME NEW c \in Connections, SendRequest(c) PROVE RequestInv'
    <2>1. PICK r \in Requests, m \in Methods : Transmit(c, r) /\ Receive(r, m)
      BY <1>5 DEF SendRequest
    <2>2. Linked(c) /\ UNCHANGED run /\ server' = server /\ client' = client
      BY <1>5, <2>1 DEF SendRequest, Transmit, Receive
    <2>3. \A q \in Requests : ~Busy(q)
      BY <2>1, <2>2 DEF RequestInv, Transmit, At, Linked
    <2>4. \A q \in Requests : q # r => ~Busy(q)'
      BY <2>1, <2>3 DEF Receive, Busy, Handled, TypeOK, ClientTypeOK
    <2>5. client' /\ run' \in Connections
      BY <2>2 DEF Linked
    <2>6. console'[c] = "wait" /\ asked'[c] = r
      BY <2>1 DEF Transmit, Moves, AfterTransmit, TypeOK
    <2>7. connected'[c]
      BY <2>1, <2>2 DEF Transmit, At, LinkInv
    <2> QED
      BY <2>2, <2>4, <2>5, <2>6, <2>7 DEF RequestInv, Linked
  <1>6. ASSUME NEW r \in Requests, Callback(r) \/ SpuriousWakeup(r), UNCHANGED <<serverVars, run>>
        PROVE  RequestInv'
    <2>1. /\ client' = client /\ Busy(r)
          /\ \A q \in Requests : Busy(q)' => Busy(q)
      BY <1>6, CallbackFrame DEF Busy, Handled
    <2> QED
      BY <1>6, <2>1 DEF RequestInv
  <1>7. ASSUME NEW t \in Threads, Capture(t), UNCHANGED <<serverVars, run>> PROVE RequestInv'
    <2>1. client' = client /\ \A q \in Requests : Busy(q)' => Busy(q)
      BY <1>7, CaptureFrame DEF Busy, Handled
    <2> QED
      BY <1>7, <2>1 DEF RequestInv
  <1>8. CASE ClientStep
    BY <1>6, <1>7, <1>8 DEF ClientStep
  <1>9. CASE Midnight \/ ClientNoticesLoss \/ UNCHANGED vars
    BY <1>9 DEF Midnight, DayPasses, ClientNoticesLoss, RequestInv, Busy, Handled
  <1> QED
    BY <1>1, <1>2, <1>3, <1>4, <1>5, <1>8, <1>9 DEF Next

LEMMA RequestInvariant == Spec => [](LinkInv /\ RequestInv)
  <1>1. Init => LinkInv /\ RequestInv
    BY DEF Init, ClientInit, ServerInit, LinkInv, RequestInv, Busy, Handled
  <1>2. TypeOK /\ LinkInv /\ RequestInv /\ [Next]_vars => (LinkInv /\ RequestInv)'
    BY LinkNext, RequestNext
  <1> QED
    BY <1>1, <1>2, TypeCorrect, PTL DEF Spec

-----------------------------------------------------------------------------
LEMMA CallbackCapture ==
  ASSUME TypeOK, RequestInv, CaptureInv, NEW r \in Requests, Callback(r) \/ SpuriousWakeup(r)
  PROVE  CaptureInv'
  <1>1. Busy(r) /\ \A q \in Requests : q # r => req'[q] = req[q] /\ ~Busy(q)
    BY CallbackFrame DEF RequestInv
  <1>2. \A q \in Requests : q # r => ~Busy(q)'
    BY <1>1 DEF Busy, Handled
  <1>3. SUFFICES
          /\ \A t \in Threads : Active(t)' => ~scap_finished_flag'
          /\ req'[r] \in {"set_run", "set_finished", "spawn"} => \A t \in Threads : ~Active(t)'
          /\ req'[r] = "spawn" => ~scap_finished_flag'
          /\ req'[r] \in {"set_finished", "spawn"} => ~stopped'
          /\ OneCapture' /\ StopEndsCapture'
    BY <1>2 DEF CaptureInv, Busy, Handled
  <1> USE DEF TypeOK, ClientTypeOK, CaptureInv, OneCapture, StopEndsCapture, Active, Goto, Answer,
              NoCapture
  <1>4. CASE PrintMessage(r) \/ Unknown(r) \/ ListScap(r) \/ GetFileScap(r) \/ RunSpawnFails(r)
    BY <1>4 DEF PrintMessage, Unknown, ListScap, GetFileScap, RunSpawnFails
  <1>5. CASE RunCheck(r) \/ RunCheckFinished(r)
    BY <1>5 DEF RunCheck, RunCheckFinished
  <1>6. CASE RunSet(r) \/ RunSetFinished(r)
    BY <1>6 DEF RunSet, RunSetFinished
  <1>7. CASE RunSpawn(r)
    <2>1. PICK t \in Threads : scap[t] = "none" /\ scap' = [scap EXCEPT ![t] = "name"]
      BY <1>7 DEF RunSpawn
    <2>2. /\ req[r] = "spawn" /\ req'[r] = "answered"
          /\ UNCHANGED <<scap_finished_flag, stopped>>
      BY <1>7 DEF RunSpawn
    <2>3. ~scap_finished_flag /\ ~stopped /\ \A u \in Threads : ~Active(u)
      BY <2>2
    <2>4. \A u \in Threads : Active(u)' => u = t
      BY <2>1, <2>3
    <2> QED
      BY <2>2, <2>3, <2>4
  <1>8. CASE StopCheck(r) \/ StopClear(r)
    BY <1>8 DEF StopCheck, StopClear
  <1>9. CASE StopAwait(r)
    BY <1>9 DEF StopAwait
  <1>10. CASE StopBlock(r) \/ SpuriousWakeup(r)
    BY <1>10 DEF StopBlock, SpuriousWakeup
  <1> QED
    BY <1>4, <1>5, <1>6, <1>7, <1>8, <1>9, <1>10 DEF Callback

LEMMA CaptureNext == ASSUME TypeOK, RequestInv, CaptureInv, [Next]_vars PROVE CaptureInv'
  <1> USE DEF CaptureInv, OneCapture, StopEndsCapture, Active
  <1>1. CASE UNCHANGED clientVars
    BY <1>1
  <1>2. CASE Start \/ DayPasses
    BY <1>2 DEF Start, DayPasses
  <1>3. CASE Exit
    BY <1>3 DEF Exit, Handled
  <1>4. CASE \E r \in Requests, m \in Methods : Receive(r, m)
    BY <1>4 DEF Receive, TypeOK, ClientTypeOK, Methods
  <1>5. CASE \E r \in Requests : Callback(r) \/ SpuriousWakeup(r)
    BY <1>5, CallbackCapture
  <1>6. CASE \E t \in Threads : Capture(t)
    <2>1. PICK t \in Threads : Capture(t)
      BY <1>6
    <2> USE DEF TypeOK, ClientTypeOK, Step, NoRequest
    <2>2. CASE ScapName(t)
      BY <2>2 DEF ScapName
    <2>3. CASE ScapDump(t)
      BY <2>3 DEF ScapDump
    <2>4. CASE ScapOpen(t)
      BY <2>4 DEF ScapOpen
    <2>5. CASE ScapWrite(t) \/ ScapFails(t) \/ ScapCheck(t)
      BY <2>5 DEF ScapWrite, ScapFails, ScapCheck
    <2>6. CASE ScapFinish(t)
      BY <2>6 DEF ScapFinish
    <2>7. CASE ScapNotify(t)
      BY <2>7 DEF ScapNotify
    <2> QED
      BY <2>1, <2>2, <2>3, <2>4, <2>5, <2>6, <2>7 DEF Capture
  <1> QED
    BY <1>1, <1>2, <1>3, <1>4, <1>5, <1>6, ClientMoves

LEMMA CaptureInvariant == Spec => []CaptureInv
  <1>1. Init => CaptureInv
    BY DEF Init, ClientInit, CaptureInv, OneCapture, StopEndsCapture, Active
  <1>2. TypeOK /\ RequestInv /\ CaptureInv /\ [Next]_vars => CaptureInv'
    BY CaptureNext
  <1> QED
    BY <1>1, <1>2, TypeCorrect, RequestInvariant, PTL DEF Spec

(* However many threads and requests there are, no two threads capture at  *)
(* a time: the server waits for each answer, so RUN_SCAP's test of the two *)
(* flags and the four steps that set them are not interleaved with another *)
(* callback.                                                               *)
THEOREM AtMostOneCapture == Spec => []OneCapture
  BY CaptureInvariant, PTL DEF CaptureInv

(* Between a STOP_SCAP that was answered ok and the next RUN_SCAP no       *)
(* thread touches the display or the directory.                            *)
THEOREM StopIsFinal == Spec => []StopEndsCapture
  BY CaptureInvariant, PTL DEF CaptureInv

-----------------------------------------------------------------------------
(* A step that neither chooses a name nor opens a file.                    *)
LEMMA FileFrame ==
  ASSUME FileInv, UNCHANGED diskVars,
         \A t \in Threads : scap'[t] \in {"dump", "open"} =>
           scap[t] \in {"dump", "open"} /\ name'[t] = name[t]
  PROVE  FileInv'
  BY DEF FileInv, NothingOverwritten

LEMMA FileNext == ASSUME TypeInv, CaptureInv, FileInv, [Next]_vars PROVE FileInv'
  <1> USE DEF TypeInv, TypeOK, ClientTypeOK
  <1>1. CASE UNCHANGED clientVars
    BY <1>1, FileFrame
  <1>2. CASE Start \/ DayPasses
    BY <1>2, FileFrame DEF Start, DayPasses
  <1>3. CASE Exit
    BY <1>3, FileFrame DEF Exit
  <1>4. CASE \E r \in Requests, m \in Methods : Receive(r, m)
    BY <1>4, FileFrame DEF Receive
  <1>5. CASE \E r \in Requests : Callback(r) \/ SpuriousWakeup(r)
    <2>1. PICK r \in Requests : Callback(r) \/ SpuriousWakeup(r)
      BY <1>5
    <2>2. UNCHANGED <<diskVars, name>> /\ \A t \in Threads : scap'[t] \in {scap[t], "name"}
      BY <2>1 DEF Callback, PrintMessage, Unknown, ListScap, GetFileScap, RunCheck, RunCheckFinished,
                  RunSet, RunSetFinished, RunSpawn, RunSpawnFails, StopCheck, StopClear, StopAwait,
                  StopBlock, SpuriousWakeup, NoCapture
    <2> QED
      BY <2>2, FileFrame
  <1>6. CASE \E t \in Threads : Capture(t)
    <2>1. PICK t \in Threads : Capture(t)
      BY <1>6
    <2> USE DEF Step, NoRequest
    <2>2. CASE ScapName(t)
      <3> DEFINE n == FirstFree(day, FirstNumber)
      <3>1. FirstNumber \in Nat \ {0}
        BY DEF FirstNumber
      <3>2. <<day, n>> \notin files
        BY <3>1, FirstFreeIsFree
      <3> HIDE DEF n
      <3>3. /\ scap' = [scap EXCEPT ![t] = "dump"] /\ name' = [name EXCEPT ![t] = <<day, n>>]
            /\ UNCHANGED diskVars
        BY <2>2 DEF ScapName, n
      <3> QED
        BY <3>2, <3>3 DEF FileInv, NothingOverwritten
    <2>3. CASE ScapDump(t)
      BY <2>3, FileFrame DEF ScapDump
    <2>4. CASE ScapOpen(t)
      <3>1. \A u \in Threads : scap'[u] \in {"dump", "open"} => u # t /\ scap'[u] = scap[u]
        BY <2>4 DEF ScapOpen
      <3>2. \A u \in Threads : scap'[u] \notin {"dump", "open"}
        BY <2>4, <3>1 DEF ScapOpen, CaptureInv, OneCapture, Active
      <3>3. overwritten' = {}
        BY <2>4 DEF ScapOpen, FileInv, NothingOverwritten
      <3> QED
        BY <3>2, <3>3 DEF FileInv, NothingOverwritten
    <2>5. CASE ScapWrite(t)
      BY <2>5 DEF ScapWrite, FileInv, NothingOverwritten
    <2>6. CASE ScapFails(t) \/ ScapCheck(t) \/ ScapFinish(t)
      BY <2>6, FileFrame DEF ScapFails, ScapCheck, ScapFinish
    <2>7. CASE ScapNotify(t)
      BY <2>7, FileFrame DEF ScapNotify
    <2> QED
      BY <2>1, <2>2, <2>3, <2>4, <2>5, <2>6, <2>7 DEF Capture
  <1> QED
    BY <1>1, <1>2, <1>3, <1>4, <1>5, <1>6, ClientMoves

(* A screenshot never replaces a file: not one of an earlier process,      *)
(* whose numbers a new process starts over, nor one of the same day.       *)
THEOREM NoFileReplaced == Spec => []NothingOverwritten
  <1>1. Init => FileInv
    BY DEF Init, ClientInit, FileInv, NothingOverwritten
  <1>2. TypeInv /\ CaptureInv /\ FileInv /\ [Next]_vars => FileInv'
    BY FileNext
  <1>3. FileInv => NothingOverwritten
    BY DEF FileInv
  <1> QED
    BY <1>1, <1>2, <1>3, TypeInvariant, CaptureInvariant, PTL DEF Spec

-----------------------------------------------------------------------------
LEMMA EndNext == ASSUME TypeOK, LinkInv, EndInv, [Next]_vars PROVE EndInv'
  <1> USE NetshotAssumption DEF TypeOK, ClientTypeOK, EndInv, EndsOnlyAfterKill
  <1>1. CASE StartClient
    BY <1>1 DEF StartClient, Start
  <1>2. CASE ClientNoticesLoss
    BY <1>2 DEF ClientNoticesLoss
  <1>3. CASE ClientReturns \/ AnswerFails \/ ClientKilled
    BY <1>3 DEF ClientReturns, AnswerFails, ClientKilled, ClientExit, Exit
  <1>4. CASE ServerKilled
    BY <1>4 DEF ServerKilled, ServerEnds
  <1>5. ASSUME NEW c \in Connections, ConsoleStep(c) PROVE EndInv'
    <2> USE <1>5 DEF At, Moves, LinkInv, Linked
    <2>1. UNCHANGED <<clientVars, run, down, ended>>
      BY DEF ConsoleStep
    <2>2. CASE Accept(c) /\ c <= run
      BY <2>1, <2>2 DEF Accept
    <2>3. CASE Open(c) \/ Top(c) \/ Check(c)
      BY <2>1, <2>3 DEF Open, Top, Check, Build
    <2>4. CASE Send(c)
      <3>1. CASE connected[c]
        BY <2>1, <2>4, <3>1 DEF Send
      <3>2. CASE ~connected[c]
        <4>1. ended
          BY <2>4, <3>2 DEF Send
        <4> QED
          BY <2>1, <2>4, <3>2, <4>1 DEF Send, ServerEnds
      <3> QED
        BY <3>1, <3>2
    <2>5. CASE TransmitFails(c) /\ ~Linked(c)
      BY <2>1, <2>5 DEF TransmitFails, ServerEnds
    <2>6. CASE GetResponse(c)
      BY <2>1, <2>6 DEF GetResponse
    <2>7. CASE NoticeLoss(c) /\ ~Linked(c)
      BY <2>1, <2>7 DEF NoticeLoss
    <2> QED
      BY <2>2, <2>3, <2>4, <2>5, <2>6, <2>7 DEF ConsoleStep
  <1>6. ASSUME NEW c \in Connections, SendRequest(c) PROVE EndInv'
    BY <1>6 DEF SendRequest, Transmit, Receive, At, Moves, AfterTransmit
  <1>7. CASE ClientStep
    <2>1. client' = client
      BY <1>7, CallbackFrame, CaptureFrame DEF ClientStep
    <2> QED
      BY <1>7, <2>1 DEF ClientStep
  <1>8. CASE Midnight \/ UNCHANGED vars
    BY <1>8 DEF Midnight, DayPasses
  <1> QED
    BY <1>1, <1>2, <1>3, <1>4, <1>5, <1>6, <1>7, <1>8 DEF Next

(* Neither process ends by itself: as long as nobody has ended one, the    *)
(* server runs, and so does the client that was started; in particular no  *)
(* answer and no request finds its connection down.                        *)
THEOREM NobodyEndsAlone == Spec => []EndsOnlyAfterKill
  <1>1. Init => EndInv
    BY DEF Init, ClientInit, ServerInit, EndInv, EndsOnlyAfterKill
  <1>2. TypeOK /\ LinkInv /\ EndInv /\ [Next]_vars => EndInv'
    BY EndNext
  <1>3. EndInv => EndsOnlyAfterKill
    BY DEF EndInv
  <1> QED
    BY <1>1, <1>2, <1>3, TypeCorrect, RequestInvariant, PTL DEF Spec

=============================================================================
