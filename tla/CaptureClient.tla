----------------------------- MODULE CaptureClient -----------------------------
(***************************************************************************)
(* The netshot client: its process, which is started, connects and ends    *)
(* with the connection, the callbacks of its five methods, each run by a   *)
(* detached handler thread of the connection, the detached capture threads *)
(* that RUN_SCAP and STOP_SCAP start and stop, and the capture directory,  *)
(* which outlives the process.                                             *)
(*                                                                         *)
(* A screenshot is named by the day and a number, a pair here.             *)
(***************************************************************************)
EXTENDS Integers, FiniteSets

CONSTANTS Requests,     \* requests of the server, each handled once
          Threads,      \* names for capture threads
          Days,         \* bound: days that pass
          MaxDisplays,  \* connections the X server grants to one process
          Existing      \* screenshots in the directory at first: <<day, number>> pairs

ASSUME CaptureAssumption == /\ Days \in Nat \ {0} /\ MaxDisplays \in Nat
                            /\ Existing \subseteq (1..Days) \X (Nat \ {0})
                            /\ IsFiniteSet(Existing)

VARIABLES
  client,               \* the process runs
  run_scap_flag, scap_finished_flag,
  req,                  \* handlers: where they are; at first in the method
  scap, name,           \* capture threads: program counter, name of the screenshot
  counter, name_base,   \* statics of Screencap; 0 for the empty name_base
  displays,             \* connections to the X server
  files,                \* the directory
  day,
  stopped,              \* auxiliary: a STOP_SCAP was answered ok, no RUN_SCAP since
  overwritten           \* auxiliary: names opened for writing that were present

flagVars == <<run_scap_flag, scap_finished_flag>>
scapVars == <<scap, name>>
nameVars == <<counter, name_base>>
diskVars == <<files, overwritten>>
clientVars == <<client, flagVars, req, scapVars, nameVars, displays, diskVars, day, stopped>>

Methods == {"PRINT", "RUN_SCAP", "STOP_SCAP", "LIST_SCAP", "GETFILE_SCAP", "other"}

NoName == <<0, 0>>

ClientInit == /\ client = FALSE
              /\ run_scap_flag = FALSE /\ scap_finished_flag = TRUE
              /\ req = [r \in Requests |-> "new"]
              /\ scap = [t \in Threads |-> "none"]
              /\ name = [t \in Threads |-> NoName]
              /\ counter = 1 /\ name_base = 0 /\ displays = 0
              /\ files = Existing /\ day = 1
              /\ stopped = FALSE /\ overwritten = {}

Handled(r) == req[r] \in {"new", "answered", "lost"}

(* A capture thread that may still touch the display or the directory.     *)
Active(t) == scap[t] \in {"name", "dump", "open", "write", "failed", "check", "finish"}

-----------------------------------------------------------------------------
(* run_client: connects, adds the methods, and waits for the connection to *)
(* go down.                                                                *)
Start == /\ ~client /\ client' = TRUE
         /\ UNCHANGED <<flagVars, req, scapVars, nameVars, displays, diskVars, day, stopped>>

(* The end of the process, in whatever step its threads are; a file that   *)
(* is being written stays.                                                 *)
Exit == /\ client /\ client' = FALSE
        /\ run_scap_flag' = FALSE /\ scap_finished_flag' = TRUE
        /\ req' = [r \in Requests |-> IF Handled(r) THEN req[r] ELSE "lost"]
        /\ scap' = [t \in Threads |-> "none"] /\ name' = [t \in Threads |-> NoName]
        /\ counter' = 1 /\ name_base' = 0 /\ displays' = 0
        /\ stopped' = FALSE
        /\ UNCHANGED <<diskVars, day>>

(* A request reaches its callback.                                         *)
Receive(r, m) ==
  /\ client /\ req[r] = "new"
  /\ req' = [req EXCEPT ![r] = m]
  /\ UNCHANGED <<client, flagVars, scapVars, nameVars, displays, diskVars, day, stopped>>

Goto(r, from, target) == req[r] = from /\ req' = [req EXCEPT ![r] = target]

(* The callback returns; its status and the error texts are left out.      *)
Answer(r, from) == Goto(r, from, "answered")

(* What a callback leaves alone.                                           *)
NoCapture == UNCHANGED <<client, scapVars, nameVars, displays, diskVars, day>>

PrintMessage(r) == /\ Answer(r, "PRINT")
            /\ NoCapture /\ UNCHANGED <<flagVars, stopped>>

(* handle_request without such a method.                                   *)
Unknown(r) == /\ Answer(r, "other")
              /\ NoCapture /\ UNCHANGED <<flagVars, stopped>>

ListScap(r) == /\ Answer(r, "LIST_SCAP")
               /\ NoCapture /\ UNCHANGED <<flagVars, stopped>>

(* The file that is named, if it opens, with what is in it at the moment.  *)
GetFileScap(r) == /\ Answer(r, "GETFILE_SCAP")
                  /\ NoCapture /\ UNCHANGED <<flagVars, stopped>>

(* RUN_SCAP_callback; the interval may be invalid.                         *)
RunCheck(r) ==
  /\ Answer(r, "RUN_SCAP") \/ (~run_scap_flag /\ Goto(r, "RUN_SCAP", "check_finished"))
  /\ NoCapture /\ UNCHANGED <<flagVars, stopped>>

RunCheckFinished(r) ==
  /\ Goto(r, "check_finished", IF scap_finished_flag THEN "set_run" ELSE "answered")
  /\ NoCapture /\ UNCHANGED <<flagVars, stopped>>

RunSet(r) ==
  /\ Goto(r, "set_run", "set_finished")
  /\ run_scap_flag' = TRUE /\ stopped' = FALSE
  /\ NoCapture /\ UNCHANGED scap_finished_flag

RunSetFinished(r) ==
  /\ Goto(r, "set_finished", "spawn")
  /\ scap_finished_flag' = FALSE
  /\ NoCapture /\ UNCHANGED <<run_scap_flag, stopped>>

RunSpawn(r) ==
  /\ Answer(r, "spawn") /\ \E t \in Threads : scap[t] = "none"
  /\ scap' = [scap EXCEPT ![CHOOSE t \in Threads : scap[t] = "none"] = "name"]
  /\ UNCHANGED <<client, flagVars, name, nameVars, displays, diskVars, day, stopped>>

(* std::thread throws, and handle_request answers that: the flags stay.    *)
RunSpawnFails(r) ==
  /\ Answer(r, "spawn")
  /\ NoCapture /\ UNCHANGED <<flagVars, stopped>>

(* STOP_SCAP_callback.                                                     *)
StopCheck(r) ==
  /\ Goto(r, "STOP_SCAP", IF run_scap_flag THEN "clear" ELSE "answered")
  /\ NoCapture /\ UNCHANGED <<flagVars, stopped>>

StopClear(r) ==
  /\ Goto(r, "clear", "await")
  /\ run_scap_flag' = FALSE
  /\ NoCapture /\ UNCHANGED <<scap_finished_flag, stopped>>

(* Mutant: the capture thread is not waited for.                           *)
StopAwait_NoWait(r) ==
  /\ Answer(r, "await") /\ stopped' = TRUE
  /\ NoCapture /\ UNCHANGED flagVars

(* The predicate of the wait on scap_finished_cv.                          *)
StopAwait(r) ==
  /\ IF scap_finished_flag THEN Answer(r, "await") /\ stopped' = TRUE
                           ELSE Goto(r, "await", "block") /\ UNCHANGED stopped
  /\ NoCapture /\ UNCHANGED flagVars

StopBlock(r) ==
  /\ Goto(r, "block", "asleep")
  /\ NoCapture /\ UNCHANGED <<flagVars, stopped>>

SpuriousWakeup(r) ==
  /\ Goto(r, "asleep", "await")
  /\ NoCapture /\ UNCHANGED <<flagVars, stopped>>

Callback(r) ==
  \/ PrintMessage(r) \/ Unknown(r) \/ ListScap(r) \/ GetFileScap(r)
  \/ RunCheck(r) \/ RunCheckFinished(r) \/ RunSet(r) \/ RunSetFinished(r)
  \/ RunSpawn(r) \/ RunSpawnFails(r)
  \/ StopCheck(r) \/ StopClear(r) \/ StopAwait(r) \/ StopBlock(r)

-----------------------------------------------------------------------------
(* __scap_thread__.                                                        *)

Step(t, from, target) == scap[t] = from /\ scap' = [scap EXCEPT ![t] = target]

(* What a step of a capture thread leaves alone.                           *)
NoRequest == UNCHANGED <<client, req, day, stopped>>

(* Mutant: the names are not tested.                                       *)
FirstFree_Untested(base, from) == from

(* A name is tested by trying to open the file.                            *)
FirstFree(base, from) ==
  CHOOSE n \in from..from + Cardinality(files) :
    <<base, n>> \notin files /\ \A k \in from..n-1 : <<base, k>> \in files

(* Mutant: a new day starts at 0.                                          *)
FirstNumber_Zero == IF name_base \in {0, day} THEN counter ELSE 0

(* A new day starts the numbers over.                                      *)
FirstNumber == IF name_base \in {0, day} THEN counter ELSE 1

(* get_new_name                                                            *)
ScapName(t) ==
  LET n == FirstFree(day, FirstNumber)
  IN  /\ Step(t, "name", "dump")
      /\ name' = [name EXCEPT ![t] = <<day, n>>]
      /\ name_base' = day /\ counter' = n + 1
      /\ NoRequest /\ UNCHANGED <<flagVars, displays, diskVars>>

(* __get_display_dump__ opens a connection, which nothing closes, and may  *)
(* fail with it open; past the limit it fails at once.                     *)
ScapDump(t) ==
  /\ IF displays < MaxDisplays
     THEN displays' = displays + 1 /\ (Step(t, "dump", "open") \/ Step(t, "dump", "failed"))
     ELSE Step(t, "dump", "failed") /\ UNCHANGED displays
  /\ NoRequest /\ UNCHANGED <<flagVars, name, nameVars, diskVars>>

(* save_img.                                                               *)
ScapOpen(t) ==
  /\ \/ Step(t, "open", "failed") /\ UNCHANGED diskVars
     \/ /\ Step(t, "open", "write")
        /\ files' = files \cup {name[t]}
        /\ overwritten' = overwritten \cup (files \cap {name[t]})
  /\ NoRequest /\ UNCHANGED <<flagVars, name, nameVars, displays>>

(* write and close. A failure of theirs is not noticed: the file is there   *)
(* and the capture goes on, whatever the content, which is left out.        *)
ScapWrite(t) ==
  /\ Step(t, "write", "check")
  /\ NoRequest /\ UNCHANGED <<flagVars, name, nameVars, displays, diskVars>>

(* Mutant: a failed screenshot is tried again, for as long as it fails.    *)
ScapFails_Retries(t) ==
  /\ Step(t, "failed", "dump")
  /\ NoRequest /\ UNCHANGED <<flagVars, name, nameVars, displays, diskVars>>

ScapFails(t) ==
  /\ Step(t, "failed", "check") /\ run_scap_flag' = FALSE
  /\ NoRequest /\ UNCHANGED <<scap_finished_flag, name, nameVars, displays, diskVars>>

(* ... and the pause until the next one.                                   *)
ScapCheck(t) ==
  /\ Step(t, "check", IF run_scap_flag THEN "name" ELSE "finish")
  /\ NoRequest /\ UNCHANGED <<flagVars, name, nameVars, displays, diskVars>>

ScapFinish(t) ==
  /\ Step(t, "finish", "notify") /\ scap_finished_flag' = TRUE
  /\ NoRequest /\ UNCHANGED <<run_scap_flag, name, nameVars, displays, diskVars>>

(* Lost on a STOP_SCAP that has found the flag FALSE and is not asleep yet. *)
ScapNotify(t) ==
  /\ Step(t, "notify", "none") /\ name' = [name EXCEPT ![t] = NoName]
  /\ req' = [r \in Requests |-> IF req[r] = "asleep" THEN "await" ELSE req[r]]
  /\ UNCHANGED <<client, flagVars, nameVars, displays, diskVars, day, stopped>>

Capture(t) == \/ ScapName(t) \/ ScapDump(t) \/ ScapOpen(t) \/ ScapWrite(t)
              \/ ScapFails(t) \/ ScapCheck(t) \/ ScapFinish(t) \/ ScapNotify(t)

(* Midnight.                                                               *)
DayPasses == /\ day < Days /\ day' = day + 1
             /\ UNCHANGED <<client, flagVars, req, scapVars, nameVars, displays, diskVars, stopped>>

-----------------------------------------------------------------------------
(* Every variable has its type.                                            *)
ClientTypeOK ==
  /\ {client, run_scap_flag, scap_finished_flag, stopped} \subseteq BOOLEAN
  /\ req \in [Requests -> Methods \cup {"new", "check_finished", "set_run", "set_finished", "spawn",
                                     "clear", "await", "block", "asleep", "answered", "lost"}]
  /\ scap \in [Threads -> {"none", "name", "dump", "open", "write", "failed", "check",
                           "finish", "notify"}]
  /\ name \in [Threads -> (0..Days) \X Nat]
  /\ counter \in Nat \ {0} /\ name_base \in 0..Days /\ displays \in 0..MaxDisplays
  /\ files \subseteq (1..Days) \X (Nat \ {0})
  /\ overwritten \subseteq files /\ day \in 1..Days

(* At most one thread captures: RUN_SCAP checks two flags and sets them in *)
(* four steps, for a server that waits for each answer.                    *)
OneCapture == \A t, u \in Threads : Active(t) /\ Active(u) => t = u

(* Once STOP_SCAP is answered ok nothing is captured until a RUN_SCAP.     *)
StopEndsCapture == stopped => \A t \in Threads : ~Active(t)

(* No screenshot is written over another one, of an earlier process, a new *)
(* day or a capture that was cut off included.                             *)
NothingOverwritten == overwritten = {}

(* A capture that has been told to stop ends.                              *)
CaptureEnds ==
  LET Capturing == \E t \in Threads : Active(t) IN Capturing /\ ~run_scap_flag ~> ~Capturing
=============================================================================
