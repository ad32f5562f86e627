# SRFC networking library and capture client: a TLA+ verification

This directory holds a TLA+ model of the repository's C++ program: a small
remote-function-call library (`src/network`, namespace `net`) and the two
applications built on it (`src/examples`). TLC checks the models on small
instances; TLAPS proves the theorems of the modules `*Proofs` for every value
of the constants. All of it describes the **Unix build**.

## 1. Inventory

### The components of the system

| component | state | operations | modelled in |
|---|---|---|---|
| `srfc_connection` | `connected`, `idleable`, `terminate_listener`, `socket_fd`, `callback_map`, `response_queue`; one listener thread, three condition variables with their mutexes | `connect`, `invoke_deferred`, `add_method`, `remove_method`, `send_request`, `shutdown`, `reset`, destructor, moves; the threads `__listener__`, `__send_request__`, `handle_request`, `handle_response` | `SrfcConnection` |
| Unix platform layer | the process's descriptors, kernel socket state | `__connect__`, `__receive__`, `__send__`, `__shutdown__`, `__close__` | `SrfcSocket` |
| message framing | the listener's `receivedData` | `get_size_from_preamble`, `is_valid_message`, the extraction in `__listener__` | `SrfcFraming`, `MessageChannel` |
| `srfc_listener` | `binded`, `listening`, `idleable`, `terminate_listener`, `socket_fd`, `callback_map`, `connection_callback`; one accepting thread | `listen` (by address or with a bound socket), `invoke_deferred`, `on_connection`, `add_method`, `remove_method`, `shutdown`, `reset`, destructor, moves; `__listener_thread__`, `connection_handler` | `SrfcListener`, `Acceptor` |
| message codec | `srfc_request` and `srfc_response` objects, `req_id_counter` | `serialize`, `deserialize`, constructors, setters, copies, moves, `reset`; `is_valid_message`, `extract_type`, `separate_param_val` | `SrfcMessage` |
| capture client | `run_scap_flag`, `scap_finished_flag`, `scap_finished_cv`; `Screencap::counter`, `name_base`; the files of the capture directory | `run_client`; callbacks `PRINT`, `RUN_SCAP`, `STOP_SCAP`, `LIST_SCAP`, `GETFILE_SCAP`; `__scap_thread__`; `get_new_name`, `make_screenshot`, `save_img` | `CaptureClient` |
| capture server console | one console per connection, all over one standard input | `run_server`, `on_connection_callback`, `make_requst_from_console`, `run_interactive_console` | `CaptureConsole` |
| netshot, the application | the two processes and the connection between them | start, end and restart of the client; a request on its way to the callback and its answer on the way back | `Netshot` |
| command line | the globals of `main.cpp` | `parse_args`, `validate_globals`, `main` | `CommandLine` |
| messenger example | the chat loops of a server and its clients | `main`, `on_connection_callback`, `print_rpc` | `Messenger` |
| screen dump, file utilities | the connections to the X server | Xlib; `list_files`, `save_to_file`, `create_folder` | as steps of `CaptureClient` and `CaptureConsole` |
| Windows platform layer | as the Unix one | the same calls through Winsock | not modelled |

### How they interact

* An application thread (the *owner*) connects an `srfc_connection`, or gets a
  deferred one from an `srfc_listener`'s callback, and starts its listener
  thread with `invoke_deferred`.
* `send_request` starts a `std::async` thread that serialises and sends the
  request and then sleeps on `response_cv` until the response is queued or the
  connection is down.
* `__listener__` reads bytes, cuts messages out of them and starts a *detached*
  thread per message: `handle_response` queues the response and notifies
  `response_cv`; `handle_request` looks up the method, runs its callback and
  sends the answer.
* `shutdown()` is run by two threads: the owner, and the listener itself when
  the stream ends. It wakes the listener by shutting the socket down, waits on
  `idleable_cv` until the listener idles, releases the sleeping calls and
  clears the queue.
* The capture client's callbacks run in the detached threads of its connection
  and talk to a detached capture thread through two atomic flags and a
  condition variable. Screenshots go to a directory that the next run of the
  client finds again.
* The capture server's listener hands every connection to a console in a
  thread of its own, which sends one request at a time and waits for its
  answer. The client ends when its connection goes down; the server stays.
* Both ends of the messenger send each line they read as a request and, because
  the future they discard waits in its destructor, read the next line only when
  the answer has come.

### Which behaviours are hard

* **Condition variables without their mutex.** Every notify in the library
  (`listener_cv`, `idleable_cv`, `response_cv`, `scap_finished_cv`) is made
  without the mutex of the waiter, so a notify between a predicate and the
  sleep is lost.
* **Check-then-act on atomics**: `connected` in `shutdown()`, `socket_fd` loaded
  anew for each call, the two capture flags.
* **Detached threads that hold `this`**: handlers outlive the object.
* **Exceptions out of threads**: `shutdown()` in the listener, `send_response` in
  a handler, `accept()` in the listener thread; each ends the process.
* **Reuse**: descriptor numbers, request ids, a listener thread that survives
  from one session to the next.
* **The byte stream**: TCP cuts it anywhere, and two threads may send at once.
* **Text as data**: sizes are counted and then written, separators may occur in
  names, values may be empty.
* **Two ends that wait for each other**, and processes that end while the
  other one, a handler or a half-written file depends on them.

`PROJECT.json` lists these at their lines under `hazards`, with the properties
that would catch each one going wrong.

### What makes each component correct

* Connection: each answer is delivered once, to a call with its id, and not lost;
  no error is reported without a cause; the descriptor it uses is its own;
  `shutdown()` waits for the listener, reads no socket behind it, and ends but
  for a notify it misses and a listener left with the console; the
  process is not ended by the library alone.
* Framing: messages sent one after another are handed over whole, in order, once.
* Listener: a client that connects is handed over once with the configuration it
  was promised, or refused by a shutdown; no socket is forgotten; a deferred
  listener waits.
* Codec: what is sent and accepted can be read, what is sent is what is read, and no
  buffer is overrun whatever was done to the object before.
* Netshot: one capture at a time; an answered STOP means that nothing is captured;
  no screenshot is overwritten, in this run, on this day or another; a capture told
  to stop ends; no process ends unless one was ended.
* Messenger: lines appear in order, once; two ends do not wait for each other for
  good; a chat outlives no connection asleep; a process is ended by its own threads
  only after the loss of one it was connected to.
* Command line: what starts is what the arguments say as a whole.

## 2. Modules

| module | what it is |
|---|---|
| `SrfcSocket` | sockets by session, descriptors that are reused, descriptor 0 as the console, the outcomes of send and read, the peer's close and reset |
| `SrfcConnection` | extends `SrfcSocket`: one connection object and all its threads, step by step |
| `MCSrfcConnection` | the instance: methods, symmetry of calls and ids |
| `SrfcConnectionProofs` | theorems: types, shutdown and the listener's reads, replies |
| `SrfcConnectionCallProofs` | extends it: what ends the process, the console, errors with a cause, answers neither doubled nor lost |
| `SrfcFraming` / `MCSrfcFraming` | sends of several pieces, reads of any size, the listener's buffer |
| `MessageChannel` | abstract specification that the framing implements |
| `SrfcFramingProofs` | the proof that it does |
| `SrfcListener` | one listener object, its thread, the detached connection handlers, the clients |
| `Acceptor` | abstract specification that the listener implements |
| `SrfcListenerProofs` | theorems of the listener, with the proof that it does |
| `SrfcMessage` / `MCSrfcMessage` | request objects under all their operations; writing, validating and reading of messages, as sequences of characters |
| `SrfcMessageProofs` | theorems of the codec: what is counted is what is written is what is read |
| `Messenger` / `MCMessenger` | the two chat programs, at the grain of one message |
| `MessengerProofs` | theorems of the chats |
| `CaptureClient` | the client's process, its callbacks, its capture threads and the directory |
| `CaptureConsole` | the server's process and its consoles |
| `Netshot` / `MCNetshot` | extends both: the application, with clients that are started again |
| `NetshotProofs` | theorems of the application |
| `CommandLine` | the arguments, one at a time and as a whole |
| `CommandLineProofs` | that the two agree |

The modules stand at three grains. `SrfcConnection` and `SrfcListener` step at
each access to shared state; `SrfcFraming` and `SrfcMessage` look at the units
and characters of messages; `Messenger` and `Netshot` take the library at one
message per step and keep what of it their properties depend on: a request may
be lost with the connection, an answer may not come, calls that sleep may miss a
notify, exceptions out of threads end the process.

### Correspondence with the code

Variables have the names of the fields. Each thread has a program counter
(`pcO`, `pcL`, `sd`, `call`, `req`; `pcO`, `pcT`, `client`; `chat`; `console`,
`req`, `scap`) and an
action is one access to state that another thread may touch, together with what
the thread does privately around it. A blocking call is two steps or a guard:
a condition-variable wait is *predicate* (`SdAwait`, `CallTestReceived`,
`ListenerWait`, ...), *block* and *asleep*, so that a notify may fall between the
predicate and the sleep; a `read()` is `ListenerReceive` (which loads
`socket_fd`) followed by one of `ListenerData`, `ListenerError`, `ListenerEnd`,
`ListenerConsole`. `map` in `PROJECT.json` gives the lines of every definition.

Decisions a reader of the code may wonder about:

* **`shutdown()` is one set of actions with the thread as parameter**
  (`Shutdown(t)`); `sd[t]` is where thread `t` is in it. `SdThrows` is what an
  exception does: it reaches the caller for the owner's `shutdown()` or
  `reset()`, and ends the process from the listener and from the destructor.
* **Store and notify** in `shutdown()` (`connected`, then `listener_cv`) and at
  the top of the loops are one step: a waiter that evaluates its predicate
  between them sees the new value, so no behaviour is lost. `ListenerSnap` also
  joins two reads for which the order makes no difference to what follows.
* **`idleable_cv_mutex`, `listener_cv_mutex` and `scap_finished_mutex` do not
  appear**: they are held only by the waiter, so they exclude nobody.
  `response_cv_mutex` is held by every call while it tests and reads the queue,
  and is `MutexFree`; `queue_mutex` makes each access to the queue
  (`AddResponse`, `CallTestReceived`, `CallRead`, `SdClear`) one step.
* **`response_queue` is a set**; `read_response` takes any match, which covers
  the first match of the list. Status and payload of a response are not
  represented; a response is the call it answers. `NoReply` is the
  locally made `connection_error`.
* **Descriptor 0** is the console: `Fds` has only numbers above 0, so a process whose
  standard input was closed before, which may be given 0 for a socket, is not
  represented. What the listener reads from it is a line (`Line`) that holds fewer
  than the 32 bytes of a preamble, or enough for it: in the first case it stays in the
  buffer, and a preamble that begins with it is garbage, with which the buffer is
  cleared (`Deliver`, `ListenerConsole`).
* **`__receive__` has no error check but the failing allocation** of a vector of
  `-1` bytes; the listener's `catch` clears the buffer and starts over. The
  kernel reports a reset once, then the end of the stream.
* **`__send__`** may deliver, be accepted and lost, throw, or raise SIGPIPE
  (neither masked nor avoided); the outcomes overlap as they do in the kernel,
  so `CallSend` and `RequestSend` choose among those possible. What
  `send_response`'s thread throws stays in a future that is dropped.
* **Data races.** `callback_map` of a connection is read by handlers without a
  lock: at the granularity of one lookup this is the interleaving of
  `RequestLookup` and `RequestInvoke`. In the listener, where a handler iterates
  over the map and then calls the callback, a change of either meanwhile is undefined
  behaviour, or none (`Race`): the outcome is `reconfigured` when the owner changes
  them while it listens, and `data_race` otherwise.
* **`accept()`** fails on a socket that is not open (`accept_failed`) and may fail on
  one that is, whatever the reason: a client that aborted, no descriptor, a signal
  (`ThreadAcceptErrors`, `accept_error`). The code tells none apart: each ends the process.
  A client may leave while it waits to be accepted, or after that.
* **Freed memory.** `HandlerAfterDestroy` is the outcome `use_after_free` of a
  detached handler that is at work once the destructor has returned.
* **`std::async`** is called without a policy; the model takes the
  asynchronous one. With the deferred one nothing would run until `get()`.
* **Listening sockets** are numbered and not reused: the descriptor of a
  listener is not closed by anybody else. The accepted client's socket is a
  descriptor while `client[c]` is between `accepted` and `handed` (`MaxOpen`).
* **A bind that fails** (`BindFails`) leaves its descriptor open: it counts
  against `MaxOpen` like an accepted client. Without `-i` the address that is bound
  is not initialised, which is one more reason why a bind may fail or not.
* **Keywords of a message** (`TYPE`, `METHOD`, ...) are one character, since their
  own lengths appear on both sides of every size; ids, sizes and status are
  written digit by digit. The space of the separator is `"blank"`. The preamble is `PreambleWidth`
  characters wide, 3 for TLC in place of 32. `serialize` copies
  `payload_size` characters of a payload that may be shorter: the rest is
  `"uninitialised"`.
* **What `std::to_string` writes** (`Number`: all digits of the number but the zeros in
  front) and what `digits()` counts (`NumberOfDigits`) are defined apart: that they
  agree is what the properties of the codec depend on, and is proved (`NumberIsDecimal`).
* **A `deserialize()` that throws** halfway (`ReceiveThrows`) leaves an object with the
  id, method, size and some of the parameters of the message, and its old payload. Such
  an object is `"torn"` until a payload is set.
* **Messages are those that `serialize()` wrote.** `is_valid_message` does not compare the
  payload's size with what follows, so a message from elsewhere may be accepted
  and make `deserialize` read before its buffer; no property here speaks of that.
* **Capture names** are pairs of a day and a number. `MaxDisplays` is the number of
  connections the X server grants to a process: `__get_display_dump__` opens
  one per screenshot and closes none, so a capture, which has no other end,
  fails then and stays finite.
* **The end of a process** takes its threads with it at whatever step they are: a
  file that is being written stays behind, as does one whose `write` or `close`
  failed, which nothing looks at (`ScapWrite`). What a file holds is not represented.
* **A capture thread that cannot be started** (`RunSpawnFails`) leaves the flags as
  RUN_SCAP set them; the exception is answered by `handle_request`.
* **A console's dialogue** is a choice of whether a request is built
  (`Build`). The consoles of lost connections go on and share the input with the new
  one; which of them gets a line is not represented, so each may go on at any time.
* **In the messenger** a request is refused by `is_valid_message` when its line is
  empty, and the empty line is one that users type. `left` holds the processes that
  did not end by what their threads met on a connection: they were ended from outside, could not
  connect (`ConnectFails`) or bind (`ListenFails`), or `accept()` failed (`AcceptFails`).

## 3. Runs

Bounds are constants of the modules, and in `codec` a constraint (`FewParameters`); none is
hidden in a definition.

| run | what it shows | bounds |
|---|---|---|
| `connection_app` | `AnswerKept`, `ReplyMatchesCall`, `NoFalseError`, `ConsoleUntouched`, `FatalOnlyAfterPeerLeft` for a connection used as the applications use it: one session the owner does not shut down | 2 calls that may share an id, 1 request of the peer, 1 method that may be removed, a peer that may leave at any point |
| `connection_live` | `PeerLossNoticed`, `AnswerWakesCall`, `ShutdownReleasesCalls`, `ShutdownEnds` under fairness, with an owner that may shut down | 1 call, no requests of the peer, 1 session |
| `connection_reconnect` | `NoFalseError`, `ShutdownAwaitsListener`, `ReadCanEnd` when the owner shuts down, resets, reconnects or destroys at any point | 1 call, 2 sessions over 1 descriptor that is reused |
| `framing` | that the framing implements `MessageChannel` up to the first overlap of two sends | 3 messages of 3, 4 and 5 units, a kernel buffer and reads of 4; 3 garbage sizes |
| `listener` | `HandedReady`, `OpenSocketIsBound`, `FatalOnlyAfterShutdown`, `DeferredWaits`; that the listener implements `Acceptor`; `ClientServed` under fairness; the owner does not reconfigure while it listens | 2 clients, 1 method, 2 sockets bound or failed, 1 descriptor, so that EMFILE happens |
| `codec` | `RoundTrip`, `AcceptedParses`, `BuffersFit`, `ResponseRoundTrip` | 2 objects, of which one has parameters at a time (`FewParameters`), 2 of 2 (a separator in a name, an empty value), a payload of 10 characters, texts of at most 10 (`MaxText`), ids of 2 digits, a preamble of 3 |
| `messenger` | `PrintedInOrder`, `EndsOnlyAfterLoss`; `NeverBothStarved`, `LossReleasesChat` under fairness | 1 client, 2 lines at either end, each of them empty or not |
| `netshot` | `OneCapture`, `StopEndsCapture`, `NothingOverwritten`, `EndsOnlyAfterKill`; `CaptureEnds` under fairness | 2 runs of the client, 3 requests, 2 capture threads, 2 days, 2 displays, a screenshot of either day in the directory |
| `command_line` | `StartsAsSaid` | all lines of up to 5 arguments out of 7 |

Why the bounds are enough to matter: two calls are the least at which an
id can be shared and an answer stolen; two sessions over one descriptor the
least for a stale descriptor; the framing's messages are shorter than, equal to
and longer than a read and the kernel's buffer, every cut of the stream is tried,
and a message that does not fit is where two sends overlap; a second
`listen()` and one descriptor reach every error path of the listener; payloads of
0 and 10 characters and ids of 10 are the boundaries of the number of digits; two
lines each are the least at which one can overtake another or stay behind one in a
buffer;
RUN, STOP, RUN is the least at which two captures could meet; two
displays are two screenshots and then the failure; five arguments are an address or `-l`
and two options, the least with a repetition.

In each run some behaviours are finite by nature (every call is made once, a
client comes once, an object is destroyed, nobody types), so
`CHECK_DEADLOCK FALSE` is set: a connection whose peer is silent, or that
has been destroyed, really stops. The objects of `codec` never stop, and there
deadlock is checked.

### Disagreements between code and comments

These three runs each check one property that a comment of the code states, and
TLC finds it violated; the `findings` quote the comments.

| run | property | what happens |
|---|---|---|
| `shutdown_aborts` | `ShutdownKeepsRunning` | the owner's `shutdown()` shuts the socket; the listener reads the end of the stream and calls `shutdown()` too, which throws because `connected` is already false: `std::terminate` instead of an idle thread |
| `lost_answer` | `QueuedAnswerReturned` | the notify for a queued response falls between predicate and sleep: the call sleeps with its answer in the queue |
| `framing_coalesced` | `ReceivedIsDispatched` | a second message that came in the same read waits for bytes that may never come |

Others of the same kind have no run of their own:

* The destructor's notify may fall between the predicate and the sleep of the
  listener, and `join()` then waits for ever (`Terminate`, `ListenerBlock`, `Join`).
* `shutdown()` of an `srfc_listener` makes `accept()` fail, which nothing in its
  thread catches (`ThreadAcceptFails`), and so does a client that aborts
  (`ThreadAcceptErrors`).
* The comment at `src/network/srfc_connection.cpp:354` says that `shutdown()` "now can
  continue execution"; the notify that follows may fall between the predicate and the sleep of
  the owner's `shutdown()`, which then sleeps for good while the listener idles
  (`SdAwait`, `SdBlock`, `ListenerTop`; the first part of `ShutdownHangs`).
* A listener that has passed its wait when the owner shuts down loads `socket_fd` as 0 and
  reads the console: `shutdown()` then waits for somebody to type (`ListenerConsole`; the
  second part of `ShutdownHangs`).
* `src/README.md:28` calls `-i` obligatory with `-l`; `validate_globals` does not
  ask for it, as `Says` and `NoInterface` in `CommandLine` show: `-l -p 5555` starts a server,
  whose address is then uninitialised.
* GETFILE_SCAP "returns the requested screenshot" (`src/README.md:52`): a screenshot has its name
  from `ScapOpen` on, so one that is being written, was cut off with its process, or met a
  full disk, which `save_img` does not notice, is served like any other.
* `src/README.md:4` wants a screenshot every 60 seconds; since no display is ever
  closed the capture fails at the X server's limit of clients (`ScapDump`).
* A prompt that says `(Y, N)` takes every answer but the empty one for yes
  (`src/examples/capture/server.cpp:200` and `:289`).

### Properties with a stated scope

Some properties are false without a restriction, and the code is why:

* `AnswerKept` and `ConsoleUntouched` are checked for one session that
  its owner does not shut down. With overlapping sessions the listener
  that is still in `shutdown()` closes the new socket, and the rest of an old
  message may be glued to a new stream that got the same descriptor number.
* `NoFalseError` is false with two sessions *and* two calls that share an id: the
  listener still in `shutdown()` of the old connection clears the queue between
  the moment a call on the new connection is woken for its answer and the moment
  it reads it, and the call returns `connection_error` on a connection that is
  up. It holds with one session, and with distinct ids over any number; both are
  theorems.
* `HandedReady`, `DeferredWaits` and `ClientServed` speak of the first `listen()`.
  After a shutdown, a thread that has passed its wait accepts on the newly bound
  socket before `invoke_deferred()`, and the notify of the second `listen()` may
  be lost.
* `FatalOnlyAfterShutdown` says what happens before a socket was taken down: the thread does not
  accept on a socket that is not open, nothing races with an owner that leaves the configuration
  alone while it listens, nothing outlives the object. That `accept()` may fail on an open
  socket, and that a reconfiguration while listening races with the handlers, end the process
  under other names.
* `ShutdownAwaitsListener` is about reads of a socket; the listener may be
  reading the console.
* `ShutdownEnds` and `ShutdownReleasesCalls` except the two ways in which the owner's
  `shutdown()` hangs (`ShutdownHangs`): asleep although the listener idles, because it missed the notify,
  or waiting for a listener that reads the console.
* `AnswerWakesCall` and `ShutdownReleasesCalls` begin with a call that is asleep
  when the notify is still to come, `LossReleasesChat` with a chat that is asleep
  while still connected: `lost_answer` is what happens otherwise.
* `ImplementsChannel` ends with the first overlap of two sends: nothing in the code
  keeps the applications' threads from sending at the same time.
* `RoundTrip` is about names without `:` and space, values that are not empty, and
  an object that has been reset: `separate_param_val` splits at either character and
  refuses an empty value, and `deserialize` appends. `AcceptedParses` is about
  every message that `serialize()` wrote, of objects in any state.
* `BuffersFit` compares the size and the payload of objects that are not torn, and
  `RoundTrip` sends no others; that the buffer is filled to the byte is said of all.
* `EndsOnlyAfterLoss` says which process may be ended by another: a client by its
  server, the server by a client it had accepted. A client whose server was lost, by
  another client's end, ends with its next line, as the code has it.
* `StartsAsSaid` leaves out a server without an interface, which the code starts and
  `src/README.md:28` refuses.
* `NeverBothStarved` leaves out a chat whose last line is empty: it is
  refused by the other end, never answered, and that chat waits until the
  connection is lost.
* `OneCapture` and `StopEndsCapture` hold because a console waits for its answer
  and a process has one console that reaches it. STOP's own wakeup may be
  lost, like all the others, so nothing is claimed about its answer coming.

### Fairness

`FairSpec` adds weak fairness of each thread that runs inside the library (or
the applications): the operating system runs all threads. A thread that has entered
an operation gets through it, so the owner's steps *within* an operation
are fair, while its choice of the next operation, the peer, the clients, new
calls, spurious wakeups, what users type (the read of descriptor 0 by a listener too), the start and end of processes and the
passing of the day are not. `accept()` is sure to fail (`OutOfDescriptors`) only when a client waits and no
descriptor is left. In `Messenger` one end's threads are fair together, and
so are in `Netshot` the handlers together and the capture threads together: less than
the system grants. No strong fairness is used. Where the process has ended (`fate`), the actions are disabled, and the
liveness properties name `Stopped` as an outcome.

## 4. Abstract specifications

* `MessageChannel`: messages sent, messages delivered, the second a prefix of
  the first. `SrfcFraming` implements it (`ImplementsChannel`) with `sent` as
  the messages completely sent (`Complete`: all of `order`, but not its last while
  that is still being sent) and `delivered` as the
  messages whose frames were dispatched, until two sends have overlapped.
* `Acceptor`: clients wait while the listener is open, are accepted and served
  once unless they give up while they wait, and are refused only by its closing. `SrfcListener` implements it
  (`ImplementsAcceptor`) with `open` as *some bound socket is open* and
  `state` as the stage of each client; the thread, the deferred start, the
  condition variables and the two-step shutdown are stutters or map to one step.

Both are checked by a run and proved (`ChannelImplemented`, `AcceptorImplemented`).

## 5. Theorems

All are about `Spec`, the specification without fairness, for every value of the
constants that the `ASSUME` of a module allows: any number of calls, requests,
clients, sockets, descriptors, sessions, messages and lines, and, where nothing
else is said, an owner that does anything in any order. What the assumptions ask
for is that numbers are numbers, that a distinguished value (`NoReply`, `Server`)
is none of the others, that the directory holds finitely many
files at first (else there need be no free name) and that runs of the client
are numbered from 1. `MessageAssumption` asks that what the application gives is
text without NULs, payloads excepted, and that the largest message, which has
`MaxParams` parameters and a method, a payload and lines of at most `MaxText`
characters, has a size, ids and a status of fewer digits than the preamble is wide: the code's 32
digits are more than any `unsigned long` has.

| module | theorems |
|---|---|
| `SrfcConnectionProofs` | `TypeCorrect`, `OwnerAwaitsListener`, `NoEndlessRead`, `RepliesMatch` |
| `SrfcConnectionCallProofs` | `FatalAfterPeer`, `ConsoleLeftAlone`, `ErrorsHaveCause`, `ErrorsHaveCauseAcrossSessions`, `AnswerNotDoubled`, `AnswersNotLost` |
| `SrfcListenerProofs` | `TypeCorrect`, `NoSocketForgotten`, `DeferredListenerWaits`, `HandedOverReady`, `FatalAfterShutdown`, `AcceptorImplemented` |
| `SrfcFramingProofs` | `TypeCorrect`, `ChannelImplemented` |
| `SrfcMessageProofs` | `TypeCorrect`, `BuffersNotOverrun`, `AcceptedIsRead`, `SentIsRead`, `ResponseIsRead` |
| `NetshotProofs` | `TypeCorrect`, `AtMostOneCapture`, `StopIsFinal`, `NoFileReplaced`, `NobodyEndsAlone` |
| `MessengerProofs` | `TypeCorrect`, `NobodyEndsFirst`, `OrderKept` |
| `CommandLineProofs` | `CommandLineRead` |

Every proof has the same shape: an inductive invariant, a lemma per group of
actions that keeps it, a frame lemma for the actions that do not touch its
variables, and a last step in temporal logic. What the invariants add to the
properties is the argument:

**Connection, shutdown and reads** (`ShutdownInv`). Only a listener at `shutdown`
is in `shutdown()`; the owner closes a descriptor only when it names nothing or a
socket already shut down; while the owner waits `socket_fd` is 0, so a listener
that arrives late reads no socket; and `idleable` is FALSE whenever the listener
may read.

**Replies** (`AnswersGenuine`). Every response on its way, in the kernel, the buffer,
a handler or the queue, is one the peer gave.

**What ends the process** (`FatalInv`, `UpInv`; the owner's operations contain no
`shutdown`, `reset` or `destroy`). Until a peer leaves, nobody is in `shutdown()`, no
socket is shut and `socket_fd` of a connected object names an open socket, so
that no send can throw or signal.

**The console** (`OneSessionInv`, `ConsoleInv`; one session). Before the first
`connect` the listener has read nothing and cannot get past its wait;
from then on what it reads and closes is the socket it found connected.

**Errors** (`ErrorInv`; one session, or distinct ids). While the object is down
every pending call has a cause; one call at a time is inside the mutex; and a call
that was woken for its answer still finds it there. The last part is what fails in
the scope given above.

**One copy** (`CopyInv`). A response of a call is in one of kernel, buffer,
handler and queue, at one place of it, and in none once it was returned. `OneCopy`
alone is not inductive, since it does not say that a sequence holds an answer once.

**No loss** (`KeptInv`; one session). For each action, where a pending answer goes:
`ReadSplits` says that what a read takes from the kernel is in the message
dispatched, in the buffer or still in the kernel. `ErrorInv` is needed for a
`shutdown()` that clears the queue: those whose answers it drops have a cause.

**Listener** (`ListenerInv`). `SocketInv`: socket numbers are handed out in order and
the one `socket_fd` names is open exactly while the object is bound or about to
close it. `OwnerInv`: what the owner's place says of the flags. `ClientInv`:
who waits, waits at an open socket. `PromiseInv`: nothing is promised before listening,
and nothing beyond what is configured. `DeferredInv`: on the first socket nobody
has passed the wait before listening starts. Until a socket was taken down the owner has
listened once, so a handler at work means that the object listens: this is why an owner that
changes its configuration then does it while listening (`FatalAfterShutdown`).

**Framing** (`FrameInv`). Until two sends overlap there are places `start`, one
for each message in `order`, such that the stream (what is buffered, then what the kernel
holds) is the units of the messages from the first that is not dispatched on, each
complete but possibly the last (`Layout`). A send adds a message or lengthens the
last (`LayoutNew`, `LayoutMore`), a read takes one off the front or nothing
(`LayoutCut`): so the preamble that is read is always that of a message.

**Codec** (`IInv`). Every object has the types, a payload of the size that is stored
with it unless it is torn, parameters that are text of a size that fits, and none if it is clean. TLC
checks the properties on the instance of `codec`; it is inductive because of what `Receive` and `ReceiveThrows` do: `SeparateProperties`
says that a line, wherever it is split, keeps its size, so an object that was filled from
a message, whole or in part, is within the same bounds. The rest is about messages.
`Offsets` says where each line ends. What is written is there (`MessageLayout`), and
the header sizes, which the code adds up on their own, are the last offset (`RequestSize`,
`ResponseSize`). What is read is found there: since no line holds a NUL, the k-th NUL
is the end of the k-th line, whatever the payload behind them holds (`EndOfLine`,
`LineRead`), and the loop over the parameters stops at the payload (`LinesBefore`). A number written in decimal has as many digits as are counted
(`NumberIsDecimal`) and is read back (`StoulDecimal`), and a plain parameter is split where it was joined
(`SeparateParamLine`).

The sums, concatenations and digits of the codec are recursive. The library's induction
theorems are of no use to the installed provers, which cannot instantiate their operator
parameter; `Induction` and `Recursion`, for sets and functions in its place, are proved
from the least element of a set of numbers (`NatMin`), which the library's theorem on
minimal elements gives.

**Netshot** (`LinkInv`, `RequestInv`, `CaptureInv`, `FileInv`, `EndInv`). A handler at work
means a console that waits for it, so there is one handler at a time: this is what
makes the test and the four assignments of RUN_SCAP atomic in effect.
`scap_finished_flag` is FALSE while a thread captures; a name stays free until its
thread opens the file; and until a process is ended there is one run, and each console
is connected to it.

**Messenger** (`ConnectionInv`, `OrderInv`). A connection goes down only when the other
process has ended, and an end that chats while that process runs is connected (`LinkInv`): so
what ends a process by its own threads is a connection to one that has ended (`WhoEnds`).
The line an end waits with is the only one its peer has not printed,
whether it is in the stream or in a handler; an answer on its way means that it was
printed. So no second line can overtake it, though every line has a thread of its own.

**Command line** (`ScanInv`, `OutcomeInv`). After each round the pairs seen are
well-formed and each option has the value it was given last; the loop ends with a
failure only where the line as a whole is refused.

### What stays with TLC

* **Liveness**: `ClientServed`, `PeerLossNoticed`, `AnswerWakesCall`,
  `ShutdownReleasesCalls`, `ShutdownEnds`, `NeverBothStarved`, `LossReleasesChat`,
  `CaptureEnds`. Fairness and ENABLED are out of reach of the installed prover. (`NeverBothStarved`
  is a temporal formula too.)
* The existence of a disagreement (`shutdown_aborts`, `lost_answer`,
  `framing_coalesced`) is a counterexample, which TLC shows.

## 6. Not modelled

* The Windows layer: Winsock answers differently (no SIGPIPE, descriptor 0 is
  not the console, a reset is reported again and again, `shutdown` of a
  listening socket fails).
* Move operations of connection and listener: legal only on objects without a
  running thread.
* The lifetime of the application's objects: `send_request` passes the request
  by reference into its thread.
* `srfc_response`'s own setters, copies and `reset()`, which are those of
  `srfc_request` over again, and `to_string()`, which is wording.
* Messages that no `serialize()` wrote (the framing's garbage sizes apart).
* The pixels of a screenshot and what is printed; the content of files,
  and with it whether a write succeeded.
* The sharing of the console's input, and its end: the payload loop of
  `make_requst_from_console` then never ends.
* `PRINT_callback` of the netshot server: the client sends no requests.

## 7. Plan

Done: connection and socket, framing, listener, codec, messenger, netshot, command
line; every safety invariant and action property that a passing run checks is
also a theorem, and so are both refinements.

What could follow:

1. The sessions after the first: which half of `AnswerKept` holds across a
   reconnection that the listener has noticed, and `HandedReady` for later `listen()`s.
2. The input that consoles share, and its end in the payload loop.
3. The move operations of connection and listener, on objects without a thread.
