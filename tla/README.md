# Verification of mcpelauncher

This directory holds TLA+ specifications of a part of mcpelauncher, the TLC
configurations that check them on small instances, and TLAPS proofs of the
properties that matter most. All paths are relative to the root of the
repository (`src/` is its checkout).

The launcher runs the Android build of Minecraft on a desktop. Most of its code
translates one interface into another and keeps little state. The part with the
most concurrency and the most failure handling of its own is `cll-telemetry`,
the library that collects the game's telemetry events and uploads them: several
game threads add events, two worker threads send them, events have to survive a
network that fails and a process that is killed, and two tasks are torn down
while one of them still calls the other. That library is modelled first. The second group
of modules is about what the game is given in place of Android: pthread objects,
the text field, input events and web sockets.

## 1. Inventory

### Components that are modelled

**TaskWithDelayThread** (`cll-telemetry/src/task_with_delay_thread.cpp`)
runs a function on a thread of its own some time after it was asked to.
- State: `running`, `hasPendingTask`, `runImmediately`, `stopping`, the
  `std::thread` handle, a mutex and a condition variable, and a thread-local
  pointer `currentIsStopping`.
- Operations: `requestRun`, `terminate` and the destructor, the loop of the
  worker, `sleep`.
- Hard: a request while the worker is leaving; `notify_all` after the mutex was
  released; joining the old worker with the mutex held.
- Correct when: no request and no wake-up is lost, there is never more than one
  worker, and `terminate()` returns with nothing left to do.

**FileEventBatch** (`file_event_batch.cpp`) keeps events in one file, a line each.
- State: the file, the descriptor with its offset, `fileSize`, `eventCount`,
  `streamAtEnd`, `finalized`, the limits.
- Operations: opening (counts and trims), `addEvent`, `getEventsForUpload`,
  `onEventsUploaded` (compacts in place), `setLimit`, `setFinalized`.
- Hard: short and failed writes, crashes between two system calls, removal by
  byte count while events are added.
- Correct when: the file consists of whole lines, the records agree with it, and
  it is a FIFO.

**MultiFileEventBatch** (`multi_file_event_batch.cpp`) is a queue over numbered
files. State: the oldest file, the ones in between, the newest, the limits.
Operations: `addEvent` (with rotation), `getEventsForUpload`, `onEventsUploaded`
(with deletion), `setFileLimits`, the constructor on an existing directory.
Hard: rotation while a list is out, events larger than a file, restarts. Correct
when an upload removes what it sent and no event is overlooked.

**BufferedEventBatch with MemoryEventBatch** puts memory in front of the files.
Operations: `addEvent` (flushes a full memory), `getEventsForUpload` (files,
memory or a merged list), `onEventsUploaded`, `flush`, `hasEvents`. Hard: the
flush moves events while others ask for them or have a list of them.

**EventManager with EventUploader** (`event_manager.cpp`, `event_uploader.cpp`)
owns three batches (realtime in memory, critical and normal on disk) and two
tasks. Operations: `add`, `start`, `uploadTasks`, `uploadRealtimeTasks`,
`sendEvents`, the destructor. Hard: two workers, several clients and a
destructor; failed uploads move events from memory to disk; the buffer of the
normal queue is flushed under a list that is being sent; the realtime worker
starts the main task while the destructor is taking it down. Correct when no
event is lost, doubled or left without a worker, and the destructor returns with
every thread joined.

**Configuration, ConfigurationManager, FileConfigurationCache** download the
limits with conditional requests and keep them in a file; two of the three limits
are passed on when they change, the third is read at the start. State: settings,
expiry and back-off of each configuration, the cache in memory and on disk. Hard: one of
several downloads failing, 304 answers, crashes while the cache is written.

**The pthread objects of libc-shim** (`libc-shim/src/pthreads.cpp`). A bionic
mutex or condition variable is a few words that the game may initialise
statically; the first use creates the host object and publishes its address.
State: the words, the host objects, and what each thread has loaded and created
but not published. Operations: lock, trylock, unlock, wait, timed wait, signal,
broadcast, init, destroy, `pthread_once`. Hard: first uses at the same moment, the
word that holds first a static value and then a pointer in a 32-bit build.
Correct when all threads work on one host object of the right kind.

**TextInputHandler** (`mcpelauncher-client/src/text_input_handler.cpp`). State:
the text as UTF-8 bytes, cursor and other end of the selection, each as a byte and
as a character position, the modifier keys. Operations: typed text, backspace and
delete (also by words), arrow keys, home and end, and the game's calls that set
text and caret. Hard: two counts that must agree over any sequence of edits.

**Window input** (`window_callbacks.cpp`, `fake_inputqueue.cpp`,
`fake_looper.cpp`). State: input mode and its delay, cursor lock, gamepads,
fingers, the two queues. Operations: the callbacks of the window, the looper's
`pollAll`, the game's reading. Hard: one mode at a time is let through, a motion
event of a gamepad is only a promise to look at it later, the window is polled
only when the queue is empty.

**HttpClientWebSocket** (`jni/lib_http_client_websocket.cpp`). State: `connected`,
the mutex of the curl handle, the buffer of a message. Operations: `connect` with
its thread, `sendMessage`, `sendBinaryMessage`, `disconnect`, the callbacks. Hard:
calls from other threads and from inside callbacks, a flag without
synchronisation, messages in fragments with control frames in between.

The last four are independent of each other and of the telemetry library.

In the telemetry library the components call each other from top to bottom: EventManager uses the tasks,
the batches and the configurations; BufferedEventBatch wraps a
MultiFileEventBatch, which owns FileEventBatches. Each has a lock of its own and
no lock is held between `getEventsForUpload` and `onEventsUploaded`, while the
list is with the server. That gap is where most of the hazards are.

### Components that are not modelled

`PROJECT.json` lists them with the reason. In short: pure I/O and bindings (HTTP
clients, game-window, eglut, web view, file picker, msa-daemon-client), pure
conversions (EventCompressor, small utility libraries), patching of the game
binary (core patches, fake system libraries, hooks), and vendored code (linker,
epoll-shim, headers). Most of the repository's lines are of the last kind: the
Android linker with bionic and its core libraries, and generated OpenGL bindings.
They are not the launcher's own code and no module is planned for them, so the
modules cover a small share of all lines. Components with state of their own that
are left for later are in section 2.

### Hazards

`PROJECT.json` lists the places that are hard to test, each with its line and the
properties that watch it. The properties below were chosen from that list.

## 2. Plan

Order of the work, the most important behaviour first. Steps 1 to 11 are done.

1. `CoalescingTask` (abstract) and `TaskWithDelayThread`, with proofs.
2. `EventBatch` (abstract) and `FileEventBatch`.
3. `MultiFileEventBatch`, with proofs.
4. `BufferedEventBatch`, composing memory and the abstract batch.
5. `EventManager`, composing the abstract tasks and files with the buffer of the
   normal queue and the thread handles of the tasks, with proofs.
6. `Configuration`.
7. `PthreadMonitor` (abstract) and `PthreadShim`.
8. `TextField` (abstract) and `TextInputHandler`.
9. `WindowInput`, composing window callbacks, input queue and looper.
10. `WebSocket`.
11. Proofs, for any number of threads, devices, configurations, messages and
    faults, of `EventManager`, `FileEventBatch`, `BufferedEventBatch`,
    `Configuration`, `PthreadShim` with its refinement of `PthreadMonitor`,
    `WindowInput` and `WebSocket`, and for texts of any length of
    `TextInputHandler` with its refinement of `TextField`; the refinements of
    `EventBatch` by `FileEventBatch`, `MultiFileEventBatch` and
    `BufferedEventBatch`.
12. `CllUploadAuthStep`, XboxLiveHelper and the sequence numbers of
    EventSerializer: tokens of two accounts, two mutexes, callbacks under a lock.
13. The exceptions of the upload path (`std::stoull` of a Retry-After date, JSON
    of a torn line), as outcomes of EventManager's requests.
14. DaemonLauncher and AutoShutdownService; the exit protocol of JniSupport with
    ThreadMover; the lifetime of HttpClientRequest; the order of mod loading; the
    download and extraction tasks of the user interface.

How the modules fit together:

    CoalescingTask  <-- implemented by --  TaskWithDelayThread
    EventBatch      <-- implemented by --  FileEventBatch
                    <-- implemented by --  MultiFileEventBatch (a file = its events)
                    <-- implemented by --  BufferedEventBatch (files = an EventBatch)
    EventManager    its files are an EventBatch each and its worker threads follow
                    CoalescingTask; the buffer and the std::thread handles, which
                    these two leave out, are its own
    Configuration   stands alone; EventManager only reads the limits
    PthreadMonitor  <-- implemented by --  PthreadShim
    TextField       <-- implemented by --  TextInputHandler
    WindowInput, WebSocket   stand alone

`M`, `MCM` and `M.cfg` are a module, its instance for TLC and a run; `MProofs`
holds its theorems. `TelemetryProofs` holds those of `FileEventBatch` and
`TaskWithDelayThread`, `InputProofs` those of `WindowInput` and
`TextInputHandler`; `TaskInit`, `TaskNext`, `TaskSpec` and `TextInit`, `TextNext`,
`TextSpec` have names of their own so that two modules can be extended together.
A definition `A_Change` before `A` is a mutant: a plausible mistake in `A` that the
named property has to find. Mutants are no part of any specification.

## 3. The modules and the code

### TaskWithDelayThread

The flags, the handle and the mutex are variables of the same name; `pc` says
where each thread is. A critical section that does not block is one step, guarded
by the mutex being free; only `requestRun`'s join of the old worker keeps the
mutex across steps. `notify_all` is a step of its own, because the code calls it
after unlocking: it wakes whoever waits at that moment. `RequestRun`, `JoinOld`,
`Spawn` and `NotifyImmediate` are `requestRun`; `Terminate`, `NotifyStopping` and
`TerminateJoin` are `terminate`; `Loop`, `WaitTimesOut`, `AfterWait` and
`FunctionReturns` are `doThreadLoop`; `SleepCall` and `SleepBody` are `sleep`.
Spurious wake-ups are covered by `WaitTimesOut`, since the code has no predicate.
Callers keep the contract of the header and request nothing once `stopping` is
set; the one caller that does not, EventManager's realtime worker, is modelled in
`EventManager`. The place "nap", the wait inside `sleep`, is never reached (section 5).

### EventBatch

`queue` and the number `handed` of events in the list that is out.
`onEventsUploaded` removes exactly that many from the front.

### FileEventBatch

The file is a sequence of bytes; byte k of event e is `<<e, k>>`, the last one is
the newline, and a hole reads as `Nul`. `write` and `ftruncate` are external
operators. Each method holds `streamMutex`, so it is one action; a method that a
failing write can leave early has a second action (`AddEventFails`,
`UploadedPart(n)` with n short of the rest), and the places where the process may
be killed are `CrashInAddEvent` and `CrashInUploaded`. Both go through `Open`,
the constructor of the next process, which counts newlines and trims what follows
the last one. `CrashInUploaded(n)` is a kill after n bytes of the copy. A write of no bytes
leaves no hole, and a failing `addEvent` cuts the file back only if some of the
event was written, as in the code. `faults` records crashes and failed writes;
`WriteFailed` is true once a write has failed, and some properties are only
claimed until then. The exception `onEventsUploaded` throws for a descriptor that is closed ends the
process; the next one is `Reopen`.

### MultiFileEventBatch

A file is the sequence of its events. `AddEventToNextFile` is the branch of
`addEvent` that finalizes the newest file; `CheckOldestBatch` is the function of
that name and part of `GetEventsForUpload`; `Restart` is the end of a process and
the constructor of the next. The history variable `source` remembers the file of
the list, `refused` the events that did not even fit an empty file.

### BufferedEventBatch

`mem`, `wrapped` and, during a flush, `items` with the event `adding` whose
`addEvent` caused it. `FlushOne` moves one event while the mutex is held, so that
the others see the state in between. A list is a record of its two parts, either
of which may be `Null`. `vector::erase` past the end is undefined; the model sets
`corrupt` and stops. The history variable `moved` says that memory was flushed
while the list that is out was taken, `mistaken` that such a list with a part from
memory was acknowledged.

### EventManager

A sequence for each batch: "realtime" is memory, "critical" and "normal" are the
files of the two disk queues and "buffer" is the memory in front of the normal
ones (`event_manager.cpp:25` wraps the normal files in a BufferedEventBatch).
`AddBuffered` is its `addEvent`, which flushes a full buffer first: `Flush` moves
each event to the files or, when they refuse it, to the history variable
`refused`, since the code only writes a line to the log. `PostNormal` takes a list
from the files, the buffer or both. `Accepted` removes as many events as the list
has from the batch and from the buffer, so after a flush it removes events that
were not sent and leaves sent ones in the files; `moved` and `mistaken` record a
flush under a list with a part from the buffer and its acknowledgement, as in
`BufferedEventBatch`. When the buffer has fewer events than that the erase is
undefined and the worker stops at "undefined".

For each task there are its pending request, its stopping flag, the place of its
worker and `held`: whether its `std::thread` is joinable. `RequestRun` creates a
thread, and holds it, unless one is running. `terminate()` is two steps, `Stop`
and then `Join`, which waits for the thread without the mutex of the task. While
the owner is between them a request of the realtime worker may find the main
worker gone and join and replace the same `std::thread`
(`task_with_delay_thread.cpp:50-52` against `:39-40`): `BothAtHandle`, and then the
realtime worker goes to "undefined" (`RtJoinsToo`), or its request is over before
the owner gets to the handle (`RtRequestsMain`). A request after that
`terminate()` has returned starts a thread that is held, which the second
`terminate()`, in the destructor of the task, joins. Nothing is claimed of the
program after "undefined"; in the model that worker stays there.

The test of the main loop is two steps, because
`hasEvents` of the two queues are separate calls. A request is `MainPosts` or
`RtLoop` and then one of `Accepted`, `Unauthorized` (401, retried once), `MainFails`
or `RtFails`. `RtTransfers` moves one event of a failed upload to disk per step;
`RtTransferFails` is a disk queue that refuses it. `TerminateMain`,
`TerminateRt`, `BodyDone` and `DestroyMembers` are the destructor and those of the
members, the flush of the buffer included. The contents of requests, delays and
back-off times are left out: time only decides when a step happens. The branch of
`sendEvents` for a null list is not modelled: the batches return one when they are
empty, and MultiFileEventBatch also in the state of section 5 in which its oldest
file is empty.

### Configuration

One record per `Configuration`, an entry per configuration in the cache (`data`)
and in the file. A point in time is kept as the time that is left, so `Tick`
lowers it. `Send` is the request, after which time passes, and the answers are
`Answer200`, `Answer304`, `AnswerFails`, `AnswerIsBad` (200 with a body that is
no JSON) and `NoAnswerReadsAs304`: `HttpResponse::status` has no initializer, and
when `send()` throws it is read all the same, so its value is chosen freely.
`CrashInStore` leaves what the JSON parser makes of a prefix of the file
(`Pieces`): `nlohmann::json` keeps what it has parsed, in alphabetical order of
the members. `Finish` runs the callbacks of a round that downloaded anything:
`Updated` is `onConfigurationUpdated`, which passes on the properties of
`Forwarded` (maxEventsPerPost and maxEventSizeInBytes) and leaves
queueDrainInterval, which only the constructor of EventManager (`Boot`) reads.
`Get` takes each property from the first configuration that sets it.
`MaxInterval` bounds the refresh intervals. The counter of attempts stops at `MaxShift`, because only its
minimum with that is used. The server is external. The branch for a cache entry
that has not expired is left out: `EntryIsCurrent` shows it is never taken.

### PthreadShim

One mutex, one condition variable and one `pthread_once_t`, and a constant of the
behaviour, `lp64`, for the build. `ToHost` loads the payload word; `Create`
allocates the host object with the kind it reads from the first word, which in a
32-bit build is the payload word again, read later; `Publish` is the
compare-and-exchange, after which the loser frees its object and uses the other
one. `Call` is the game, which keeps the rules of POSIX: it unlocks and waits with
the mutex held, and destroys an object nobody uses. `MutexLock`, `CondWait` and
the others are the calls of the host functions, which are external. The calls of
`pthread_once` are `OnceBegin`, `OnceElect`, `OnceDone` and `OnceSpin`. All atomic
accesses are sequentially consistent in the model. The code publishes with release
and reads the winner with acquire, but the load of `to_host` is relaxed
(`pthreads.h:93`, `:102`, `:111`): a thread that finds a published address there
depends on the address to reach the object and has no other guarantee that it
sees it initialised. The properties relate the words to each other and to the
identity and kind of the objects; that the contents of a host object are visible
to the thread that uses it is not modelled.

### TextInputHandler

The text is a sequence of bytes of six classes: a letter, a space (any character
of `spaces`), the first byte of a character of two, three or four bytes, and a
continuation byte. A position is a pair of a byte and a character index. One
action per key and per call; the loops of word movements are `Back` and `Forth`,
the nearest place that the loop's condition allows. `spoiled` records the two
operations after which the character index may be wrong; `lost` stands for a
position that is none of the text, after which nothing is said. `TextField` is the
same editor on whole characters. What is typed, pasted or passed by the game is
UTF-8 (`IsUTF8`, an assumption on the constants): the handler does not check it
and relies on the window system and the game for it.

### WindowInput

`Allowed` and `SwitchTo` are `hasInputMode`; the delay of a switch is `recent`,
which `TimePasses` ends. The callbacks of the window run inside `PollAll` ...
`PollEnds`, on the thread of the game, which then reads (`ReadKey`, `ReadMotion`).
Reading a gamepad's motion event runs the closure that looks at the pad's axes at
that time. Whether ImGui or a mod takes an event is a choice at every event.
An event is a record of the fields that are told apart: its source, the pad and
button or the finger, and whether it begins or ends something. With the option
emulateTouch a mouse button is the start and the end of a touch of `Pointer0` and
a movement of the mouse one of its moves; a finger may have the same identity.
`OnMouseButton` passes the button on (`PassButton`) or not (`MissButton`: the mode
is another one, or ImGui or a mod takes it), `mouseDown` says that the last button
event was a press. `taken` records the touches whose end the game is not told of,
because ImGui shared the finger with the game or because the release of the button
was missed; an end that is passed on later makes up for it. `gone` are gamepads that were
disconnected. Games built on GameActivity, which are called directly, the direct
mouse and keyboard callbacks, delayed paste and the menu bar are left out.

### WebSocket

`at` is the place of the thread that `connect` starts, `pc` the place of each
thread inside a call of the game; the receiver is one of the callers while it is
in a callback. A call tests or sets `connected` (`Send`, `Disconnect`), waits for
`curlMu` (`LockCurl`) and uses curl (`CurlSend`), whose result the code ignores.
`Handle` is what the loop does with a frame. The server sends messages as pieces,
each with the flags curl gives it: more of the frame is left, or more fragments
follow. The build without web socket support of curl, where `connect` only calls
`onOpen`, is left out, and so is the lifetime of the object.

## 4. The runs

| run | instance | what it shows |
|---|---|---|
| `task_thread` | 2 callers, 2 workers, the owner | `RequestHasWorker`, `NoLostWakeup`, `EveryWorkerIsHeld`, `TerminateReturns` (with `TerminateQuiesces`), and the thread implements `CoalescingTask` with its fairness |
| `file_batch` | 3 events of 2 and 3 bytes, count and size limits, up to 2 kills and failed writes | until the first fault the file is whole lines (`LinesAreWhole`) and implements `EventBatch`; a list is a prefix of it always; `RecordsMatchFile` and `NothingAcceptedIsLost` with faults |
| `multi_file` | events of 1 and 3 bytes, files of 4 or 2 bytes, 4 file numbers | `ListComesFromTarget`, `HasEventsIsComplete`, `OldestHasEvents`, and the files implement `EventBatch` |
| `buffered` | 4 events, one of them refused, memory for 2, lists of 3 | `HasEventsIsComplete`, `OnlySentIsRemoved`, and memory with files implements `EventBatch` |
| `event_manager` | 1 client, 4 events (3 realtime, 1 of them critical), memory for 2 realtime and 2 buffered events, lists of 2, failing disks | `EveryEventIsOnce`, `EveryEventIsSomewhere`, `EventsAreAttended`, `NoWorkerOutlives`, `DestructorReturns`, `EveryEventIsUploaded` |
| `configuration` | 2 configurations, 2 versions, a property that is passed on and one that is not, everything may fail | `LimitsFollowConfig`, `EntryIsCurrent`, `EtagMatchesData` |
| `pthread_shim` | 2 threads, 3 addresses, both builds | `OneObjectForAll` (with `MutualExclusion`), `KindIsKept`, `OnceIsComplete`, and the objects implement `PthreadMonitor` |
| `text_input` | texts of up to 4 bytes, characters of 1 to 4 bytes | `NoCharacterIsTorn`, `CaretsAgree`, and the bytes implement `TextField` |
| `window_input` | 1 gamepad with 1 button and 1 axis, 2 fingers, 2 queued events, 4 setups (plain; raw input with emulateTouch; touch forced; mouse forced with emulateTouch) | `CursorFollowsMode`, `QueueIsRead`, and `GameIsUpToDate`: `GamepadsAreReported`, `AxisIsSeen`, `ButtonsAreSeen`, `TouchesEnd` |
| `web_socket` | 1 thread of the game and the receiver, 2 messages of 1 or 2 pieces, 1 ping or pong, 2 calls | `OneUserOfCurl`, `MessagesAreWhole`, `MessagesArrive`, and `NobodyHangs`: `CallsReturn` and `DisconnectEnds` |

The type invariant is a conjunct of one invariant of each run (`RecordsMatchFile`,
`OnlySentIsRemoved`, `EntryIsCurrent`, `OneObjectForAll`, `NoCharacterIsTorn`,
`GameIsUpToDate`, `OneUserOfCurl`), or, in the other modules, a theorem. `event_manager_oversized` and
`event_manager_shutdown` (the instance of `event_manager`, without fairness) are
expected to violate their properties (section 5).

Why the bounds are enough. A race in `TaskWithDelayThread` needs the worker that
leaves, the one that follows and two requests; a third worker repeats the part of
the first, whose identity is free again after a join. Events of different sizes
make a compaction move lines by an amount that is no line length; a second fault
meets the file the first one left. Four file
numbers allow an oldest, an intermediate and a newest file and one more rotation.
Memory for two and lists of three give lists from files, memory and both. In
`event_manager` three
realtime events with memory for two give an event that is turned away to disk, a
transfer of several events, and a list that leaves events behind; the buffer of
two is flushed by a client, a transfer and the destructor, under lists from the
files, from the buffer and from both, and the run reaches `mistaken` and both ways to
"undefined" (393,682 distinct states). One client is enough for its gap between
adding and asking, because the realtime worker adds and asks as a second one does;
the safety properties are proved for any number of clients, events and limits. `MaxShift = 1`
reaches both the first and the saturated back-off (1,831,944 distinct states in
`configuration`). Events are added once each,
which makes lost and doubled events visible as sets; the code never compares
events, so that loses nothing. Two threads and three addresses give a winner, a
loser and an object of the other kind; a third thread would lose in the same way.
Four bytes hold the longest character, one of three bytes with a neighbour, and
two words with a space between them. Two queued events are a key and a motion event, or a touch and
its end. The four setups cover every branch of `hasInputMode` and both uses of the
mouse (1,013,543 distinct states); the run leaves out emulateTouch with the plain
setup for its time only (1,977,559 states with it, no violation), and the theorems
are about every setup. Two messages of two pieces, a control frame and two calls give every
order of fragment, pong, callback and disconnect.

Deadlock is checked except in `buffered`, which stops after undefined behaviour,
and `web_socket`, where nothing is left to do once the receiver has ended and the
game's calls are used up; there `CallsReturn` and `DisconnectEnds` say that nobody
waits for ever. `EventManager` has an explicit step for the destroyed manager, and
`TextInputHandler` one for a position that was lost.

### Fairness

- `TaskWithDelayThread`: a thread that can go on does (weak fairness of every
  step inside a call), and the function returns (strong fairness, since it may
  sleep in between; the functions that are used sleep finitely often in one run
  of their loop). Nobody has to call `requestRun` or `terminate`.
- `EventManager`: weak fairness of both workers, of a client about to make its
  request, of the answer to a request (curl ends every request) and of a
  destructor that has begun. That is all `DestructorReturns` uses; it says that the
  destructor returns or the program is undefined before.
  `EveryEventIsUploaded` has the premise `ServerAccepts`: a request that is made
  again and again is accepted at some time. That is an assumption about the
  server and not about the code.
- `PthreadShim`: only the steps inside `pthread_once`; the routine returns.
- `WindowInput`: `pollEvents()` returns and the game, which is offered the queue
  again and again, reads from it.
- `WebSocket`: the receiver goes on, callbacks and calls of curl return, a server
  that got a close frame answers it. Strong fairness of getting `curlMu`: the
  receiver gives it up for up to 100 ms in every turn that finds nothing, so a
  thread that waits for it is not passed over for ever.

## 5. Findings and known deviations

`event_manager_oversized`: an event above the upload limit is not dropped, as the
message in the code says, but stays in front of its queue for ever
(`cll-telemetry/src/event_uploader.cpp:74`).

`event_manager_shutdown`: the header says of `terminate()` that it stops the thread
"in a safe but non-reversible way" and that no more runs should be requested after
it, but the realtime worker, which `~EventManager` stops second, may still request
one of the main task (`event_manager.cpp:103`). If the main worker has left its
loop, `requestRun` joins and replaces, under the mutex, the `std::thread` that
`terminate()` is joining without it: undefined behaviour, or `std::system_error`
from the second join.

Behaviour met while modelling that the models contain, and that limits what the
passing properties say. It is noted here and excepted in the properties, and has no
violated run of its own, because no document, comment, message or test of the
repository says the contrary, so there is no claim that a run could refute:

- `sleep()` tests the pointer `currentIsStopping`, not the flag, so it never waits
  in a worker (`task_with_delay_thread.h:40`): the place "nap" of
  `TaskWithDelayThread` is never reached and a failed upload is retried at once.
- A kill between the copy and `ftruncate` in `onEventsUploaded` leaves a torn line
  in the middle of the file, which opening it does not trim
  (`file_event_batch.cpp:175`): the first part of `LinesAreWhole` ends with the first fault. A kill
  in the middle of the copy goes further: the copy has overwritten the start of an
  event whose end it has not moved yet, and that event is gone. Hence the second
  premise of `NothingAcceptedIsLost`.
- A flush between `getEventsForUpload` and `onEventsUploaded` of a list with a part
  from memory makes the acknowledgement remove events that were never sent, or
  erase past the end of the vector (`buffered_event_batch.cpp:42`): `mistaken` in
  `BufferedEventBatch` and `EventManager`. From then on events can be lost and
  uploaded twice, and `OnlySentIsRemoved`, `EveryEventIsOnce`,
  `EveryEventIsSomewhere`, `EveryEventIsUploaded` and the refinement of
  `EventBatch` say nothing. A flush alone, under a list from the files, does no
  harm: that is what they show.
- A late `notify_all` can end the delay of the next request, because `wait_for`
  has no predicate (`task_with_delay_thread.cpp:16`).
- After a failed write the file is cut but the offset is not moved back, so the
  next event follows a hole (`file_event_batch.cpp:87`); a failed write during
  the compaction cuts off the events that were not copied (line 165). Therefore
  `RecordsMatchFile` and `NothingAcceptedIsLost` only hold until a write fails.
- Events that fit no file can make an empty file the oldest one; then
  `hasEvents()` is true and nothing is uploaded until a restart
  (`multi_file_event_batch.cpp:85`). `OldestHasEvents` therefore speaks of the
  time before such an event. In that state `getEventsForUpload` of the files
  returns null, and BufferedEventBatch goes on with its memory, or, if that is empty
  too, wraps a null list (`buffered_event_batch.cpp:31`) that `sendEvents` then
  uses; with a critical queue `sendEvents` reports an error in every turn
  (`event_uploader.cpp:74`). `BufferedEventBatch` and `EventManager` do not have that
  state: their files are the abstract batch, which has a list whenever it has events.
- `uploadRealtimeTasks` ignores the result of `addEvent`: an event its disk queue
  refuses is gone without a message (`event_manager.cpp:99`), and so, but for a
  line in the log, is one the files refuse in a flush
  (`buffered_event_batch.cpp:64`), after `add()` has accepted it. The history
  variable `refused` of `EventManager` collects these.
- The realtime worker can ask the main task for a run after that task's
  `terminate()` has returned (`event_manager.cpp:103`). `NoWorkerOutlives` shows that
  the second `terminate()`, in the task's destructor, joins that worker. It shows
  nothing for a request during the first join (`event_manager_shutdown`): the
  program is undefined then and does not reach "destroyed" in the model.
- A new queueDrainInterval is used from the next start on only
  (`event_manager.cpp:31` and `:55`): `LimitsFollowConfig` is about the two limits
  that are passed on.
- A 304 answer does not reset `downloadAttempt` (`configuration.cpp:85`).
- A 200 answer that is no JSON, a status that was never set (`configuration.cpp:73`,
  `:62`) and a cache file cut by a crash (`file_configuration_cache.cpp:13`) can
  throw where nothing catches: the place "aborted" of `Configuration`. A cache file
  cut inside the number of `refreshInterval` can also leave an interval that is too
  short, which every later 304 confirms, so the entry is expired at once each time.
  That an expired configuration is renewed in the end is therefore not stated.
- Alt and backspace store a byte index as the character position
  (`text_input_handler.cpp:75`), and a caret past the end becomes the number of
  characters as a byte position (`utf8_util.h:40`). From then on the caret the
  game is told is too large (`CaretsAgree`), until it sets the text again; a
  backspace at the start of the text then wraps around (line 59), and a caret
  past the end can lie inside a character. The edits themselves stay right, which
  is what `ImplementsTextField` shows.
- Two gamepads share `needsQueueGamepadInput` (`window_callbacks.cpp:571`): the
  movement of the second one in the same poll is not queued, so `AxisIsSeen` is
  about one gamepad. A gamepad that is disconnected loses its pressed buttons
  without an event, and the game is not told of the removal
  (`jni_support.cpp:577`). The end of a touch that ImGui watched is not passed on,
  although its start was (`window_callbacks.cpp:354`), and with emulateTouch the
  release of a button is not when ImGui captures the mouse or the mode has changed
  since the press (lines 147 and 127): the game then sees a touch that
  does not end. `TouchesEnd` excepts exactly these (`taken`).
- `connected = true` follows `onOpen` (`lib_http_client_websocket.cpp:212`): a
  message sent from `onOpen` is refused, and a disconnect during the handshake is
  overwritten; it also uses the curl handle while `curl_easy_perform` does. Only a
  close frame that got out can then end the receiver. A pong between two fragments
  clears the buffer (line 127), so the game gets the end of that message only.

Hazards that no property covers, because the part is not modelled or the code
promises nothing that could be stated:

- a Retry-After date makes `std::stoull` throw on the worker thread
  (`event_uploader.cpp:48`); a request whose answer is lost is sent again
  (`event_manager.cpp:93`); a configured limit of 0 becomes a limit of 0 events
  (`event_manager.cpp:60`), limits are positive in the models;
- `seqNum++` is not synchronised (`event_serializer.cpp:40`); the token callbacks
  run under the mutex of the authentication step (`cll_upload_auth_step.cpp:24`);
- the text is polled without a lock (`jni_support.cpp:360`), and its callback runs
  before the copy position is updated (`text_input_handler.cpp:95`);
- a release in another input mode than the press is dropped
  (`window_callbacks.cpp:683`);
- a message can be sent after the close frame (`lib_http_client_websocket.cpp:164`),
  and `HttpClientRequest` is used after its owner was given up
  (`lib_http_client.cpp:158`).

## 6. Proofs

TLAPS checks the following for every value of the constants that satisfies the
`ASSUME` of the module. Most of the assumptions say that sets of identities are
disjoint and that sizes and limits are numbers; the others are named below.

**TelemetryProofs, TaskWithDelayThread.** `RequestHasWorker` alone is not
inductive: whether a request is seen depends on `running`, the handle and the
places of all threads. `TaskInv` adds that the handle holds the only worker that
exists (`HandleInv`), that `running` is true exactly while that worker has not
passed its last loop test or a caller is about to start one, and is implied by a
request (`RunningInv`), that a worker that has not taken a task has one to take
(`PendingInv`), what `stopping` says about the owner (`StoppingInv`), when the
thread-local pointer is set (`PointerInv`), and `NoLostWakeup`. There is one lemma
per action. The invariants of the run, `TaskTypeOK` and `TerminateQuiesces`
follow, and `RefinesCoalescingTask` proves the safety part of the refinement: each
step is a step of `CoalescingTask` or leaves `hasPendingTask` and "a worker is in
the function" alone.

**TelemetryProofs, FileEventBatch.** `FileInv` has a part for each stage of
damage. Whatever fails, the recorded size and the offset do not go beyond the file
and every newline is counted (`SizeInv`), and the list that is out is the
beginning of the recorded file (`ListInv`). Until a write fails, the records are
exact (`ExactInv`): while a list is out, the offset is at the end only if an event
was added since, so an acknowledgement that empties the file never happens with a
stale offset. `LineInv` describes the bytes: while no write has failed and no
copy was cut short every byte is followed by the next byte of its event up to the
newline (`Runs`), and until the first fault every line begins with the first byte
of an event (`Starts`).
`RunsAppend`, `RunsRest` and `RunsCopied` say what adding, compacting and a kill
before the truncation do to that, and `IntactIsHeads` that an event is whole in
the file if its first byte is. `RecordsMatch` and `NothingLost` follow. For
`LinesWhole` and `RefinesEventBatch` the recursive functions `EventsIn` (the events
whose newlines are in the file) and `FlattenSeq` are treated by least
counterexample: both distribute over concatenation, and a file that starts with a
first byte and runs on is exactly the lines of its events (`WholeLines`). Cutting
the list off the file then takes the same events off the queue (`QueueOfRest`).
The assumptions are that an event has at least one byte and its newline, that the
limits of an upload are numbers and that `NoList` is no sequence of bytes.

**MultiFileEventBatchProofs.** `Inv` says that the newest file is the one with
the highest number (`FilesInv`), that every other file of the directory is, once,
the oldest file or one of the old files in between (`OldInv`), that a list comes from the file `onEventsUploaded` will choose
(`ListInv`), and that before any refusal only the newest file can be empty
(`FitInv`). `CheckOldestBatch` deletes any number of empty files at once and has
the longest lemma. The theorems are `ListsMatchTheirFile`, `NoEventIsOverlooked`
and `OldestIsNeverEmpty`, and `RefinesEventBatch`, the refinement of `EventBatch`.
Its queue is the concatenation of the files. What `FlattenSeq`, a recursive
function, does with `Append` and `\o` is shown by induction in the form of a least
counterexample (`LeastNumber`), because the provers cannot instantiate an induction
theorem. `OrderInv` adds that the files before the newest are in the order of their
numbers: the constructor sorts what it finds, and `OneOrder` says that a set of
numbers has one ascending enumeration, so a restart leaves the queue as it was.
Deleting empty files and opening the next one for an event that does not fit are
stuttering steps.

**EventManagerProofs.** `AllInv` has six parts. `TypeInv` is the type invariant with
`PostInv`: a worker that is posting has a list of its own batch whose events are
the beginning of that batch, and a part from the buffer that is the beginning of
the buffer until a flush sets `moved`. `OwnerInv` says that a running thread is
held by the handle of its task, and ties the stages of the destructor to the
tasks; `WorkersDoNotOutlive` needs it, because the realtime worker can start a main
worker after the first `terminate()`, and only the handle leads the second one to
it. `AttendedInv` strengthens the two properties on attended
queues by `BetweenLooks`: when the main worker has seen an empty normal queue and
that queue is not empty any more, a request has been made or is about to be.
`TransferInv` says that `transfer` is empty outside of a transfer. `KeptInv` and
`OnceInv` are about the time before `mistaken`: no event is lost (`Kept`) and none
is in two places (`Once`), and whatever is sent or in a queue was added, so that an
event which is added now is nowhere yet. Two lemmas carry `NoEventIsLost` and
`NoEventIsTwice` through the buffer: `FlushEffect`, that a flush only moves events
from the buffer to the files or to `refused`, whichever of them the files take, and
`AcceptedQueues`, that an acknowledgement before any such flush takes exactly the
posted events out of the batch and out of the buffer. Below them are lemmas on the
elements of a sequence (append, concatenation, split at a position, a selection in
order).

**BufferedEventBatchProofs.** `BufferInv` adds to the two properties that nothing
is between memory and files while the mutex is free and nothing is in memory while
it is not (`MutexInv`), what a list that is out still says (`ListInv`: its part
from the files is their beginning as long as it is out, its part from memory is
the beginning of memory until a flush sets `moved`), and that all that is stored
was added (`AddedInv`). `OnlySentIsRemoved` needs `moved`: an acknowledgement
after a flush is the step that would break it (section 5). `RefinesEventBatch` is
the refinement of `EventBatch`. The queue of the mapping is a recursive function
(`Kept`, what the files do not refuse), treated in the same way. `MergedInv` adds that a list with a part
from memory has all of the files, so that the list is a beginning of the queue
(`QueueSplits`); flushing is a stuttering step.

**ConfigurationProofs.** `CacheInv` says that an outstanding request is one of a
configuration (`PlaceInv`), that the limits that are passed on are those of the
configurations except between the first download of a round and its end (`LimitsInv`), that a running
process has a readable entry in the cache exactly for what it has downloaded
(`CurrentInv`, which implies `EntryIsCurrent`), and that the etags of the cache and
of the file are right (`EtagInv`). The back-off needs `2^n` to be a positive
number, which is taken from the number of subsets of a set of n elements; that the
minimum of a set of numbers exists is taken from well-foundedness.

**PthreadShimProofs.** `ObjectsInv` says what is allocated (`HeapInv`: the published
objects and those about to be published, which only their thread knows), that a
thread which creates an object has seen a word that is still there unless another
thread was faster (`CreateInv`), that what a call has resolved is what is published
(`CallInv`), and that a thread is inside exactly when it owns the published mutex
(`HoldInv`). `OneObject` follows, and `MonitorRefinement`, in which creating,
publishing and losing the race are stuttering steps. `KindInv` adds for `KindKept`
that the declared kind is in the word that is read for it until a mutex is
published, and in every mutex that may still win. `OnceInv` relates the once
control to the threads in the routine and in the loop; `OnceIsSafe` is the safety
part of `OnceIsComplete`, an action property.

**WebSocketProofs.** `CurlInv` ties `curlMu` to the places of the threads. The
longest argument is that of `MessagesWhole`. `StreamInv` says that there are a
number of pieces the receiver has taken of the next message and a place from which
its buffer has them (`Cursor`), that the frames on their way are exactly the pieces
that were sent and not taken (`Sound`, `Kept`), in order (`Ordered`), and that a
pong between two pieces of a message is noted in `hit` (`Pongs`).

**InputProofs, WindowInput.** The properties of the quiet game say nothing while events
are queued, so they are not inductive. `ButtonInv`, `AxisInv` and `TouchInv` say
what a queue promises: of two opposite events of a button or a finger the true one
comes last (`Overruled`), and one is queued whenever the game is wrong (`Queued`).
For the axis the promise is any event of the pad, because reading it looks the pad
up; `needsQueueGamepadInput` is false only while such an event is queued.
`KnownInv` keeps events of a new gamepad out of the queue, `IdleInv` describes the
time before the first poll. For touches the promise is made for a pointer that is
`Lifted`: nothing that the game is told of holds it down, neither a finger nor, with
emulateTouch, a mouse button, and no end of it was withheld. `TouchIsOn` is the
reason why the end of a finger's touch is
never held back: touch is let through in every state or in none. That is not so for
the button of a mouse, hence `taken`.

**InputProofs, TextInputHandler.** A place of the text is a `Boundary` if no
continuation byte follows it, and a text is `Whole` if every first byte is followed
by as many continuation bytes as it says and then by a `Boundary`; `UTF8IsWhole`
shows that this is `IsUTF8`. The invariant `TextInv` has three stages. Always the
types hold; until the position is lost the text is `Whole`, both ends of the
selection are boundaries and the character position is not less than the number of
characters before the cursor (`Placed`); until one of the two drifting operations
both positions of both ends are the same place (`Exactly`). The lower bound in
`Placed` is what makes left and backspace safe after a drift: they subtract one
from a number that is at least one. Only with exact positions is it certain that
the code never reads before the string (`BackspaceUnderflowsStep`).

Most of the work is about the operators. `Characters`, `GetLength` and
`GetBytePosFromUTF` are recursive functions; that such a function exists for a
loop that goes on from place to place is `WalkExists`, and what it computes is
shown by least counterexample (`GetLengthCounts`: on a boundary `getLength` is the
number of characters before it; `GetBytePosFinds`: `getBytePosFromUTF` is the place
behind that many characters, or the number of characters when there are fewer).
`CharStartIs`, `NextPlace`, `WordStartIs`, `WordEndIs` and `WordBeginIs` say that
the byte loops of the keys stop at boundaries. `CutWhole` and `JoinWhole` cut and
join whole texts, and `TakenOut` and `PutIn` say which characters are left. There
is then one lemma per action, which proves the invariant and the step of `TextField`
together (`TextStep`). The assumptions are that inputs are UTF-8, that what is typed
is not empty and that the texts of the game keep to the bound `MaxBytes`, which may
be any number.

Assumptions that were needed and are not about identities: the intervals of the
server are at most `MaxInterval`, the settings of every version are functions on
the same properties, and a setup is a mode and two flags; and
those of `FileEventBatch` and `TextInputHandler` named above.

Only model-checked: everything about liveness (fairness and ENABLED are outside
of what the prover does).

## 7. Running it

    tlc -workers 2 -config EventManager.cfg MCEventManager
    tlapm EventManagerProofs.tla

Each run takes less than three minutes on two cores, and so do the proofs of each
module, except `InputProofs` with its two components, which takes five.
