----------------------------- MODULE EventManager -----------------------------
(***************************************************************************)
(* cll::EventManager with its EventUploader: client threads add events, a  *)
(* realtime worker uploads the events in memory and hands them to the disk *)
(* queues when that fails, a main worker uploads the disk queues, and the  *)
(* owner starts and destroys the manager.                                  *)
(*                                                                         *)
(* The normal disk queue is a BufferedEventBatch: files and, in front of   *)
(* them, memory that is flushed when it is full, also under a list that is *)
(* being uploaded.  The files of a queue are the FIFO of EventBatch (see   *)
(* MultiFileEventBatch).  A worker's thread is CoalescingTask's, and its   *)
(* std::thread handle is modelled here, because the realtime worker can    *)
(* ask a main task for a run whose terminate() was called, which           *)
(* TaskWithDelayThread leaves out.  Delays and back-off times are not      *)
(* modelled: time only decides when a step is taken.  The server's answers *)
(* are external.  Every event is added once, and the owner destroys the    *)
(* manager when no client is inside add().                                 *)
(***************************************************************************)
EXTENDS Integers, Sequences, SequencesExt

CONSTANTS Clients, Events,
          LatencyRealtime, PersistenceCritical,  \* the events with the flag
          Oversized,         \* events larger than the uploader's maxSize
          RealtimeLimit,     \* what realtimeMemoryBatch takes (50)
          BufferLimit,       \* bufferedItemCount of the normal queue (50)
          MaxEvents,         \* uploaderMaxEvents
          StorageFails,      \* writing to a file may fail
          NoList

ASSUME ManagerAssumption ==
    /\ LatencyRealtime \subseteq Events /\ PersistenceCritical \subseteq Events
    /\ Oversized \subseteq Events
    /\ RealtimeLimit \in Nat /\ BufferLimit \in Nat \ {0} /\ MaxEvents \in Nat \ {0}
    /\ StorageFails \in BOOLEAN

(* The files of the normal queue are "normal", its memory is "buffer". *)
Batches == {"realtime", "critical", "normal", "buffer"}
Workers == {"main", "rt"}   \* mainUploadTask and realtimeUploadTask

VARIABLES queue,      \* the events of each batch, oldest first
          pending,    \* hasPendingTask of each task
          held,       \* the std::thread of the task is joinable
          stopping,   \* terminate() of the task has been called
          at,         \* where each worker is
          list,       \* the list each worker is sending, or NoList
          transfer,   \* what the realtime worker still has to move to disk
          client,     \* the task each client is about to request, or "out"
          owner,
          added, sent, dropped,  \* history
          refused,    \* history: events a file did not take and nobody reported
          moved,      \* history: the buffer was flushed under a list with a part
          mistaken    \* from it, and such a list was acknowledged

tasks == <<pending, held, stopping, at>>
history == <<added, sent, dropped, refused, moved, mistaken>>
vars == <<queue, tasks, list, transfer, client, owner, history>>

(* What a worker posts: the first events of its batch and, for the normal
   queue, of the buffer. *)
Lists == [batch : Batches, events : Seq(Events), buffered : Seq(Events),
          canRetry : BOOLEAN]

(* "undefined": two threads have joined the same thread, or a vector was
   erased past its end.  Nothing is known of the program after that; in the
   model the worker stays where it is. *)
MainPlaces == {"exited", "loop", "critical", "body", "post", "undefined"}
RtPlaces == {"exited", "loop", "post", "transfer", "undefined"}
OwnerPlaces == {"created", "started", "stopMain", "stopRt", "destroy", "destroyed"}

TypeOK ==
    /\ queue \in [Batches -> Seq(Events)]
    /\ Len(queue["realtime"]) <= RealtimeLimit /\ Len(queue["buffer"]) <= BufferLimit
    /\ pending \in [Workers -> BOOLEAN] /\ held \in [Workers -> BOOLEAN]
    /\ stopping \in [Workers -> BOOLEAN]
    /\ at \in [Workers -> MainPlaces \cup RtPlaces]
    /\ at["main"] \in MainPlaces /\ at["rt"] \in RtPlaces
    /\ list \in [Workers -> Lists \cup {NoList}]
    /\ transfer \in Seq(Events)
    /\ client \in [Clients -> Workers \cup {"out"}]
    /\ owner \in OwnerPlaces
    /\ added \subseteq Events /\ sent \subseteq Events /\ dropped \subseteq Events
    /\ refused \subseteq Events
    /\ moved \in BOOLEAN /\ mistaken \in BOOLEAN

Init ==
    /\ queue = [b \in Batches |-> <<>>]
    /\ pending = [w \in Workers |-> FALSE] /\ held = [w \in Workers |-> FALSE]
    /\ stopping = [w \in Workers |-> FALSE]
    /\ at = [w \in Workers |-> "exited"]
    /\ list = [w \in Workers |-> NoList]
    /\ transfer = <<>>
    /\ client = [c \in Clients |-> "out"]
    /\ owner = "created"
    /\ added = {} /\ sent = {} /\ dropped = {} /\ refused = {}
    /\ moved = FALSE /\ mistaken = FALSE

Goto(w, where) == at' = [at EXCEPT ![w] = where]

(* `running': a thread of the task has not passed the end of its loop. *)
Running(w) == at[w] # "exited" \/ pending[w]

(* requestRun: unless a thread is running one is created and held. *)
RequestRun(w) ==
    /\ pending' = [pending EXCEPT ![w] = TRUE]
    /\ held' = [held EXCEPT ![w] = @ \/ ~Running(w)]

-----------------------------------------------------------------------------
(* The queues *)

Store(b, e) == queue' = [queue EXCEPT ![b] = Append(@, e)]

(* A file has the uploader's size limit and refuses a larger event. *)
FileTakes(e) == e \notin Oversized
FileRefuses(e) == StorageFails \/ e \in Oversized

(* The ways to pick some elements of a sequence in their order. *)
Picks(s) == UNION {{f \in [1..k -> 1..Len(s)] : \A i, j \in 1..k : i < j => f[i] < f[j]} :
                   k \in 0..Len(s)}

(* The main worker is sending a list with a part from the buffer. *)
MainSendsBuffered == at["main"] = "post" /\ list["main"].buffered # <<>>

(* flushInternal: every event of the buffer goes to the files, or is refused
   with a line in the log.  The buffer then holds what is given. *)
Flush(rest) ==
    LET buffer == queue["buffer"]
    IN  \E f \in Picks(buffer) :
          LET kept == [i \in DOMAIN f |-> buffer[f[i]]]
              lost == {buffer[i] : i \in (1..Len(buffer)) \ Range(f)}
          IN  /\ \A e \in ToSet(kept) : FileTakes(e)
              /\ \A e \in lost : FileRefuses(e)
              /\ queue' = [queue EXCEPT !["normal"] = @ \o kept, !["buffer"] = rest]
              /\ refused' = refused \cup lost
              /\ moved' = (moved \/ MainSendsBuffered)

(* BufferedEventBatch::addEvent, which always takes the event. *)
AddBuffered(e) ==
    \/ /\ Len(queue["buffer"]) < BufferLimit
       /\ Store("buffer", e)
       /\ UNCHANGED <<refused, moved>>
    \/ Len(queue["buffer"]) >= BufferLimit /\ Flush(<<e>>)

(* addEvent of the disk queue that the event belongs to returns true, *)
AddToStorage(e) ==
    \/ /\ e \in PersistenceCritical /\ FileTakes(e)
       /\ Store("critical", e)
       /\ UNCHANGED <<refused, moved>>
    \/ e \notin PersistenceCritical /\ AddBuffered(e)

(* or false. *)
StorageRefuses(e) == e \in PersistenceCritical /\ FileRefuses(e)

(* normalStorageBatch->hasEvents() *)
NormalHasEvents == queue["normal"] # <<>> \/ queue["buffer"] # <<>>

-----------------------------------------------------------------------------
(* add() *)

CanAdd(c, e) == client[c] = "out" /\ e \notin added /\ owner \in {"created", "started"}

RealtimeIsFull == Len(queue["realtime"]) >= RealtimeLimit

AddRealtime(c, e) ==
    /\ CanAdd(c, e)
    /\ e \in LatencyRealtime /\ ~RealtimeIsFull
    /\ Store("realtime", e)
    /\ added' = added \cup {e}
    /\ client' = [client EXCEPT ![c] = "rt"]
    /\ UNCHANGED <<tasks, list, transfer, owner, sent, dropped, refused, moved, mistaken>>

(* A normal event, or a realtime one that memory has no room for. *)
AddStorage(c, e) ==
    /\ CanAdd(c, e)
    /\ e \in LatencyRealtime => RealtimeIsFull
    /\ AddToStorage(e)
    /\ added' = added \cup {e}
    /\ client' = [client EXCEPT ![c] = "main"]
    /\ UNCHANGED <<tasks, list, transfer, owner, sent, dropped, mistaken>>

(* "Event dropped" *)
AddFails(c, e) ==
    /\ CanAdd(c, e)
    /\ e \in LatencyRealtime => RealtimeIsFull
    /\ StorageRefuses(e)
    /\ added' = added \cup {e}
    /\ dropped' = dropped \cup {e}
    /\ UNCHANGED <<queue, tasks, list, transfer, client, owner, sent, refused, moved,
                   mistaken>>

(* The requestRun at the end of add(). *)
ClientRequests(c) ==
    /\ client[c] # "out"
    /\ RequestRun(client[c])
    /\ client' = [client EXCEPT ![c] = "out"]
    /\ UNCHANGED <<queue, stopping, at, list, transfer, owner, history>>

-----------------------------------------------------------------------------
(* The workers.  The task starts its function for a pending request. *)

TaskBegins(w) ==
    /\ at[w] = "exited" /\ pending[w]
    /\ pending' = [pending EXCEPT ![w] = FALSE]
    /\ Goto(w, "loop")
    /\ UNCHANGED <<queue, held, stopping, list, transfer, client, owner, history>>

(* How many of the first events of s a list may have: none is too large, and
   their sum may be, so that any number may have to do. *)
Counts(s, limit) ==
    {n \in 0..Len(s) : n <= limit /\ \A i \in 1..n : s[i] \notin Oversized}

FirstOf(s, n) == SubSeq(s, 1, n)

(* The lists of one batch.  Only an event that is too large alone stops all. *)
SimpleLists(s) ==
    {FirstOf(s, n) : n \in {n \in Counts(s, MaxEvents) :
                              n = 0 /\ s # <<>> => s[1] \in Oversized}}

(* sendEvents(batch): the list is taken and posted. *)
Post(w, b, events, buffered) ==
    /\ list' = [list EXCEPT ![w] = [batch |-> b, events |-> events,
                                    buffered |-> buffered, canRetry |-> TRUE]]
    /\ Goto(w, "post")

WorkerOnly == UNCHANGED <<queue, pending, held, stopping, transfer, client, owner, history>>

PostSimple(w, b) == \E events \in SimpleLists(queue[b]) : Post(w, b, events, <<>>)

(* The normal queue: a list from the files, which may go on with the buffer
   when it has all of them; the buffer alone when there is no file.  (A null
   list, for which sendEvents has a branch, is what the batches return when
   they are empty, and MultiFileEventBatch also when its oldest file is: that
   state, which a refused event can leave behind, see OldestHasEvents there, is
   not modelled.) *)
PostNormal ==
    LET files == queue["normal"]
        buffer == queue["buffer"]
    IN  \/ /\ files = <<>>
           /\ \E buffered \in SimpleLists(buffer) : Post("main", "normal", <<>>, buffered)
        \/ files # <<>> /\ PostSimple("main", "normal")
        \/ /\ files # <<>> /\ Len(files) \in Counts(files, MaxEvents - 1)
           /\ \E k \in Counts(buffer, MaxEvents - Len(files)) :
                 Post("main", "normal", files, FirstOf(buffer, k))

(* Mutant: the loop does not look at isStopping. *)
MainLoop_NeverStops ==
    /\ at["main"] = "loop"
    /\ Goto("main", IF NormalHasEvents THEN "body" ELSE "critical")
    /\ UNCHANGED list /\ WorkerOnly

(* uploadTasks: the test of the loop looks at isStopping and the normal queue,
   then at the critical one. *)
MainLoop ==
    /\ at["main"] = "loop"
    /\ Goto("main", IF stopping["main"] THEN "exited"
                    ELSE IF NormalHasEvents THEN "body" ELSE "critical")
    /\ UNCHANGED list /\ WorkerOnly

MainLooksAtCritical ==
    /\ at["main"] = "critical"
    /\ Goto("main", IF queue["critical"] # <<>> THEN "body" ELSE "exited")
    /\ UNCHANGED list /\ WorkerOnly

(* Mutant: the test looks at the other queue. *)
MainPosts_Swapped ==
    /\ at["main"] = "body"
    /\ IF NormalHasEvents THEN PostSimple("main", "critical") ELSE PostNormal
    /\ WorkerOnly

(* Critical events go first. *)
MainPosts ==
    /\ at["main"] = "body"
    /\ IF queue["critical"] # <<>> THEN PostSimple("main", "critical") ELSE PostNormal
    /\ WorkerOnly

(* uploadRealtimeTasks does not look at isStopping. *)
RtLoop ==
    /\ at["rt"] = "loop"
    /\ IF queue["realtime"] # <<>> THEN PostSimple("rt", "realtime")
       ELSE Goto("rt", "exited") /\ UNCHANGED list
    /\ WorkerOnly

Without(s, n) == SubSeq(s, n + 1, Len(s))

(* 200: onEventsUploaded removes as many events as the list has, from the batch
   and from the buffer.  After a flush the first events of the buffer are not
   those of the list, and there may be too few of them. *)
Accepted(w) ==
    LET l == list[w]
        n == Len(l.events)
        k == Len(l.buffered)
        rest == [queue EXCEPT ![l.batch] = Without(@, n)]
    IN  /\ at[w] = "post"
        /\ queue' = [rest EXCEPT !["buffer"] = Without(@, k)]
        /\ sent' = sent \cup ToSet(l.events) \cup ToSet(l.buffered)
        /\ list' = [list EXCEPT ![w] = NoList]
        /\ Goto(w, IF k > Len(queue["buffer"]) THEN "undefined" ELSE "loop")
        /\ mistaken' = (mistaken \/ (w = "main" /\ moved))
        /\ moved' = (moved /\ w # "main")
        /\ UNCHANGED <<pending, held, stopping, transfer, client, owner, added,
                       dropped, refused>>

(* 401 the first time: the upload steps refresh the tokens and the list is
   posted once more. *)
Unauthorized(w) ==
    /\ at[w] = "post" /\ list[w].canRetry
    /\ list' = [list EXCEPT ![w].canRetry = FALSE]
    /\ UNCHANGED at /\ WorkerOnly

(* Mutants: the events of the failed list are not transferred; all are copied
   and none is taken out of memory. *)
RtFails_KeepsRest ==
    /\ at["rt"] = "post"
    /\ list' = [list EXCEPT !["rt"] = NoList]
    /\ transfer' = Without(queue["realtime"], Len(list["rt"].events))
    /\ queue' = [queue EXCEPT !["realtime"] = <<>>]
    /\ Goto("rt", "transfer")
    /\ UNCHANGED <<pending, held, stopping, client, owner, history>>

RtFails_Copies ==
    /\ at["rt"] = "post"
    /\ list' = [list EXCEPT !["rt"] = NoList]
    /\ transfer' = queue["realtime"]
    /\ Goto("rt", "transfer")
    /\ UNCHANGED <<queue, pending, held, stopping, client, owner, history>>

(* 401 again, 429, 503, any other status or no answer.  The realtime worker
   takes all events out of memory, also those added during the request. *)
RtFails ==
    /\ at["rt"] = "post"
    /\ list' = [list EXCEPT !["rt"] = NoList]
    /\ transfer' = queue["realtime"]
    /\ queue' = [queue EXCEPT !["realtime"] = <<>>]
    /\ Goto("rt", "transfer")
    /\ UNCHANGED <<pending, held, stopping, client, owner, history>>

(* The main worker sleeps (TaskWithDelayThread) and tries again. *)
MainFails ==
    /\ at["main"] = "post"
    /\ list' = [list EXCEPT !["main"] = NoList]
    /\ Goto("main", "loop")
    /\ moved' = FALSE
    /\ UNCHANGED <<queue, pending, held, stopping, transfer, client, owner, added,
                   sent, dropped, refused, mistaken>>

RtTransfers ==
    /\ at["rt"] = "transfer" /\ transfer # <<>>
    /\ AddToStorage(Head(transfer))
    /\ transfer' = Tail(transfer)
    /\ UNCHANGED <<tasks, list, client, owner, added, sent, dropped, mistaken>>

(* The result of addEvent is not looked at. *)
RtTransferFails ==
    /\ at["rt"] = "transfer" /\ transfer # <<>>
    /\ StorageRefuses(Head(transfer))
    /\ transfer' = Tail(transfer)
    /\ refused' = refused \cup {Head(transfer)}
    /\ UNCHANGED <<queue, tasks, list, client, owner, added, sent, dropped, moved,
                   mistaken>>

(* terminate() has released the mutex and is at the handle of mainUploadTask,
   joinable() and join(); requestRun, which holds the mutex, is about to join
   and replace the thread behind the same handle. *)
BothAtHandle == owner = "stopMain" /\ ~Running("main")

(* Mutant: no upload of the transferred events is asked for. *)
RtRequestsMain_Forgotten ==
    /\ at["rt"] = "transfer" /\ transfer = <<>>
    /\ Goto("rt", "loop")
    /\ UNCHANGED <<queue, pending, held, stopping, list, transfer, client, owner, history>>

(* "queue an immediate reupload".  A request that is over before terminate()
   gets to the handle starts a thread that terminate() then joins. *)
RtRequestsMain ==
    /\ at["rt"] = "transfer" /\ transfer = <<>>
    /\ RequestRun("main")
    /\ Goto("rt", "loop")
    /\ UNCHANGED <<queue, stopping, list, transfer, client, owner, history>>

(* The same request while terminate() is at the handle: two threads join one
   thread, or one of them a thread that is none. *)
RtJoinsToo ==
    /\ at["rt"] = "transfer" /\ transfer = <<>> /\ BothAtHandle
    /\ Goto("rt", "undefined")
    /\ UNCHANGED <<queue, pending, held, stopping, list, transfer, client, owner, history>>

-----------------------------------------------------------------------------
(* The owner *)

OwnerGoes(from, to) == owner = from /\ owner' = to

Start ==
    /\ OwnerGoes("created", "started")
    /\ RequestRun("main")
    /\ UNCHANGED <<queue, stopping, at, list, transfer, client, history>>

(* The worker thread has left doThreadLoop. *)
Exited(w) == at[w] = "exited" /\ ~pending[w]

(* The end of terminate(): join(), if there is a thread to join. *)
Join(w) ==
    /\ held[w] => Exited(w)
    /\ held' = [held EXCEPT ![w] = FALSE]

(* Its beginning. *)
Stop(w) == stopping' = [stopping EXCEPT ![w] = TRUE]

OwnerOnly == UNCHANGED <<pending, at, list, transfer, client, added, sent, dropped, mistaken>>

(* ~EventManager: mainUploadTask->terminate(), realtimeUploadTask->terminate() *)
TerminateMain ==
    /\ OwnerGoes("started", "stopMain")
    /\ \A c \in Clients : client[c] = "out"
    /\ Stop("main")
    /\ UNCHANGED <<queue, held, refused, moved>> /\ OwnerOnly

TerminateRt ==
    /\ OwnerGoes("stopMain", "stopRt")
    /\ Join("main") /\ Stop("rt")
    /\ UNCHANGED <<queue, refused, moved>> /\ OwnerOnly

BodyDone ==
    /\ OwnerGoes("stopRt", "destroy")
    /\ Join("rt")
    /\ UNCHANGED <<queue, stopping, refused, moved>> /\ OwnerOnly

(* Mutant: the task's destructor does not terminate it once more. *)
DestroyMembers_NoJoin ==
    /\ OwnerGoes("destroy", "destroyed")
    /\ UNCHANGED held /\ Stop("main")
    /\ Flush(<<>>) /\ OwnerOnly

(* The members are destroyed, the last first: realtimeUploadTask, whose thread
   has been joined, mainUploadTask, which is terminated and joined again, and
   the normal queue, which flushes its buffer. *)
DestroyMembers ==
    /\ OwnerGoes("destroy", "destroyed")
    /\ Join("main") /\ Stop("main")
    /\ Flush(<<>>) /\ OwnerOnly

Undefined == \E w \in Workers : at[w] = "undefined"

(* Nothing is left to do, or nothing is known. *)
Ended == (owner = "destroyed" \/ Undefined) /\ UNCHANGED vars

-----------------------------------------------------------------------------
Answer(w) == \/ Accepted(w) \/ Unauthorized(w)
             \/ w = "main" /\ MainFails
             \/ w = "rt" /\ RtFails

MainStep == TaskBegins("main") \/ MainLoop \/ MainLooksAtCritical \/ MainPosts

RtStep == \/ TaskBegins("rt") \/ RtLoop \/ RtTransfers \/ RtTransferFails
          \/ RtRequestsMain \/ RtJoinsToo

ClientStep == \E c \in Clients : \/ \E e \in Events : AddRealtime(c, e)
                                 \/ \E e \in Events : AddStorage(c, e)
                                 \/ \E e \in Events : AddFails(c, e)
                                 \/ ClientRequests(c)

OwnerStep == \/ Start \/ TerminateMain \/ TerminateRt \/ BodyDone \/ DestroyMembers
             \/ Ended

Next == \/ ClientStep \/ OwnerStep \/ MainStep \/ RtStep
        \/ \E w \in Workers : Answer(w)

Spec == Init /\ [][Next]_vars

(* Threads that can run do, every request is answered in some way, and a
   destructor that has begun goes on. *)
ThreadSpec ==
    /\ Spec
    /\ WF_vars(MainStep) /\ WF_vars(RtStep)
    /\ \A c \in Clients : WF_vars(ClientRequests(c))
    /\ \A w \in Workers : WF_vars(Answer(w))
    /\ WF_vars(TerminateRt \/ BodyDone \/ DestroyMembers)

(* The server, asked again and again, accepts at some time. *)
ServerAccepts == \A w \in Workers : SF_vars(Accepted(w))

FairSpec == ThreadSpec /\ ServerAccepts

-----------------------------------------------------------------------------
InQueues == {e \in Events : \/ \E b \in Batches : e \in ToSet(queue[b])
                            \/ e \in ToSet(transfer)}

(* An event that add() took is uploaded, is still in a queue, its loss was
   reported ("Event dropped"), or a file did not take it, in the realtime
   worker's move from memory to disk or in a flush of the buffer.  No other is
   lost, until a list with a part from the buffer is acknowledged after a flush:
   that removes later events of the buffer instead. *)
EveryEventIsSomewhere ==
    ~mistaken => added \subseteq sent \cup dropped \cup refused \cup InQueues

(* No event is in two places, or twice in one, so none is uploaded again after
   the answer to it; flushes, transfers and adds under a list that is out
   included.  It ends with the same acknowledgement, which leaves the events it
   stands for in the files. *)
EveryEventIsOnce ==
    ~mistaken =>
        /\ sent \cap InQueues = {}
        /\ IsInjective(transfer) /\ \A b \in Batches : IsInjective(queue[b])
        /\ \A b, c \in Batches : b # c => ToSet(queue[b]) \cap ToSet(queue[c]) = {}
        /\ \A b \in Batches : ToSet(queue[b]) \cap ToSet(transfer) = {}

(* Someone will look at the queue: a worker that is going to test it, a request,
   or a thread about to make the request. *)
Awake(w) == Running(w) \/ \E c \in Clients : client[c] = w

(* Events in memory are never left to lie: between a worker's last look at the
   queue and the next add() there is no gap. *)
RealtimeIsAttended == queue["realtime"] # <<>> => Awake("rt")

(* The same for the events on disk, unless the manager is being destroyed. *)
StorageIsAttended ==
    /\ NormalHasEvents \/ queue["critical"] # <<>>
    /\ ~stopping["main"]
    => Awake("main") \/ at["rt"] = "transfer"

(* Together: no event lies in a queue that nobody is going to look at. *)
EventsAreAttended == RealtimeIsAttended /\ StorageIsAttended

(* When the members are gone no worker is running, no thread is left unjoined
   (destroying its handle would end the process) and no event is left in
   memory.  The realtime worker may have started the main task again after its
   terminate() had returned: that thread is held and joined.  If it asked while
   terminate() was joining, the program is Undefined and never gets here. *)
NoWorkerOutlives ==
    owner = "destroyed" =>
        /\ \A w \in Workers : Exited(w) /\ ~held[w]
        /\ queue["realtime"] = <<>> /\ queue["buffer"] = <<>> /\ transfer = <<>>

(* ~EventManager returns, unless the two joins met or the buffer was erased past
   its end. *)
DestructorReturns == (owner = "stopMain") ~> (owner = "destroyed" \/ Undefined)

(* "No more runs should be requested after this function is called", and
   terminate() stops the thread "in a safe but non-reversible way": nobody else
   is at the handle while the owner joins. *)
TerminateIsAlone == at["rt"] # "undefined"

(* With a server that accepts now and then the queues of the finitely many events
   run dry: each is uploaded at some time, unless a file did not take it, an
   acknowledgement after a flush has removed the wrong ones, or the manager is
   destroyed. *)
EveryEventIsUploaded ==
    ServerAccepts => []<>(\/ added \subseteq sent \cup dropped \cup refused
                          \/ mistaken \/ owner \notin {"created", "started"})

(* "Failed to get any event from the batch - dropping the first event and
   trying again": an event that is too large to upload does not stay in front
   of the others until the manager is destroyed. *)
TooLargeIsDropped ==
    \A b \in Batches :
        (queue[b] # <<>> /\ queue[b][1] \in Oversized)
            ~> \/ queue[b] = <<>> \/ queue[b][1] \notin Oversized
               \/ owner \notin {"created", "started"}
===============================================================================
