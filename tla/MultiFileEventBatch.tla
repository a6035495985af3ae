-------------------------- MODULE MultiFileEventBatch --------------------------
(***************************************************************************)
(* cll::MultiFileEventBatch: a queue of events spread over numbered files. *)
(* Events are added to the newest file, which is finalized and replaced by *)
(* the next one when it is full; uploads take events from the oldest file. *)
(* A file is the sequence of its events: that its bytes behave as one is   *)
(* the subject of FileEventBatch.                                          *)
(*                                                                         *)
(* Every method holds batchPointerMutex and is one step.  Adding threads   *)
(* and the upload thread interleave between getEventsForUpload and         *)
(* onEventsUploaded, when no lock is held.  Restart is the end of the      *)
(* process, orderly or not, and the constructor of the next one.           *)
(***************************************************************************)
EXTENDS Integers, Sequences, FiniteSets, SequencesExt

CONSTANTS Events, Size,
          Limits,       \* <<fileMaxEvents, fileMaxSize>> pairs; 0: no limit
          UploadArgs,   \* <<maxCount, maxSize>> pairs for getEventsForUpload
          MaxBatchId,   \* bound on the numbers of the files
          NoBatch, NoList

Ids == 0..MaxBatchId

ASSUME BatchAssumption ==
    /\ Size \in [Events -> Nat]
    /\ Limits \subseteq Nat \X Nat
    /\ UploadArgs \subseteq Nat \X Nat
    /\ MaxBatchId \in Nat
    /\ NoBatch \notin Ids
    /\ NoList \notin Seq(Events)

VARIABLES files,          \* the events in each file
          exist,          \* the numbers of the files in the directory
          oldestBatch,    \* the file being uploaded, or NoBatch
          oldBatches,     \* the numbers of the files between the two
          newestBatchId,
          limit,          \* <<fileMaxEvents, fileMaxSize>>
          list,           \* the events handed to the uploader, or NoList
          source,         \* history: the file the list was taken from
          refused         \* history: the events that did not fit an empty file

vars == <<files, exist, oldestBatch, oldBatches, newestBatchId, limit, list,
          source, refused>>

TypeOK ==
    /\ files \in [Ids -> Seq(Events)]
    /\ exist \subseteq Ids
    /\ oldestBatch \in Ids \cup {NoBatch}
    /\ oldBatches \in Seq(Ids)
    /\ newestBatchId \in Ids
    /\ limit \in Limits
    /\ list \in Seq(Events) \cup {NoList}
    /\ source \in Ids \cup {NoBatch}
    /\ refused \subseteq Events

Init ==
    /\ files = [i \in Ids |-> <<>>]
    /\ exist = {0}
    /\ oldestBatch = NoBatch /\ oldBatches = <<>> /\ newestBatchId = 0
    /\ limit \in Limits
    /\ list = NoList /\ source = NoBatch
    /\ refused = {}

-----------------------------------------------------------------------------
FileSize(s) == IF s = <<>> THEN 0
               ELSE FoldLeft(LAMBDA n, e : n + Size[e], 0, s)

(* FileEventBatch::canAddEvent for a file that holds s. *)
CanAddEvent(s, e) ==
    /\ limit[2] = 0 \/ FileSize(s) + Size[e] <= limit[2]
    /\ limit[1] = 0 \/ Len(s) + 1 <= limit[1]

(* addEvent into the newest file. *)
AddEvent(e) ==
    /\ CanAddEvent(files[newestBatchId], e)
    /\ files' = [files EXCEPT ![newestBatchId] = Append(@, e)]
    /\ UNCHANGED <<exist, oldestBatch, oldBatches, newestBatchId, limit, list,
                   source, refused>>

(* Mutant: the full file always goes to the back of the list of old files. *)
AddEventToNextFile_AlwaysOld(e) ==
    LET next == newestBatchId + 1
    IN  /\ ~CanAddEvent(files[newestBatchId], e)
        /\ next \in Ids
        /\ oldBatches' = Append(oldBatches, newestBatchId)
        /\ newestBatchId' = next
        /\ exist' = exist \cup {next}
        /\ files' = [files EXCEPT ![next] = IF CanAddEvent(@, e) THEN Append(@, e) ELSE @]
        /\ refused' = IF CanAddEvent(files[next], e) THEN refused ELSE refused \cup {e}
        /\ UNCHANGED <<oldestBatch, limit, list, source>>

(* Mutant: the full file always becomes the oldest one. *)
AddEventToNextFile_NoOldest(e) ==
    LET next == newestBatchId + 1
    IN  /\ ~CanAddEvent(files[newestBatchId], e)
        /\ next \in Ids
        /\ oldestBatch' = newestBatchId
        /\ newestBatchId' = next
        /\ exist' = exist \cup {next}
        /\ files' = [files EXCEPT ![next] = IF CanAddEvent(@, e) THEN Append(@, e) ELSE @]
        /\ refused' = IF CanAddEvent(files[next], e) THEN refused ELSE refused \cup {e}
        /\ UNCHANGED <<oldBatches, limit, list, source>>

(* addEvent when the newest file is full: it becomes the oldest one or the
   last of the old ones, and the next number is opened.  The event is dropped
   when even an empty file cannot take it. *)
AddEventToNextFile(e) ==
    LET next == newestBatchId + 1
        onlyFile == oldestBatch = NoBatch /\ oldBatches = <<>>
    IN  /\ ~CanAddEvent(files[newestBatchId], e)
        /\ next \in Ids
        /\ oldestBatch' = IF onlyFile THEN newestBatchId ELSE oldestBatch
        /\ oldBatches' = IF onlyFile THEN oldBatches
                         ELSE Append(oldBatches, newestBatchId)
        /\ newestBatchId' = next
        /\ exist' = exist \cup {next}
        /\ files' = [files EXCEPT ![next] = IF CanAddEvent(@, e) THEN Append(@, e) ELSE @]
        /\ refused' = IF CanAddEvent(files[next], e) THEN refused ELSE refused \cup {e}
        /\ UNCHANGED <<limit, list, source>>

(* The file that uploads come from and that onEventsUploaded removes from. *)
Target == IF oldestBatch # NoBatch THEN oldestBatch ELSE newestBatchId

(* checkOldestBatch: the first old file with events becomes the oldest; the
   empty ones before it are deleted. *)
CheckOldestBatch ==
    IF oldestBatch # NoBatch THEN UNCHANGED <<oldestBatch, oldBatches, exist>>
    ELSE \E k \in 0..Len(oldBatches) :
            /\ \A i \in 1..k : files[oldBatches[i]] = <<>>
            /\ k < Len(oldBatches) => files[oldBatches[k + 1]] # <<>>
            /\ oldestBatch' = IF k < Len(oldBatches) THEN oldBatches[k + 1] ELSE NoBatch
            /\ oldBatches' = IF k < Len(oldBatches)
                             THEN SubSeq(oldBatches, k + 2, Len(oldBatches)) ELSE <<>>
            /\ exist' = exist \ {oldBatches[i] : i \in 1..k}

(* FileEventBatch::getEventsForUpload: the longest start of s within the two
   limits, or nothing at all for an empty file. *)
Fits(s, n, a) == n <= a[1] /\ FileSize(SubSeq(s, 1, n)) <= a[2]

GetEventsForUpload(a) ==
    /\ list = NoList
    /\ CheckOldestBatch
    /\ UNCHANGED <<files, newestBatchId, limit, refused>>
    /\ IF files[Target'] = <<>> \/ a[1] = 0
       THEN UNCHANGED <<list, source>>
       ELSE \E n \in 0..Len(files[Target']) :
              /\ n = 0 \/ Fits(files[Target'], n, a)
              /\ n < Len(files[Target']) => ~Fits(files[Target'], n + 1, a)
              /\ list' = SubSeq(files[Target'], 1, n)
              /\ source' = Target'

(* Mutant: the pointer to a file that has become empty is kept. *)
OnEventsUploaded_KeepsPointer ==
    LET rest == SubSeq(files[Target], Len(list) + 1, Len(files[Target]))
    IN  /\ list # NoList
        /\ files' = [files EXCEPT ![Target] = rest]
        /\ list' = NoList /\ source' = NoBatch
        /\ UNCHANGED <<exist, oldestBatch, oldBatches, newestBatchId, limit, refused>>

(* onEventsUploaded: the file loses the events of the list; an old file that
   has become empty is deleted. *)
OnEventsUploaded ==
    LET rest == SubSeq(files[Target], Len(list) + 1, Len(files[Target]))
    IN  /\ list # NoList
        /\ files' = [files EXCEPT ![Target] = rest]
        /\ IF oldestBatch # NoBatch /\ rest = <<>>
             THEN oldestBatch' = NoBatch /\ exist' = exist \ {oldestBatch}
             ELSE UNCHANGED <<oldestBatch, exist>>
        /\ list' = NoList /\ source' = NoBatch
        /\ UNCHANGED <<oldBatches, newestBatchId, limit, refused>>

(* The upload failed: the list is destroyed. *)
DropList == /\ list # NoList
            /\ list' = NoList /\ source' = NoBatch
            /\ UNCHANGED <<files, exist, oldestBatch, oldBatches, newestBatchId,
                           limit, refused>>

SetFileLimits == /\ limit' \in Limits
                 /\ UNCHANGED <<files, exist, oldestBatch, oldBatches,
                                newestBatchId, list, source, refused>>

(* The numbers in S in ascending order (getBatches sorts its list). *)
Ascending(S) ==
    {s \in [1..Cardinality(S) -> S] :
        \A i, j \in 1..Cardinality(S) : i < j => s[i] < s[j]}

(* The constructor: the newest file is the one with the highest number. *)
Restart ==
    /\ newestBatchId' \in exist
    /\ \A i \in exist : i <= newestBatchId'
    /\ oldBatches' \in Ascending(exist \ {newestBatchId'})
    /\ oldestBatch' = NoBatch
    /\ limit' \in Limits
    /\ list' = NoList /\ source' = NoBatch
    /\ UNCHANGED <<files, exist, refused>>

Next == \/ \E e \in Events : AddEvent(e) \/ AddEventToNextFile(e)
        \/ \E a \in UploadArgs : GetEventsForUpload(a)
        \/ OnEventsUploaded \/ DropList \/ SetFileLimits \/ Restart

Spec == Init /\ [][Next]_vars

-----------------------------------------------------------------------------
(* Mutant: the files found by the constructor are not looked at. *)
HasEvents_NoOldFiles == oldestBatch # NoBatch \/ files[newestBatchId] # <<>>

(* hasEvents() *)
HasEvents == \/ oldBatches # <<>> \/ oldestBatch # NoBatch
             \/ files[newestBatchId] # <<>>

(* onEventsUploaded goes by the pointers of its own time, not by the list: it
   must still find the file the list was taken from, and the list must still
   be the start of that file, although events were added and files were
   replaced while the upload was under way. *)
ListComesFromTarget ==
    list # NoList => source = Target /\ IsPrefix(list, files[Target])

(* A file is held as the oldest batch only while it has events ("we found an
   old batch with events, good"; "if the batch has no more events, reset the
   pointer"), as long as no event was too large for an empty file.  (While an
   empty file is held, hasEvents() stays true and getEventsForUpload returns
   nothing, and no event is uploaded until the next start.) *)
OldestHasEvents ==
    oldestBatch # NoBatch /\ files[oldestBatch] = <<>> => refused # {}

(* hasEvents() is not false while the directory still holds an event. *)
HasEventsIsComplete == (\E i \in exist : files[i] # <<>>) => HasEvents

AllFiles == (IF oldestBatch # NoBatch THEN <<oldestBatch>> ELSE <<>>)
                \o oldBatches \o <<newestBatchId>>

Batch == INSTANCE EventBatch
             WITH queue <- FlattenSeq([i \in DOMAIN AllFiles |-> files[AllFiles[i]]]),
                  handed <- IF list = NoList THEN 0 ELSE Len(list)

(* The files together implement the FIFO batch: no event is lost, uploaded out
   of order or removed unsent, over any number of files and restarts. *)
ImplementsEventBatch == Batch!Spec
===============================================================================
