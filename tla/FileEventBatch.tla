---------------------------- MODULE FileEventBatch ----------------------------
(***************************************************************************)
(* cll::FileEventBatch: events kept in one file, one per line, behind one  *)
(* file descriptor.  The file is modelled byte by byte, because what can   *)
(* go wrong is in the bytes: the descriptor's offset, short writes, the    *)
(* in-place compaction after an upload, a crash between two system calls.  *)
(* Byte k of event e is <<e, k>>; its last byte is the newline that ends   *)
(* the line; a hole left in the file reads as NUL bytes.                   *)
(*                                                                         *)
(* Every method holds streamMutex from start to end, so each is one step.  *)
(* The bounds: the file is smaller than the 1 MiB buffers, so one read and *)
(* one write move it; every event is added at most once; there are at most *)
(* MaxFaults crashes and failed writes.                                    *)
(***************************************************************************)
EXTENDS Integers, Sequences, SequencesExt, FiniteSetsExt

CONSTANTS Events,        \* the events that may be added
          Size,            \* their sizes in the file, newline included
          NoEvent,         \* what a NUL byte belongs to
          NoList,          \* no list is with the uploader
          Limits,          \* <<maxCount, maxSize>> pairs for setLimit; 0: none
          UploadArgs,      \* <<maxCount, maxSize>> pairs for getEventsForUpload
          MaxFaults        \* bound: how many crashes and failed writes happen

Nul == <<NoEvent, 0>>
FileBytes == (Events \X Nat) \cup {Nul}

ASSUME SizeAssumption ==
    /\ Size \in [Events -> Nat \ {0, 1}]
    /\ UploadArgs \subseteq Nat \X Nat
    /\ MaxFaults \in Nat
    /\ NoList \notin Seq(FileBytes)

VARIABLES disk,          \* the bytes of the file
          fd,            \* the descriptor is open
          pos,           \* the descriptor's offset
          streamAtEnd, fileSize, eventCount, finalized,
          limit,         \* <<maxCount, maxSize>>
          list,          \* the bytes handed to the uploader, or NoList
          accepted,      \* history: the events addEvent returned true for
          acked,         \* history: the events of the lists acknowledged
          faults         \* history: the crashes and failed writes so far

vars == <<disk, fd, pos, streamAtEnd, fileSize, eventCount, finalized, limit,
          list, accepted, acked, faults>>

-----------------------------------------------------------------------------
Bytes(e) == [k \in 1..Size[e] |-> <<e, k>>]

IsNewline(b) == b # Nul /\ b[2] = Size[b[1]]
Newlines(d) == {i \in DOMAIN d : IsNewline(d[i])}

(* write(fd, b) at offset p; a gap after the old end is filled with NULs, and
   a write of nothing leaves no gap. *)
WriteAt(d, p, b) ==
    IF b = <<>> THEN d
    ELSE [i \in 1..Max({Len(d), p + Len(b)}) |->
        IF i > p /\ i <= p + Len(b) THEN b[i - p]
        ELSE IF i <= Len(d) THEN d[i] ELSE Nul]

(* ftruncate(fd, n) *)
Truncate(d, n) == SubSeq(d, 1, n)

(* The events of the lines of d, in order. *)
EventsIn(d) ==
    LET read[n \in 0..Len(d)] ==
            IF n = 0 THEN <<>>
            ELSE IF IsNewline(d[n]) THEN Append(read[n - 1], d[n][1])
            ELSE read[n - 1]
    IN  read[Len(d)]

(* The events that are whole lines of d. *)
Intact(d) ==
    {e \in Events : \E i \in Newlines(d) :
        LET first == i - Size[e] + 1
        IN  /\ first >= 1
            /\ SubSeq(d, first, i) = Bytes(e)
            /\ first > 1 => first - 1 \in Newlines(d)}

-----------------------------------------------------------------------------
(* One more crash or failed write. *)
Fault(kind) == Len(faults) < MaxFaults /\ faults' = Append(faults, kind)

WriteFailed == "write" \in ToSet(faults)

(* Mutant: the size is not corrected after the file was trimmed. *)
Open_KeepsSize(d) ==
    LET lastNewline == Max(Newlines(d) \cup {0})
    IN  /\ disk' = Truncate(d, lastNewline)
        /\ fileSize' = Len(d)
        /\ eventCount' = Cardinality(Newlines(d))
        /\ fd' = TRUE
        /\ pos' = Len(d)
        /\ streamAtEnd' = FALSE
        /\ finalized' = FALSE
        /\ limit' \in Limits
        /\ list' = NoList

(* The constructor on a file with content d: seekToEndAndGetFileSize, then
   countEventsInFile, which cuts off what follows the last newline. *)
Open(d) ==
    LET lastNewline == Max(Newlines(d) \cup {0})
    IN  /\ disk' = Truncate(d, lastNewline)
        /\ fileSize' = lastNewline
        /\ eventCount' = Cardinality(Newlines(d))
        /\ fd' = TRUE
        /\ pos' = Len(d)
        /\ streamAtEnd' = FALSE
        /\ finalized' = FALSE
        /\ limit' \in Limits
        /\ list' = NoList

Init ==
    /\ disk = <<>> /\ fd = TRUE /\ pos = 0 /\ streamAtEnd = FALSE
    /\ fileSize = 0 /\ eventCount = 0 /\ finalized = FALSE
    /\ limit \in Limits
    /\ list = NoList
    /\ accepted = {} /\ acked = {} /\ faults = <<>>

(* The destructor, and a later run of the program opening the same file.  It is
   also what follows when onEventsUploaded cannot open its second descriptor:
   the exception ends the process and the file is as it was. *)
Reopen == Open(disk) /\ UNCHANGED <<accepted, acked, faults>>

(* open() fails: every later call returns early, the file stays as it is. *)
OpenFails ==
    /\ fd' = FALSE
    /\ fileSize' = 0 /\ eventCount' = 0
    /\ pos' = 0 /\ streamAtEnd' = TRUE /\ finalized' = FALSE
    /\ list' = NoList
    /\ UNCHANGED <<disk, limit, accepted, acked, faults>>

SetLimit == /\ limit' \in Limits
            /\ UNCHANGED <<disk, fd, pos, streamAtEnd, fileSize, eventCount,
                           finalized, list, accepted, acked, faults>>

SetFinalized == /\ ~finalized
                /\ finalized' = TRUE
                /\ UNCHANGED <<disk, fd, pos, streamAtEnd, fileSize, eventCount,
                               limit, list, accepted, acked, faults>>

CanAddEvent(e) ==
    /\ ~finalized
    /\ limit[2] = 0 \/ fileSize + Size[e] <= limit[2]
    /\ limit[1] = 0 \/ eventCount + 1 <= limit[1]

(* Where addEvent writes: seekToEndAndGetFileSize unless streamAtEnd. *)
WriteOffset == IF streamAtEnd THEN pos ELSE Len(disk)
SizeBeforeWrite == IF streamAtEnd THEN fileSize ELSE Len(disk)

AddEvent(e) ==
    /\ fd /\ CanAddEvent(e) /\ e \notin accepted
    /\ disk' = WriteAt(disk, WriteOffset, Bytes(e))
    /\ pos' = WriteOffset + Size[e]
    /\ streamAtEnd' = TRUE
    /\ fileSize' = SizeBeforeWrite + Size[e]
    /\ eventCount' = eventCount + 1
    /\ accepted' = accepted \cup {e}
    /\ UNCHANGED <<fd, finalized, limit, list, acked, faults>>

(* write() takes k bytes of the event and then fails: unless it took nothing,
   the file is cut back to its old size; addEvent returns false. *)
AddEventFails(e, k) ==
    /\ fd /\ CanAddEvent(e) /\ e \notin accepted
    /\ disk' = IF k = 0 THEN disk
               ELSE Truncate(WriteAt(disk, WriteOffset, SubSeq(Bytes(e), 1, k)),
                             SizeBeforeWrite)
    /\ pos' = WriteOffset + k
    /\ streamAtEnd' = TRUE
    /\ fileSize' = SizeBeforeWrite
    /\ Fault("write")
    /\ UNCHANGED <<fd, eventCount, finalized, limit, list, accepted, acked>>

(* The list handed out: the whole lines among the first maxSize bytes, at most
   maxCount of them (none when the first event is larger than maxSize). *)
LinesUpTo(d, maxCount, maxSize) ==
    LET Line(i) == Cardinality({j \in Newlines(d) : j <= i})
        ends == {i \in Newlines(d) : i <= maxSize /\ Line(i) <= maxCount}
    IN  SubSeq(d, 1, Max(ends \cup {0}))

GetEventsForUpload(maxCount, maxSize) ==
    /\ fd /\ fileSize # 0 /\ maxCount # 0
    /\ list = NoList
    /\ pos' = Min({maxSize, fileSize, Len(disk)})
    /\ streamAtEnd' = FALSE
    /\ list' = LinesUpTo(disk, maxCount, pos')
    /\ UNCHANGED <<disk, fd, fileSize, eventCount, finalized, limit, accepted,
                   acked, faults>>

(* The upload failed: the list is destroyed. *)
DropList == /\ list # NoList
            /\ list' = NoList
            /\ UNCHANGED <<disk, fd, pos, streamAtEnd, fileSize, eventCount,
                           finalized, limit, accepted, acked, faults>>

Acknowledge == /\ list' = NoList
               /\ acked' = acked \cup Intact(list)
               /\ UNCHANGED <<finalized, limit, accepted>>

(* Mutant: the file is emptied whatever the list held. *)
UploadedAll_AnyList ==
    /\ list # NoList /\ fd
    /\ fileSize' = 0
    /\ eventCount' = 0
    /\ disk' = <<>>
    /\ fd' = ~finalized
    /\ streamAtEnd' = FALSE
    /\ Acknowledge
    /\ UNCHANGED <<pos, faults>>

(* onEventsUploaded when the list is the whole file: the file is emptied, or
   closed and removed once the batch is finalized. *)
UploadedAll ==
    /\ list # NoList /\ fd /\ fileSize = Len(list)
    /\ fileSize' = 0
    /\ eventCount' = 0
    /\ disk' = <<>>
    /\ fd' = ~finalized
    /\ Acknowledge
    /\ UNCHANGED <<pos, streamAtEnd, faults>>

(* Mutant: the copy starts one byte too late. *)
Rest_OffByOne == SubSeq(disk, Len(list) + 2, Len(disk))

(* What onEventsUploaded keeps: the bytes after those of the list. *)
Rest == SubSeq(disk, Len(list) + 1, Len(disk))

(* onEventsUploaded otherwise: the rest of the file is copied to its start and
   the file is cut after the n bytes that were written.  A failed write ends
   the copy early, and what was not copied is cut off all the same. *)
UploadedPart(n) ==
    /\ list # NoList /\ fd /\ fileSize # Len(list)
    /\ \/ n = Len(Rest) /\ UNCHANGED faults
       \/ n < Len(Rest) /\ Fault("write")
    /\ disk' = SubSeq(Rest, 1, n)
    /\ pos' = n
    /\ fileSize' = n
    /\ eventCount' = eventCount - Cardinality(Newlines(list))
    /\ Acknowledge
    /\ UNCHANGED <<fd, streamAtEnd>>

-----------------------------------------------------------------------------
(* The process is killed after addEvent's write took k bytes of e. *)
CrashInAddEvent(e, k) ==
    /\ fd /\ CanAddEvent(e) /\ e \notin accepted
    /\ Open(WriteAt(disk, WriteOffset, SubSeq(Bytes(e), 1, k)))
    /\ Fault("crash")
    /\ UNCHANGED <<accepted, acked>>

(* Mutant: the file is cut first and copied afterwards. *)
CrashInUploaded_CutsFirst(n) ==
    /\ list # NoList /\ fd /\ fileSize # Len(list) /\ n = Len(Rest)
    /\ Open(Truncate(disk, Len(Rest)))
    /\ acked' = acked \cup Intact(list)
    /\ Fault("crash")
    /\ UNCHANGED accepted

(* The process is killed in onEventsUploaded after n bytes of the rest were
   copied down and before ftruncate: the end of the file is still there a second
   time, or the copy stops in the middle.  The events of the list have been
   uploaded. *)
CrashInUploaded(n) ==
    /\ list # NoList /\ fd /\ fileSize # Len(list) /\ n <= Len(Rest)
    /\ Open(WriteAt(disk, 0, SubSeq(Rest, 1, n)))
    /\ acked' = acked \cup Intact(list)
    /\ Fault(IF n = Len(Rest) THEN "crash" ELSE "copy")
    /\ UNCHANGED accepted

Next ==
    \/ Reopen \/ OpenFails \/ SetLimit \/ SetFinalized
    \/ \E e \in Events : AddEvent(e)
    \/ \E e \in Events : \E k \in 0..(Size[e] - 1) :
           AddEventFails(e, k)
    \/ \E e \in Events : \E k \in 0..Size[e] : CrashInAddEvent(e, k)
    \/ \E a \in UploadArgs : GetEventsForUpload(a[1], a[2])
    \/ DropList \/ UploadedAll
    \/ \E n \in 0..Len(disk) : UploadedPart(n) \/ CrashInUploaded(n)

Spec == Init /\ [][Next]_vars

-----------------------------------------------------------------------------
TypeOK ==
    /\ disk \in Seq(FileBytes)
    /\ list \in Seq(FileBytes) \cup {NoList}
    /\ pos \in Nat /\ fileSize \in Nat /\ eventCount \in Nat
    /\ limit \in Limits
    /\ accepted \subseteq Events /\ acked \subseteq Events
    /\ faults \in Seq({"crash", "copy", "write"})

(* What the object believes about the file is true: the size and the count
   that canAddEvent compares with the limits and the offset that addEvent
   relies on, whatever was added while a list was with the uploader, and also
   after a crash.  After a failed write, which does not move the offset back,
   the size is still never more than the file holds: no list can be built from
   bytes that are not there. *)
RecordsMatchFile ==
    /\ TypeOK
    /\ fd => fileSize <= Len(disk)
    /\ fd /\ ~WriteFailed =>
           /\ fileSize = Len(disk)
           /\ eventCount = Cardinality(Newlines(disk))
           /\ streamAtEnd => pos = Len(disk)

(* The file holds whole events and nothing else until the first crash or failed
   write.  (Not after a crash in onEventsUploaded: countEventsInFile trims what
   follows the last newline, not a torn event in the middle.)  Whatever fails,
   the list with the uploader is a prefix of the file that ends with a line, so
   removing its bytes removes its events. *)
LinesAreWhole ==
    LET q == EventsIn(disk)
    IN  /\ faults = <<>> => disk = FlattenSeq([i \in DOMAIN q |-> Bytes(q[i])])
        /\ list # NoList => /\ IsPrefix(list, disk)
                            /\ list # <<>> => IsNewline(Last(list))

(* An event addEvent accepted is in the file until it has been uploaded, also
   when the process is killed inside addEvent or between the copy and ftruncate
   of onEventsUploaded; only a failed write, and a kill in the middle of the
   copy, which goes over the bytes it has not read yet, can lose one. *)
NothingAcceptedIsLost ==
    ~WriteFailed /\ "copy" \notin ToSet(faults) => accepted \subseteq acked \cup Intact(disk)

Batch == INSTANCE EventBatch
             WITH queue <- EventsIn(disk),
                  handed <- IF list = NoList THEN 0
                            ELSE Cardinality(Newlines(list))

(* The file implements the FIFO batch: until the first crash or failed write the
   bytes of the lines behave as the queue of events the interface promises. *)
ImplementsEventBatch ==
    /\ Batch!Init
    /\ [][faults' = <<>> => Batch!Next \/ UNCHANGED <<EventsIn(disk), list>>]_vars
===============================================================================
