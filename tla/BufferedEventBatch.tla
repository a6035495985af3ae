-------------------------- MODULE BufferedEventBatch --------------------------
(***************************************************************************)
(* cll::BufferedEventBatch: a MemoryEventBatch in front of another batch   *)
(* (the files).  Events are added to memory; a full memory is flushed to   *)
(* the wrapped batch; uploads take from the wrapped batch, from memory, or *)
(* from both in one merged list.                                           *)
(*                                                                         *)
(* The wrapped batch is the FIFO of EventBatch; which of its events fit a  *)
(* size limit is left open.  Every method holds `mutex'; flushInternal     *)
(* moves one event per step while holding it, because the comment on the   *)
(* mutex is about what others see meanwhile.  Each event is added once.    *)
(***************************************************************************)
EXTENDS Integers, Sequences, SequencesExt, FiniteSetsExt

CONSTANTS Events,
          BufferedItemCount,   \* how many events memory takes
          MaxCount,            \* the maxCount argument of getEventsForUpload
          Refused,             \* events the wrapped batch does not accept
          NoEvent, NoList, Null

ASSUME BufferAssumption ==
    /\ BufferedItemCount \in Nat \ {0}
    /\ MaxCount \in Nat \ {0}
    /\ Refused \subseteq Events /\ NoEvent \notin Events /\ Null \notin Seq(Events)

VARIABLES mem, wrapped,
          mutex,      \* "free", or "flush" while flushInternal runs
          items,      \* what flushInternal has taken from memory
          adding,     \* the event whose addEvent called flushInternal
          list,       \* [w, m]: the parts of the list that is out; Null: no part
          corrupt,    \* an erase past the end of `items' has happened
          added, sent,   \* history: events accepted, events of uploaded lists
          moved,      \* history: memory was flushed under the list that is out,
          mistaken    \* and such a list with a part from memory was acknowledged

vars == <<mem, wrapped, mutex, items, adding, list, corrupt, added, sent, moved, mistaken>>

Parts == Seq(Events) \cup {Null}

TypeOK ==
    /\ mem \in Seq(Events) /\ Len(mem) <= BufferedItemCount
    /\ wrapped \in Seq(Events) /\ items \in Seq(Events)
    /\ mutex \in {"free", "flush"}
    /\ adding \in Events \cup {NoEvent}
    /\ list = NoList \/ (list.w \in Parts /\ list.m \in Parts)
    /\ corrupt \in BOOLEAN
    /\ added \subseteq Events /\ sent \subseteq added
    /\ moved \in BOOLEAN /\ mistaken \in BOOLEAN

Init ==
    /\ mem = <<>> /\ wrapped = <<>> /\ mutex = "free" /\ items = <<>>
    /\ adding = NoEvent /\ list = NoList /\ corrupt = FALSE
    /\ added = {} /\ sent = {} /\ moved = FALSE /\ mistaken = FALSE

Free == mutex = "free" /\ ~corrupt

-----------------------------------------------------------------------------
(* addEvent when memory has room. *)
AddEvent(e) ==
    /\ Free /\ e \notin added
    /\ Len(mem) < BufferedItemCount
    /\ mem' = Append(mem, e)
    /\ added' = added \cup {e}
    /\ UNCHANGED <<wrapped, mutex, items, adding, list, corrupt, sent, moved, mistaken>>

(* MemoryEventBatch::transferAllEvents, at the start of flushInternal. *)
TransferAllEvents ==
    /\ mutex' = "flush"
    /\ items' = mem
    /\ mem' = <<>>
    /\ moved' = (list # NoList)

(* addEvent when memory is full. *)
AddEventFlushes(e) ==
    /\ Free /\ e \notin added
    /\ Len(mem) >= BufferedItemCount
    /\ TransferAllEvents
    /\ adding' = e
    /\ added' = added \cup {e}
    /\ UNCHANGED <<wrapped, list, corrupt, sent, mistaken>>

(* flush(), called by the destructor when no upload is under way. *)
Flush ==
    /\ Free /\ list = NoList
    /\ TransferAllEvents
    /\ adding' = NoEvent
    /\ UNCHANGED <<wrapped, list, corrupt, added, sent, mistaken>>

(* Mutant: the loop ends at the first event that is not accepted. *)
FlushOne_StopsAtRefusal ==
    /\ mutex = "flush" /\ items # <<>>
    /\ wrapped' = IF Head(items) \in Refused THEN wrapped
                  ELSE Append(wrapped, Head(items))
    /\ items' = IF Head(items) \in Refused THEN <<>> ELSE Tail(items)
    /\ UNCHANGED <<mem, mutex, adding, list, corrupt, added, sent, moved, mistaken>>

(* One turn of flushInternal's loop: an event the wrapped batch does not
   accept is only mentioned in the log. *)
FlushOne ==
    /\ mutex = "flush" /\ items # <<>>
    /\ wrapped' = IF Head(items) \in Refused THEN wrapped
                  ELSE Append(wrapped, Head(items))
    /\ items' = Tail(items)
    /\ UNCHANGED <<mem, mutex, adding, list, corrupt, added, sent, moved, mistaken>>

(* The end of the loop; addEvent now adds its own event. *)
FlushDone ==
    /\ mutex = "flush" /\ items = <<>>
    /\ mem' = IF adding = NoEvent THEN mem ELSE Append(mem, adding)
    /\ adding' = NoEvent
    /\ mutex' = "free"
    /\ UNCHANGED <<wrapped, items, list, corrupt, added, sent, moved, mistaken>>

(* Mutant: hasEvents does not take the mutex. *)
HasEventsReturns_NoLock(result) ==
    ~corrupt /\ result = (mem # <<>> \/ wrapped # <<>>)

(* hasEvents() can return this result now. *)
HasEventsReturns(result) ==
    Free /\ result = (mem # <<>> \/ wrapped # <<>>)

(* How many of the first events of s a list may hold: at most limit, fewer
   when they are too large. *)
Counts(s, limit) == 0..Min({limit, Len(s)})

FirstOf(s, n) == SubSeq(s, 1, n)

(* getEventsForUpload, which EventManager calls after hasEvents().  `more' is
   hasMoreEvents() of the wrapped list: true when the list is not all there is,
   and possibly when it is (the oldest of several files always says so).  A
   list from the files alone is also what is left when the size limit is used
   up.  (The wrapped batch has a list whenever it has events.  MultiFileEventBatch
   has none while its oldest file is empty, a state that a refused event can leave
   behind, see OldestHasEvents there: the code then looks at the memory, and with
   an empty one as well its list has no part at all.  That is not modelled.) *)
GetEventsForUpload ==
    /\ Free /\ list = NoList
    /\ HasEventsReturns(TRUE)
    /\ \/ \E n \in Counts(wrapped, MaxCount), more \in BOOLEAN :
            /\ wrapped # <<>>
            /\ n < Len(wrapped) => more
            /\ \/ list' = [w |-> FirstOf(wrapped, n), m |-> Null]
               \/ /\ ~more /\ mem # <<>> /\ n < MaxCount
                  /\ \E k \in Counts(mem, MaxCount - n) :
                       list' = [w |-> FirstOf(wrapped, n), m |-> FirstOf(mem, k)]
       \/ /\ wrapped = <<>>
          /\ \E k \in Counts(mem, MaxCount) :
                list' = [w |-> Null,
                         m |-> IF mem = <<>> THEN Null ELSE FirstOf(mem, k)]
    /\ moved' = FALSE
    /\ UNCHANGED <<mem, wrapped, mutex, items, adding, corrupt, added, sent, mistaken>>

EventsOf(part) == IF part = Null THEN <<>> ELSE part

(* Mutant: of a merged list only the part in memory is removed. *)
OnEventsUploaded_ForgetsFiles ==
    /\ Free /\ list # NoList
    /\ list.w # Null \/ list.m # Null
    /\ wrapped' = IF list.m # Null THEN wrapped
                  ELSE SubSeq(wrapped, Len(EventsOf(list.w)) + 1, Len(wrapped))
    /\ mem' = SubSeq(mem, Len(EventsOf(list.m)) + 1, Len(mem))
    /\ sent' = sent \cup ToSet(EventsOf(list.w)) \cup ToSet(EventsOf(list.m))
    /\ list' = NoList
    /\ mistaken' = (mistaken \/ (moved /\ list.m # Null))
    /\ UNCHANGED <<mutex, items, adding, corrupt, added, moved>>

(* onEventsUploaded: the wrapped batch and memory each lose as many events as
   their part of the list has.  vector::erase with an end past the vector's
   end is undefined: the vector is corrupt from then on. *)
OnEventsUploaded ==
    LET n == Len(EventsOf(list.w))
        k == Len(EventsOf(list.m))
    IN  /\ Free /\ list # NoList
        /\ list.w # Null \/ list.m # Null
        /\ wrapped' = SubSeq(wrapped, n + 1, Len(wrapped))
        /\ mem' = SubSeq(mem, k + 1, Len(mem))
        /\ corrupt' = (k > Len(mem))
        /\ sent' = sent \cup ToSet(EventsOf(list.w)) \cup ToSet(EventsOf(list.m))
        /\ list' = NoList
        /\ mistaken' = (mistaken \/ (moved /\ list.m # Null))
        /\ UNCHANGED <<mutex, items, adding, added, moved>>

(* The upload failed: the list is destroyed. *)
DropList ==
    /\ list # NoList /\ ~corrupt
    /\ list' = NoList
    /\ UNCHANGED <<mem, wrapped, mutex, items, adding, corrupt, added, sent, moved, mistaken>>

Next == \/ \E e \in Events : AddEvent(e) \/ AddEventFlushes(e)
        \/ Flush \/ FlushOne \/ FlushDone
        \/ GetEventsForUpload \/ OnEventsUploaded \/ DropList

Spec == Init /\ [][Next]_vars

-----------------------------------------------------------------------------
Stored == ToSet(mem) \cup ToSet(wrapped) \cup ToSet(items) \cup {adding}

(* "A edge case in flush() is possible where the list would be transferred and
   for a while nothing would have events": hasEvents() does not say that there
   is nothing to upload while any part of the batch, the events that are being
   moved included, has an event. *)
HasEventsIsComplete == HasEventsReturns(FALSE) => Stored \subseteq {NoEvent}

(* An event leaves the batch by being uploaded and in no other way, unless the
   wrapped batch refused it; one that is refused takes no other with it.  This
   holds until a list with a part from memory is acknowledged after memory was
   flushed: that part is counted off from events that came later, and memory
   may even be erased past its end.  Until then it never is. *)
OnlySentIsRemoved ==
    /\ TypeOK
    /\ corrupt => mistaken
    /\ ~mistaken => added \ Refused \subseteq sent \cup Stored

(* The events of s that the wrapped batch does not refuse, in their order. *)
Kept(s) ==
    LET kept[i \in 0..Len(s)] ==
            IF i = 0 THEN <<>>
            ELSE IF s[i] \in Refused THEN kept[i - 1] ELSE Append(kept[i - 1], s[i])
    IN  kept[Len(s)]

Batch == INSTANCE EventBatch
             WITH queue <- Kept(wrapped \o items \o mem),
                  handed <- IF list = NoList THEN 0
                            ELSE Len(Kept(EventsOf(list.w) \o EventsOf(list.m)))

(* Files and memory together are one FIFO batch up to such an acknowledgement,
   flushes while a list from the files is out included. *)
ImplementsEventBatch == Batch!Init /\ [][mistaken' \/ Batch!Next \/ UNCHANGED Batch!vars]_vars
===============================================================================
