----------------------- MODULE BufferedEventBatchProofs -----------------------
(***************************************************************************)
(* Proofs about BufferedEventBatch for any events, any size of the memory  *)
(* and any choice of the events the files refuse: hasEvents() is complete, *)
(* and until the one case the code gets wrong nothing leaves the batch     *)
(* that was not uploaded and files and memory are one FIFO batch.          *)
(***************************************************************************)
EXTENDS BufferedEventBatch, SequenceTheorems, WellFoundedInduction, TLAPS

Begins(p, s) == Len(p) <= Len(s) /\ \A i \in 1..Len(p) : p[i] = s[i]

Out == list # NoList
OutW == EventsOf(list.w)
OutM == EventsOf(list.m)

(* Nothing is between memory and files while the mutex is free, and nothing is
   in memory while it is not. *)
MutexInv == IF mutex = "free" THEN items = <<>> /\ adding = NoEvent ELSE mem = <<>>

(* A list that is out is the beginning of the files and, as long as memory has
   not been flushed under it, of memory. *)
ListInv == Out => /\ Begins(OutW, wrapped)
                  /\ ~moved => Begins(OutM, mem)
                  /\ ToSet(OutW) \cup ToSet(OutM) \subseteq added

AddedInv == Stored \subseteq added \cup {NoEvent}

KeptInv == ~mistaken => added \ Refused \subseteq sent \cup Stored

BufferInv ==
    TypeOK /\ MutexInv /\ ListInv /\ AddedInv /\ KeptInv /\ (corrupt => mistaken)

-----------------------------------------------------------------------------
LEMMA EmptySet == ToSet(<<>>) = {}
BY DEF ToSet

LEMMA AppendSet ==
    ASSUME NEW S, NEW s \in Seq(S), NEW e
    PROVE  ToSet(Append(s, e)) = ToSet(s) \cup {e}
<1>1. \A i \in 1..Len(s) : Append(s, e)[i] = s[i]
  OBVIOUS
<1>2. Append(s, e)[Len(s) + 1] = e /\ DOMAIN Append(s, e) = 1..(Len(s) + 1)
  OBVIOUS
<1>3. DOMAIN s = 1..Len(s) /\ 1..(Len(s) + 1) = 1..Len(s) \cup {Len(s) + 1}
  OBVIOUS
<1> QED BY <1>1, <1>2, <1>3 DEF ToSet

LEMMA HeadSet ==
    ASSUME NEW S, NEW s \in Seq(S), s # <<>>
    PROVE  ToSet(s) = {Head(s)} \cup ToSet(Tail(s))
<1>1. DOMAIN s = 1..Len(s) /\ DOMAIN Tail(s) = 1..(Len(s) - 1) /\ Len(s) \in Nat /\ Len(s) >= 1
  OBVIOUS
<1>2. Head(s) = s[1] /\ \A i \in 1..(Len(s) - 1) : Tail(s)[i] = s[i + 1]
  OBVIOUS
<1>3. \A i \in 1..Len(s) : i = 1 \/ i - 1 \in 1..(Len(s) - 1)
  BY <1>1
<1>4. \A x \in ToSet(s) : x \in {Head(s)} \cup ToSet(Tail(s))
  <2> SUFFICES ASSUME NEW i \in 1..Len(s) PROVE s[i] \in {Head(s)} \cup ToSet(Tail(s))
    BY <1>1 DEF ToSet
  <2>1. CASE i = 1
    BY <1>2, <2>1
  <2>2. CASE i # 1
    <3>1. i - 1 \in DOMAIN Tail(s) /\ Tail(s)[i - 1] = s[i]
      BY <1>1, <1>2, <1>3, <2>2
    <3> QED BY <3>1 DEF ToSet
  <2> QED BY <2>1, <2>2
<1>5. Head(s) \in ToSet(s)
  BY <1>1, <1>2 DEF ToSet
<1>6. \A x \in ToSet(Tail(s)) : x \in ToSet(s)
  <2> SUFFICES ASSUME NEW i \in 1..(Len(s) - 1) PROVE Tail(s)[i] \in ToSet(s)
    BY <1>1 DEF ToSet
  <2>1. i + 1 \in DOMAIN s /\ Tail(s)[i] = s[i + 1]
    BY <1>1, <1>2
  <2> QED BY <2>1 DEF ToSet
<1> QED BY <1>4, <1>5, <1>6

(* What is left of s without its first n elements. *)
LEMMA RestSet ==
    ASSUME NEW S, NEW s \in Seq(S), NEW n \in Nat
    PROVE  LET r == SubSeq(s, n + 1, Len(s))
           IN  /\ r \in Seq(S) /\ Len(r) <= Len(s) /\ ToSet(r) \subseteq ToSet(s)
               /\ \A i \in 1..Len(s) : i <= n \/ s[i] \in ToSet(r)
<1> DEFINE r == SubSeq(s, n + 1, Len(s))
<1>1. /\ r \in Seq(S) /\ DOMAIN r = 1..Len(r)
      /\ Len(r) = IF n < Len(s) THEN Len(s) - n ELSE 0
      /\ \A i \in 1..Len(r) : r[i] = s[i + n]
  OBVIOUS
<1>2. Len(r) <= Len(s)
  BY <1>1
<1>3. ToSet(r) \subseteq ToSet(s)
  <2> SUFFICES ASSUME NEW i \in 1..Len(r) PROVE r[i] \in ToSet(s)
    BY <1>1 DEF ToSet
  <2>1. i + n \in DOMAIN s
    BY <1>1
  <2> QED BY <1>1, <2>1 DEF ToSet
<1>4. ASSUME NEW i \in 1..Len(s), i > n PROVE s[i] \in ToSet(r)
  <2>1. i - n \in 1..Len(r) /\ r[i - n] = s[i]
    BY <1>1, <1>4
  <2> QED BY <1>1, <2>1 DEF ToSet
<1> QED BY <1>1, <1>2, <1>3, <1>4

LEMMA PrefixSets ==
    ASSUME NEW S, NEW s \in Seq(S), NEW p \in Seq(S), Begins(p, s)
    PROVE  /\ ToSet(p) \subseteq ToSet(s)
           /\ ToSet(s) \subseteq ToSet(p) \cup ToSet(SubSeq(s, Len(p) + 1, Len(s)))
<1>1. DOMAIN s = 1..Len(s) /\ DOMAIN p = 1..Len(p) /\ Len(p) \in Nat /\ Len(s) \in Nat
  OBVIOUS
<1>2. Len(p) <= Len(s) /\ \A i \in 1..Len(p) : p[i] = s[i]
  BY DEF Begins
<1>3. ToSet(p) \subseteq ToSet(s)
  BY <1>1, <1>2 DEF ToSet
<1>4. ASSUME NEW i \in 1..Len(s)
      PROVE  s[i] \in ToSet(p) \cup ToSet(SubSeq(s, Len(p) + 1, Len(s)))
  <2>1. CASE i <= Len(p)
    BY <1>1, <1>2, <2>1 DEF ToSet
  <2>2. CASE i > Len(p)
    BY <1>1, <2>2, RestSet
  <2> QED BY <1>1, <2>1, <2>2
<1>5. ToSet(s) \subseteq ToSet(p) \cup ToSet(SubSeq(s, Len(p) + 1, Len(s)))
  BY <1>1, <1>4 DEF ToSet
<1> QED BY <1>3, <1>5

LEMMA FirstBegins ==
    ASSUME NEW S, NEW s \in Seq(S), NEW limit \in Nat, NEW n \in Counts(s, limit)
    PROVE  FirstOf(s, n) \in Seq(S) /\ Begins(FirstOf(s, n), s)
<1>1. \E x \in {limit, Len(s)} : \A y \in {limit, Len(s)} : x <= y
  OBVIOUS
<1>2. Min({limit, Len(s)}) \in {limit, Len(s)} /\ Min({limit, Len(s)}) <= Len(s)
  BY <1>1 DEF Min
<1>3. n \in Nat /\ n <= Len(s)
  BY <1>2 DEF Counts
<1>4. /\ SubSeq(s, 1, n) \in Seq(S) /\ Len(SubSeq(s, 1, n)) = n
      /\ \A i \in 1..n : SubSeq(s, 1, n)[i] = s[i]
  BY <1>3
<1> QED BY <1>3, <1>4 DEF FirstOf, Begins

LEMMA BeginsAppend ==
    ASSUME NEW S, NEW s \in Seq(S), NEW p \in Seq(S), Begins(p, s), NEW e
    PROVE  Begins(p, Append(s, e))
BY DEF Begins

-----------------------------------------------------------------------------
LEMMA PartTypes ==
    ASSUME TypeOK, Out
    PROVE  OutW \in Seq(Events) /\ OutM \in Seq(Events)
BY DEF TypeOK, Out, OutW, OutM, EventsOf, Parts

(* A step that leaves the list that is out alone, as well as what it is the
   beginning of or at most adds to that. *)
LEMMA ListKept ==
    ASSUME BufferInv, list' = list, added \subseteq added',
           wrapped' = wrapped \/ \E e : wrapped' = Append(wrapped, e),
           Out /\ ~moved' => ~moved /\ (mem' = mem \/ \E e : mem' = Append(mem, e))
    PROVE  ListInv'
<1> SUFFICES ASSUME Out PROVE Begins(OutW, wrapped') /\ (~moved' => Begins(OutM, mem'))
                              /\ ToSet(OutW) \cup ToSet(OutM) \subseteq added'
  BY DEF ListInv, Out, OutW, OutM
<1>1. /\ OutW \in Seq(Events) /\ OutM \in Seq(Events)
      /\ wrapped \in Seq(Events) /\ mem \in Seq(Events)
  BY PartTypes DEF BufferInv, TypeOK
<1>2. /\ Begins(OutW, wrapped) /\ (~moved => Begins(OutM, mem))
      /\ ToSet(OutW) \cup ToSet(OutM) \subseteq added
  BY DEF BufferInv, ListInv
<1>3. Begins(OutW, wrapped')
  BY <1>1, <1>2, BeginsAppend
<1>4. ~moved' => Begins(OutM, mem')
  BY <1>1, <1>2, BeginsAppend
<1> QED BY <1>2, <1>3, <1>4

LEMMA AddStep ==
    ASSUME BufferInv, NEW e \in Events, AddEvent(e)
    PROVE  BufferInv'
<1>1. /\ mutex = "free" /\ Len(mem) < BufferedItemCount
      /\ mem' = Append(mem, e) /\ added' = added \cup {e}
      /\ UNCHANGED <<wrapped, mutex, items, adding, list, corrupt, sent, moved, mistaken>>
  BY DEF AddEvent, Free
<1>2. TypeOK /\ MutexInv /\ AddedInv /\ KeptInv /\ (corrupt => mistaken) /\ mem \in Seq(Events)
      /\ BufferedItemCount \in Nat
  BY BufferAssumption DEF BufferInv, TypeOK
<1>3. mem' \in Seq(Events) /\ Len(mem') <= BufferedItemCount /\ ToSet(mem') = ToSet(mem) \cup {e}
  BY <1>1, <1>2, AppendSet
<1>4. TypeOK'
  BY <1>1, <1>2, <1>3 DEF TypeOK
<1>5. MutexInv' /\ (corrupt' => mistaken')
  BY <1>1, <1>2 DEF MutexInv
<1>6. ListInv'
  BY <1>1, ListKept
<1>7. Stored' = Stored \cup {e}
  BY <1>1, <1>3 DEF Stored
<1>8. AddedInv' /\ KeptInv'
  BY <1>1, <1>2, <1>7 DEF AddedInv, KeptInv
<1> QED BY <1>4, <1>5, <1>6, <1>8 DEF BufferInv

(* flushInternal begins, for an event that is to be added or for none. *)
LEMMA TransferStep ==
    ASSUME BufferInv, NEW a \in Events \cup {NoEvent}, mutex = "free", TransferAllEvents,
           adding' = a, added' = added \cup ({a} \ {NoEvent}),
           UNCHANGED <<wrapped, list, corrupt, sent, mistaken>>
    PROVE  BufferInv'
<1>1. mutex' = "flush" /\ items' = mem /\ mem' = <<>> /\ moved' = (list # NoList)
  BY DEF TransferAllEvents
<1>2. /\ TypeOK /\ AddedInv /\ KeptInv /\ (corrupt => mistaken)
      /\ items = <<>> /\ adding = NoEvent
  BY DEF BufferInv, MutexInv
<1>3. TypeOK'
  <2>1. mem' \in Seq(Events) /\ Len(mem') <= BufferedItemCount /\ items' \in Seq(Events)
    BY <1>1, <1>2, BufferAssumption DEF TypeOK
  <2> QED BY <1>1, <1>2, <2>1 DEF TypeOK
<1>4. MutexInv' /\ (corrupt' => mistaken')
  BY <1>1, <1>2 DEF MutexInv
<1>5. ListInv'
  BY <1>1, ListKept DEF Out
<1>6. Stored' \cup {NoEvent} = Stored \cup {a}
  BY <1>1, <1>2, EmptySet DEF Stored
<1>7. AddedInv' /\ KeptInv'
  <2>1. NoEvent \notin Events /\ added \subseteq Events
    BY <1>2, BufferAssumption DEF TypeOK
  <2>2. AddedInv'
    BY <1>2, <1>6, <2>1 DEF AddedInv
  <2>3. KeptInv'
    BY <1>2, <1>6, <2>1 DEF KeptInv
  <2> QED BY <2>2, <2>3
<1> QED BY <1>3, <1>4, <1>5, <1>7 DEF BufferInv

LEMMA FlushOneStep ==
    ASSUME BufferInv, FlushOne
    PROVE  BufferInv'
<1>1. /\ mutex = "flush" /\ items # <<>> /\ items' = Tail(items)
      /\ wrapped' = IF Head(items) \in Refused THEN wrapped ELSE Append(wrapped, Head(items))
      /\ UNCHANGED <<mem, mutex, adding, list, corrupt, added, sent, moved, mistaken>>
  BY DEF FlushOne
<1>2. /\ TypeOK /\ MutexInv /\ AddedInv /\ KeptInv /\ (corrupt => mistaken)
      /\ items \in Seq(Events) /\ wrapped \in Seq(Events)
  BY DEF BufferInv, TypeOK
<1>3. Head(items) \in Events /\ Tail(items) \in Seq(Events)
      /\ ToSet(items) = {Head(items)} \cup ToSet(Tail(items))
  BY <1>1, <1>2, HeadSet
<1>4. wrapped' \in Seq(Events)
      /\ ToSet(wrapped') = ToSet(wrapped) \cup ({Head(items)} \ Refused)
  BY <1>1, <1>2, <1>3, AppendSet
<1>5. TypeOK'
  BY <1>1, <1>2, <1>3, <1>4 DEF TypeOK
<1>6. MutexInv' /\ (corrupt' => mistaken')
  BY <1>1, <1>2 DEF MutexInv
<1>7. ListInv'
  BY <1>1, ListKept
<1>8. Stored' \subseteq Stored /\ Stored \ Refused \subseteq Stored'
  BY <1>1, <1>3, <1>4 DEF Stored
<1>9. AddedInv' /\ KeptInv'
  BY <1>1, <1>2, <1>8 DEF AddedInv, KeptInv
<1> QED BY <1>5, <1>6, <1>7, <1>9 DEF BufferInv

LEMMA FlushDoneStep ==
    ASSUME BufferInv, FlushDone
    PROVE  BufferInv'
<1>1. /\ mutex = "flush" /\ items = <<>> /\ adding' = NoEvent /\ mutex' = "free"
      /\ mem' = IF adding = NoEvent THEN mem ELSE Append(mem, adding)
      /\ UNCHANGED <<wrapped, items, list, corrupt, added, sent, moved, mistaken>>
  BY DEF FlushDone
<1>2. /\ TypeOK /\ AddedInv /\ KeptInv /\ (corrupt => mistaken) /\ mem = <<>>
      /\ adding \in Events \cup {NoEvent} /\ BufferedItemCount \in Nat \ {0}
  BY <1>1, BufferAssumption DEF BufferInv, TypeOK, MutexInv
<1>3. /\ mem' \in Seq(Events) /\ Len(mem') <= BufferedItemCount
      /\ ToSet(mem') \cup {NoEvent} = {adding, NoEvent}
  <2>1. CASE adding = NoEvent
    BY <1>1, <1>2, <2>1, EmptySet
  <2>2. CASE adding # NoEvent
    <3>1. mem' = <<adding>> /\ adding \in Events
      BY <1>1, <1>2, <2>2
    <3>2. ToSet(<<adding>>) = {adding}
      BY DEF ToSet
    <3> QED BY <1>2, <3>1, <3>2
  <2> QED BY <2>1, <2>2
<1>4. TypeOK'
  BY <1>1, <1>2, <1>3 DEF TypeOK
<1>5. MutexInv' /\ (corrupt' => mistaken')
  BY <1>1, <1>2 DEF MutexInv
<1>6. ListInv'
  BY <1>1, ListKept
<1>7. Stored' \cup {NoEvent} = Stored \cup {NoEvent}
  <2>1. ToSet(mem) = {}
    BY <1>2, EmptySet
  <2> QED BY <1>1, <1>3, <2>1 DEF Stored
<1>8. AddedInv' /\ KeptInv'
  <2>1. NoEvent \notin added
    BY <1>2, BufferAssumption DEF TypeOK
  <2> QED BY <1>1, <1>2, <1>7, <2>1 DEF AddedInv, KeptInv
<1> QED BY <1>4, <1>5, <1>6, <1>8 DEF BufferInv

LEMMA GetStep ==
    ASSUME BufferInv, GetEventsForUpload
    PROVE  BufferInv'
<1>1. /\ moved' = FALSE
      /\ UNCHANGED <<mem, wrapped, mutex, items, adding, corrupt, added, sent, mistaken>>
  BY DEF GetEventsForUpload
<1>2. /\ TypeOK /\ MutexInv /\ AddedInv /\ KeptInv /\ (corrupt => mistaken)
      /\ mem \in Seq(Events) /\ wrapped \in Seq(Events) /\ MaxCount \in Nat
  BY BufferAssumption DEF BufferInv, TypeOK
<1>3. PICK w, m : /\ list' = [w |-> w, m |-> m]
                  /\ w = Null \/ \E n \in Counts(wrapped, MaxCount) : w = FirstOf(wrapped, n)
                  /\ m = Null \/ \E l \in Nat : \E j \in Counts(mem, l) : m = FirstOf(mem, j)
  <2>1. CASE \E n \in Counts(wrapped, MaxCount) : list' = [w |-> FirstOf(wrapped, n), m |-> Null]
    BY <2>1
  <2>2. CASE \E n \in Counts(wrapped, MaxCount) : n < MaxCount /\
               \E j \in Counts(mem, MaxCount - n) :
                    list' = [w |-> FirstOf(wrapped, n), m |-> FirstOf(mem, j)]
    <3>1. PICK n \in Counts(wrapped, MaxCount) : n < MaxCount /\
               \E j \in Counts(mem, MaxCount - n) :
                    list' = [w |-> FirstOf(wrapped, n), m |-> FirstOf(mem, j)]
      BY <2>2
    <3>2. MaxCount - n \in Nat
      BY <1>2, <3>1 DEF Counts
    <3> QED BY <3>1, <3>2
  <2>3. CASE \E j \in Counts(mem, MaxCount) :
               list' = [w |-> Null, m |-> IF mem = <<>> THEN Null ELSE FirstOf(mem, j)]
    BY <1>2, <2>3
  <2> QED BY <2>1, <2>2, <2>3 DEF GetEventsForUpload
<1>4. list'.w = w /\ list'.m = m
  BY <1>3
<1>5. /\ w \in Parts /\ EventsOf(w) \in Seq(Events) /\ Begins(EventsOf(w), wrapped)
      /\ m \in Parts /\ EventsOf(m) \in Seq(Events) /\ Begins(EventsOf(m), mem)
  <2>1. \A t \in Seq(Events) : Begins(<<>>, t)
    BY DEF Begins
  <2>2. w = Null \/ (w \in Seq(Events) /\ Begins(w, wrapped))
    BY <1>2, <1>3, FirstBegins
  <2>3. m = Null \/ (m \in Seq(Events) /\ Begins(m, mem))
    BY <1>2, <1>3, FirstBegins
  <2> QED BY <1>2, <2>1, <2>2, <2>3 DEF EventsOf, Parts
<1>6. TypeOK'
  BY <1>1, <1>2, <1>4, <1>5 DEF TypeOK
<1>7. ListInv'
  <2>1. ToSet(EventsOf(w)) \subseteq ToSet(wrapped) /\ ToSet(EventsOf(m)) \subseteq ToSet(mem)
    BY <1>2, <1>5, PrefixSets
  <2>2. ToSet(EventsOf(w)) \cup ToSet(EventsOf(m)) \subseteq added
    <3>1. NoEvent \notin ToSet(wrapped) /\ NoEvent \notin ToSet(mem)
      BY <1>2, BufferAssumption DEF ToSet
    <3> QED BY <1>2, <2>1, <3>1 DEF AddedInv, Stored
  <2> QED BY <1>1, <1>4, <1>5, <2>2 DEF ListInv, OutW, OutM
<1>8. MutexInv' /\ AddedInv' /\ KeptInv' /\ (corrupt' => mistaken')
  BY <1>1, <1>2 DEF MutexInv, AddedInv, KeptInv, Stored
<1> QED BY <1>6, <1>7, <1>8 DEF BufferInv

LEMMA UploadedStep ==
    ASSUME BufferInv, OnEventsUploaded
    PROVE  BufferInv'
<1>1. /\ mutex = "free" /\ Out
      /\ wrapped' = SubSeq(wrapped, Len(OutW) + 1, Len(wrapped))
      /\ mem' = SubSeq(mem, Len(OutM) + 1, Len(mem))
      /\ corrupt' = (Len(OutM) > Len(mem))
      /\ sent' = sent \cup ToSet(OutW) \cup ToSet(OutM)
      /\ list' = NoList /\ mistaken' = (mistaken \/ (moved /\ list.m # Null))
      /\ UNCHANGED <<mutex, items, adding, added, moved>>
  BY DEF OnEventsUploaded, Free, Out, OutW, OutM
<1>2. /\ TypeOK /\ MutexInv /\ ListInv /\ AddedInv /\ KeptInv /\ (corrupt => mistaken)
      /\ mem \in Seq(Events) /\ wrapped \in Seq(Events) /\ Len(mem) <= BufferedItemCount
      /\ OutW \in Seq(Events) /\ OutM \in Seq(Events) /\ BufferedItemCount \in Nat
  BY <1>1, PartTypes, BufferAssumption DEF BufferInv, TypeOK
<1>3. /\ Begins(OutW, wrapped) /\ (~moved => Begins(OutM, mem))
      /\ ToSet(OutW) \cup ToSet(OutM) \subseteq added
  BY <1>1, <1>2 DEF ListInv
<1>4. /\ wrapped' \in Seq(Events) /\ ToSet(wrapped') \subseteq ToSet(wrapped)
      /\ mem' \in Seq(Events) /\ ToSet(mem') \subseteq ToSet(mem) /\ Len(mem') <= Len(mem)
  <2>1. Len(OutW) \in Nat /\ Len(OutM) \in Nat
    BY <1>2
  <2> QED BY <1>1, <1>2, <2>1, RestSet
<1>5. TypeOK'
  <2>1. Len(mem') <= BufferedItemCount
    BY <1>2, <1>4
  <2>2. mistaken' \in BOOLEAN /\ corrupt' \in BOOLEAN
    BY <1>1, <1>2 DEF TypeOK
  <2> QED BY <1>1, <1>2, <1>3, <1>4, <2>1, <2>2 DEF TypeOK
<1>6. MutexInv'
  BY <1>1, <1>2 DEF MutexInv
<1>7. ListInv'
  BY <1>1 DEF ListInv, Out
<1>8. AddedInv'
  BY <1>1, <1>2, <1>4 DEF AddedInv, Stored
<1>9. list.m = Null => OutM = <<>> /\ Begins(OutM, mem)
  BY <1>2 DEF OutM, EventsOf, Begins
<1>10. corrupt' => mistaken'
  <2> SUFFICES ASSUME Len(OutM) > Len(mem) PROVE moved /\ list.m # Null
    BY <1>1
  <2>1. ~Begins(OutM, mem)
    BY <1>2 DEF Begins
  <2> QED BY <1>2, <1>3, <1>9, <2>1 DEF TypeOK
<1>11. KeptInv'
  <2> SUFFICES ASSUME ~mistaken' PROVE added \ Refused \subseteq sent' \cup Stored'
    BY <1>1 DEF KeptInv
  <2>1. ~mistaken /\ Begins(OutM, mem)
    BY <1>1, <1>3, <1>9
  <2>2. ToSet(mem) \subseteq ToSet(OutM) \cup ToSet(mem')
    BY <1>1, <1>2, <2>1, PrefixSets
  <2>3. ToSet(wrapped) \subseteq ToSet(OutW) \cup ToSet(wrapped')
    BY <1>1, <1>2, <1>3, PrefixSets
  <2>4. Stored \subseteq sent' \cup Stored'
    BY <1>1, <2>2, <2>3 DEF Stored
  <2>5. added \ Refused \subseteq sent \cup Stored
    BY <1>2, <2>1 DEF KeptInv
  <2> QED BY <1>1, <2>4, <2>5
<1> QED BY <1>5, <1>6, <1>7, <1>8, <1>10, <1>11 DEF BufferInv

LEMMA BufferStep ==
    ASSUME BufferInv, [Next]_vars
    PROVE  BufferInv'
<1>1. ASSUME NEW e \in Events, AddEventFlushes(e) PROVE BufferInv'
  <2>1. added' = added \cup ({e} \ {NoEvent})
    BY <1>1, BufferAssumption DEF AddEventFlushes
  <2> QED BY <1>1, <2>1, TransferStep DEF AddEventFlushes, Free
<1>2. CASE Flush
  <2>1. added' = added \cup ({NoEvent} \ {NoEvent})
    BY <1>2 DEF Flush
  <2> QED BY <1>2, <2>1, TransferStep DEF Flush, Free
<1>3. CASE DropList
  <2>1. list' = NoList
        /\ UNCHANGED <<mem, wrapped, mutex, items, adding, corrupt, added, sent, moved, mistaken>>
    BY <1>3 DEF DropList
  <2> QED BY <2>1 DEF BufferInv, TypeOK, MutexInv, ListInv, Out, AddedInv, KeptInv, Stored
<1>4. CASE UNCHANGED vars
  <2>1. TypeOK' /\ MutexInv' /\ AddedInv' /\ KeptInv' /\ (corrupt' => mistaken')
    BY <1>4 DEF vars, BufferInv, TypeOK, MutexInv, AddedInv, KeptInv, Stored
  <2>2. ListInv'
    BY <1>4, ListKept DEF vars
  <2> QED BY <2>1, <2>2 DEF BufferInv
<1> QED BY <1>1, <1>2, <1>3, <1>4, AddStep, FlushOneStep, FlushDoneStep, GetStep,
           UploadedStep DEF Next

LEMMA BufferAlways == Spec => []BufferInv
<1>1. Init => BufferInv
  <2> SUFFICES ASSUME Init PROVE BufferInv
    OBVIOUS
  <2>1. Stored = {NoEvent}
    BY EmptySet DEF Init, Stored
  <2>2. TypeOK
    <3>1. <<>> \in Seq(Events) /\ Len(<<>>) <= BufferedItemCount
      BY BufferAssumption
    <3>2. /\ mem \in Seq(Events) /\ Len(mem) <= BufferedItemCount
          /\ wrapped \in Seq(Events) /\ items \in Seq(Events)
      BY <3>1 DEF Init
    <3> QED BY <3>2 DEF Init, TypeOK
  <2> QED BY <2>1, <2>2 DEF Init, BufferInv, MutexInv, ListInv, Out, AddedInv, KeptInv
<1>2. BufferInv /\ [Next]_vars => BufferInv'
  BY BufferStep
<1> QED BY <1>1, <1>2, PTL DEF Spec

-----------------------------------------------------------------------------
(* hasEvents() says that there is nothing only when nothing is anywhere: the
   events that flushInternal is moving are hidden by the mutex. *)
THEOREM HasEventsComplete == Spec => []HasEventsIsComplete
<1>1. ASSUME BufferInv PROVE HasEventsIsComplete
  <2> SUFFICES ASSUME HasEventsReturns(FALSE) PROVE Stored \subseteq {NoEvent}
    BY DEF HasEventsIsComplete
  <2>1. mutex = "free" /\ mem = <<>> /\ wrapped = <<>>
    BY DEF HasEventsReturns, Free
  <2>2. items = <<>> /\ adding = NoEvent
    BY <1>1, <2>1 DEF BufferInv, MutexInv
  <2> QED BY <2>1, <2>2, EmptySet DEF Stored
<1>2. BufferInv => HasEventsIsComplete
  BY <1>1
<1> QED BY <1>2, BufferAlways, PTL

(* Until a list with a part from memory is acknowledged after a flush, the
   events that are not refused are uploaded or still there, and memory is never
   erased past its end. *)
THEOREM OnlySentRemoved == Spec => []OnlySentIsRemoved
<1>1. BufferInv => OnlySentIsRemoved
  BY DEF BufferInv, KeptInv, OnlySentIsRemoved
<1> QED BY <1>1, BufferAlways, PTL

-----------------------------------------------------------------------------
(* The refinement of EventBatch.  What Kept computes is shown by induction on the
   length of its argument, in the form of a least counterexample. *)
LEMMA LeastNumber ==
    ASSUME NEW B \in SUBSET Nat, B # {}
    PROVE  \E n \in B : \A k \in B : n <= k
<1> DEFINE R == {ss \in Nat \X Nat : ss[1] < ss[2]}
<1>1. IsWellFoundedOn(R, Nat)
  BY NatLessThanWellFounded, Zenon DEF OpToRel
<1>2. PICK x \in B : \A y \in B : <<y, x>> \notin R
  <2> HIDE DEF R
  <2> QED BY <1>1, WFMin
<1>3. ASSUME NEW y \in B, y < x PROVE FALSE
  <2>1. <<y, x>> \in R
    BY <1>3
  <2> QED BY <1>2, <2>1
<1> QED BY <1>3

(* What the recursive function of Kept is at i, given what it is before i. *)
Turn(s, f, i) ==
    IF i = 0 THEN <<>>
    ELSE IF s[i] \in Refused THEN f[i - 1] ELSE Append(f[i - 1], s[i])

Filters(f, s, n) == f = [i \in 0..n |-> Turn(s, f, i)]

LEMMA FilterAt ==
    ASSUME NEW s, NEW f, NEW n, Filters(f, s, n), NEW i \in 0..n
    PROVE  f[i] = Turn(s, f, i)
BY DEF Filters

LEMMA FilterExists ==
    ASSUME NEW s, NEW n \in Nat
    PROVE  \E f : Filters(f, s, n)
<1> DEFINE B == {k \in Nat : ~\E f : Filters(f, s, k)}
<1> SUFFICES ASSUME B # {} PROVE FALSE
  OBVIOUS
<1>1. PICK k \in B : \A j \in B : k <= j
  <2>1. B \in SUBSET Nat
    OBVIOUS
  <2> HIDE DEF B
  <2> QED BY <2>1, LeastNumber
<1>2. CASE k = 0
  <2> DEFINE f == [i \in 0..0 |-> <<>>]
  <2>1. Filters(f, s, 0)
    BY DEF Filters, Turn
  <2> QED BY <1>2, <2>1
<1>3. CASE k # 0
  <2>1. k - 1 \in Nat /\ k - 1 \notin B
    BY <1>1, <1>3
  <2>2. PICK f : Filters(f, s, k - 1)
    BY <2>1
  <2> DEFINE g == [i \in 0..k |-> IF i = k THEN Turn(s, f, k) ELSE f[i]]
  <2>3. \A i \in 0..k : Turn(s, g, i) = Turn(s, f, i)
    BY <1>3 DEF Turn
  <2>4. \A i \in 0..(k - 1) : f[i] = Turn(s, f, i)
    BY <2>2 DEF Filters
  <2>5. \A i \in 0..k : g[i] = Turn(s, g, i)
    BY <2>3, <2>4
  <2>6. Filters(g, s, k)
    <3> HIDE DEF g
    <3>1. g = [i \in 0..k |-> g[i]]
      BY DEF g
    <3> QED BY <2>5, <3>1 DEF Filters
  <2> QED BY <2>6
<1> QED BY <1>2, <1>3

(* Kept is one of these functions, at its last argument. *)
LEMMA KeptIs ==
    ASSUME NEW s, Len(s) \in Nat
    PROVE  \E f : Filters(f, s, Len(s)) /\ Kept(s) = f[Len(s)]
<1> DEFINE f == CHOOSE g : g = [i \in 0..Len(s) |-> Turn(s, g, i)]
<1>1. f = [i \in 0..Len(s) |-> Turn(s, f, i)]
  BY FilterExists, Zenon DEF Filters
<1>2. Kept(s) = f[Len(s)]
  BY Zenon DEF Kept, Turn
<1> QED BY <1>1, <1>2, Zenon DEF Filters

(* Filters of two sequences agree as far as the sequences do. *)
LEMMA FiltersAgree ==
    ASSUME NEW s, NEW t, NEW f, NEW g, NEW m \in Nat, NEW n \in Nat, NEW k \in Nat, k <= m, k <= n,
           Filters(f, s, m), Filters(g, t, n), \A i \in 1..k : s[i] = t[i]
    PROVE  f[k] = g[k]
<1> DEFINE B == {j \in 0..k : f[j] # g[j]}
<1> SUFFICES ASSUME B # {} PROVE FALSE
  OBVIOUS
<1>1. PICK j \in B : \A i \in B : j <= i
  <2>1. B \in SUBSET Nat
    OBVIOUS
  <2> HIDE DEF B
  <2> QED BY <2>1, LeastNumber
<1>2. f[j] = Turn(s, f, j) /\ g[j] = Turn(t, g, j)
  <2>1. j \in 0..m /\ j \in 0..n
    OBVIOUS
  <2> QED BY <2>1, FilterAt
<1>3. j # 0
  BY <1>2 DEF Turn
<1>4. f[j - 1] = g[j - 1] /\ s[j] = t[j]
  BY <1>1, <1>3
<1>5. Turn(s, f, j) = Turn(t, g, j)
  BY <1>3, <1>4 DEF Turn
<1> QED BY <1>2, <1>5

LEMMA KeptEmpty == Kept(<<>>) = <<>>
<1>1. PICK f : Filters(f, <<>>, 0) /\ Kept(<<>>) = f[0]
  BY KeptIs
<1> QED BY <1>1 DEF Filters, Turn

LEMMA KeptAppend ==
    ASSUME NEW S, NEW s \in Seq(S), NEW e \in S
    PROVE  Kept(Append(s, e)) = IF e \in Refused THEN Kept(s) ELSE Append(Kept(s), e)
<1> DEFINE t == Append(s, e)
           n == Len(s)
<1>1. n \in Nat /\ Len(t) = n + 1 /\ t[n + 1] = e /\ \A i \in 1..n : t[i] = s[i]
  OBVIOUS
<1> HIDE DEF t, n
<1>2. PICK f : Filters(f, s, n) /\ Kept(s) = f[n]
  BY <1>1, KeptIs DEF n
<1>3. PICK g : Filters(g, t, n + 1) /\ Kept(t) = g[n + 1]
  BY <1>1, KeptIs
<1>4. g[n] = f[n]
  BY <1>1, <1>2, <1>3, FiltersAgree
<1>5. g[n + 1] = Turn(t, g, n + 1)
  BY <1>1, <1>3 DEF Filters
<1> QED BY <1>1, <1>2, <1>3, <1>4, <1>5 DEF Turn, t

LEMMA LastIsAppended ==
    ASSUME NEW S, NEW t \in Seq(S), t # <<>>
    PROVE  \E u \in Seq(S), e \in S : t = Append(u, e) /\ Len(u) = Len(t) - 1
<1>1. PICK u \in Seq(S), e \in S : t = Append(u, e)
  BY SequenceEmptyOrAppend
<1>2. Len(u) \in Nat /\ Len(t) = Len(u) + 1
  BY <1>1
<1> QED BY <1>1, <1>2

LEMMA ConcatOfAppend ==
    ASSUME NEW S, NEW a \in Seq(S), NEW b \in Seq(S), NEW x \in S
    PROVE  a \o Append(b, x) = Append(a \o b, x) /\ a \o b \in Seq(S)
<1>1. a \o b \in Seq(S) /\ Append(b, x) \in Seq(S) /\ <<x>> \in Seq(S)
  OBVIOUS
<1>2. Append(b, x) = b \o <<x>> /\ Append(a \o b, x) = (a \o b) \o <<x>>
  BY <1>1, AppendIsConcat
<1>3. (a \o b) \o <<x>> = a \o (b \o <<x>>)
  BY <1>1, ConcatAssociative
<1> QED BY <1>1, <1>2, <1>3

LEMMA KeptType ==
    ASSUME NEW S, NEW s \in Seq(S)
    PROVE  Kept(s) \in Seq(S)
<1> DEFINE B == {n \in Nat : \E t \in Seq(S) : Len(t) = n /\ Kept(t) \notin Seq(S)}
<1> SUFFICES ASSUME B # {} PROVE FALSE
  OBVIOUS
<1>1. PICK n \in B : \A k \in B : n <= k
  <2>1. B \in SUBSET Nat
    OBVIOUS
  <2> HIDE DEF B
  <2> QED BY <2>1, LeastNumber
<1>2. PICK t \in Seq(S) : Len(t) = n /\ Kept(t) \notin Seq(S)
  OBVIOUS
<1>3. t # <<>>
  BY <1>2, KeptEmpty
<1>4. PICK u \in Seq(S), e \in S : t = Append(u, e) /\ Len(u) = n - 1
  <2>1. PICK u \in Seq(S), e \in S : t = Append(u, e) /\ Len(u) = Len(t) - 1
    BY <1>3, LastIsAppended
  <2> QED BY <1>2, <2>1
<1>5. Kept(u) \in Seq(S)
  <2>1. n - 1 \in Nat /\ n - 1 \notin B
    BY <1>1, <1>4
  <2> QED BY <1>4, <2>1
<1>6. Kept(t) = IF e \in Refused THEN Kept(u) ELSE Append(Kept(u), e)
  BY <1>4, KeptAppend
<1> QED BY <1>2, <1>5, <1>6

LEMMA KeptConcat ==
    ASSUME NEW S, NEW s \in Seq(S), NEW r \in Seq(S)
    PROVE  Kept(s \o r) = Kept(s) \o Kept(r)
<1> DEFINE B == {n \in Nat : \E t \in Seq(S) : Len(t) = n /\ Kept(s \o t) # Kept(s) \o Kept(t)}
<1> SUFFICES ASSUME B # {} PROVE FALSE
  OBVIOUS
<1>1. PICK n \in B : \A k \in B : n <= k
  <2>1. B \in SUBSET Nat
    OBVIOUS
  <2> HIDE DEF B
  <2> QED BY <2>1, LeastNumber
<1>2. PICK t \in Seq(S) : Len(t) = n /\ Kept(s \o t) # Kept(s) \o Kept(t)
  OBVIOUS
<1>3. t # <<>>
  <2>1. s \o <<>> = s /\ Kept(s) \o <<>> = Kept(s)
    BY KeptType, ConcatEmptySeq
  <2> QED BY <1>2, <2>1, KeptEmpty
<1>4. PICK u \in Seq(S), e \in S : t = Append(u, e) /\ Len(u) = n - 1
  <2>1. PICK u \in Seq(S), e \in S : t = Append(u, e) /\ Len(u) = Len(t) - 1
    BY <1>3, LastIsAppended
  <2> QED BY <1>2, <2>1
<1>5. Kept(s \o u) = Kept(s) \o Kept(u)
  <2>1. n - 1 \in Nat /\ n - 1 \notin B
    BY <1>1, <1>4
  <2> QED BY <1>4, <2>1
<1>6. Kept(t) = IF e \in Refused THEN Kept(u) ELSE Append(Kept(u), e)
  BY <1>4, KeptAppend
<1>7. s \o t = Append(s \o u, e) /\ s \o u \in Seq(S)
  <2>1. s \o Append(u, e) = Append(s \o u, e) /\ s \o u \in Seq(S)
    <3> HIDE DEF B
    <3> QED BY ConcatOfAppend
  <2> QED BY <1>4, <2>1
<1>8. Kept(s \o t) = IF e \in Refused THEN Kept(s \o u) ELSE Append(Kept(s \o u), e)
  BY <1>7, KeptAppend
<1>9. Append(Kept(s) \o Kept(u), e) = Kept(s) \o Append(Kept(u), e)
  <2>1. Kept(s) \in Seq(S) /\ Kept(u) \in Seq(S)
    BY KeptType
  <2>2. ASSUME NEW a \in Seq(S), NEW b \in Seq(S) PROVE Append(a \o b, e) = a \o Append(b, e)
    <3> HIDE DEF B
    <3>1. a \o Append(b, e) = Append(a \o b, e)
      BY ConcatOfAppend
    <3> QED BY <3>1
  <2> QED BY <2>1, <2>2
<1> QED BY <1>2, <1>5, <1>6, <1>8, <1>9

LEMMA RestOf ==
    ASSUME NEW S, NEW s \in Seq(S), NEW p \in Seq(S), Begins(p, s)
    PROVE  LET r == SubSeq(s, Len(p) + 1, Len(s)) IN r \in Seq(S) /\ s = p \o r
<1> DEFINE r == SubSeq(s, Len(p) + 1, Len(s))
<1>1. Len(p) \in Nat /\ Len(s) \in Nat /\ Len(p) <= Len(s) /\ \A i \in 1..Len(p) : p[i] = s[i]
  BY DEF Begins
<1>2. r \in Seq(S) /\ Len(r) = Len(s) - Len(p) /\ \A i \in 1..Len(r) : r[i] = s[i + Len(p)]
  BY <1>1
<1> HIDE DEF r
<1>3. /\ p \o r \in Seq(S) /\ Len(p \o r) = Len(p) + Len(r)
      /\ \A i \in 1..Len(p) + Len(r) : (p \o r)[i] = IF i <= Len(p) THEN p[i] ELSE r[i - Len(p)]
  BY <1>2, ConcatProperties
<1>4. Len(p \o r) = Len(s) /\ \A i \in 1..Len(s) : (p \o r)[i] = s[i]
  BY <1>1, <1>2, <1>3
<1>5. s = p \o r
  BY <1>3, <1>4, SeqEqual
<1> QED BY <1>2, <1>5 DEF r

LEMMA AfterConcat ==
    ASSUME NEW S, NEW a \in Seq(S), NEW b \in Seq(S)
    PROVE  /\ SubSeq(a \o b, Len(a) + 1, Len(a \o b)) = b
           /\ Len(a) \in 0..Len(a \o b)
<1> DEFINE c == a \o b
           r == SubSeq(c, Len(a) + 1, Len(c))
<1>1. /\ Len(a) \in Nat /\ Len(b) \in Nat /\ c \in Seq(S) /\ Len(c) = Len(a) + Len(b)
      /\ \A i \in 1..Len(a) + Len(b) : c[i] = IF i <= Len(a) THEN a[i] ELSE b[i - Len(a)]
  BY ConcatProperties
<1> HIDE DEF c
<1>2. r \in Seq(S) /\ Len(r) = Len(b) /\ \A i \in 1..Len(r) : r[i] = c[i + Len(a)]
  BY <1>1
<1>3. \A i \in 1..Len(r) : r[i] = b[i]
  BY <1>1, <1>2
<1> HIDE DEF r
<1>4. r = b
  BY <1>2, <1>3, SeqEqual
<1> QED BY <1>1, <1>4 DEF c, r


-----------------------------------------------------------------------------
(* While a list is out, flushInternal runs only if it began under that list; and
   a list with a part from memory, until then, has all that the files have. *)
MergedInv == Out => /\ mutex = "flush" => moved
                    /\ ~moved /\ OutM # <<>> => OutW = wrapped

LEMMA MergedGet ==
    ASSUME BufferInv, GetEventsForUpload
    PROVE  OutM' # <<>> => OutW' = wrapped
<1>1. /\ mem \in Seq(Events) /\ wrapped \in Seq(Events) /\ Len(wrapped) \in Nat
      /\ MaxCount \in Nat /\ Null \notin Seq(Events)
  BY BufferAssumption DEF BufferInv, TypeOK
<1>2. CASE \E n \in Counts(wrapped, MaxCount) : list' = [w |-> FirstOf(wrapped, n), m |-> Null]
  BY <1>2 DEF OutM, EventsOf
<1>3. CASE \E n \in Counts(wrapped, MaxCount) : ~(n < Len(wrapped)) /\
             \E k \in Counts(mem, MaxCount - n) :
                  list' = [w |-> FirstOf(wrapped, n), m |-> FirstOf(mem, k)]
  <2>1. PICK n \in Counts(wrapped, MaxCount) : ~(n < Len(wrapped)) /\
             \E k \in Counts(mem, MaxCount - n) :
                  list' = [w |-> FirstOf(wrapped, n), m |-> FirstOf(mem, k)]
    BY <1>3
  <2>2. list'.w = FirstOf(wrapped, n)
    BY <2>1
  <2>3. Min({MaxCount, Len(wrapped)}) \in Nat /\ Min({MaxCount, Len(wrapped)}) <= Len(wrapped)
    <3>1. \E x \in {MaxCount, Len(wrapped)} : \A y \in {MaxCount, Len(wrapped)} : x <= y
      BY <1>1
    <3> QED BY <1>1, <3>1 DEF Min
  <2>4. n = Len(wrapped)
    BY <1>1, <2>1, <2>3 DEF Counts
  <2>5. FirstOf(wrapped, n) = wrapped
    BY <1>1, <2>4, SubSeqFull DEF FirstOf
  <2> QED BY <1>1, <2>2, <2>5 DEF OutW, EventsOf
<1>4. CASE wrapped = <<>> /\ \E k \in Counts(mem, MaxCount) :
             list' = [w |-> Null, m |-> IF mem = <<>> THEN Null ELSE FirstOf(mem, k)]
  <2>1. list'.w = Null
    BY <1>4
  <2> QED BY <1>4, <2>1 DEF OutW, EventsOf
<1> QED BY <1>2, <1>3, <1>4 DEF GetEventsForUpload

LEMMA MergedStep ==
    ASSUME BufferInv, MergedInv, [Next]_vars
    PROVE  MergedInv'
<1>1. ASSUME NEW e \in Events, AddEvent(e) PROVE MergedInv'
  BY <1>1 DEF AddEvent, MergedInv, Out, OutM, OutW
<1>2. ASSUME TransferAllEvents, UNCHANGED list PROVE MergedInv'
  BY <1>2 DEF TransferAllEvents, MergedInv, Out
<1>3. ASSUME NEW e \in Events, AddEventFlushes(e) PROVE MergedInv'
  BY <1>2, <1>3 DEF AddEventFlushes
<1>4. CASE Flush
  BY <1>2, <1>4 DEF Flush
<1>5. CASE FlushOne
  BY <1>5 DEF FlushOne, MergedInv, Out
<1>6. CASE FlushDone
  BY <1>6 DEF FlushDone, MergedInv, Out, OutM, OutW
<1>7. CASE GetEventsForUpload
  <2>1. mutex' = "free" /\ wrapped' = wrapped
    BY <1>7 DEF GetEventsForUpload, Free
  <2> QED BY <1>7, <2>1, MergedGet DEF MergedInv
<1>8. CASE OnEventsUploaded
  BY <1>8 DEF OnEventsUploaded, MergedInv, Out
<1>9. CASE DropList
  BY <1>9 DEF DropList, MergedInv, Out
<1>10. CASE UNCHANGED vars
  BY <1>10 DEF vars, MergedInv, Out, OutM, OutW
<1> QED BY <1>1, <1>3, <1>4, <1>5, <1>6, <1>7, <1>8, <1>9, <1>10 DEF Next


(* The queue and the handed-out events of EventBatch. *)
Queue == Kept(wrapped \o items \o mem)
Handed == IF list = NoList THEN 0 ELSE Len(Kept(OutW \o OutM))

LEMMA Types ==
    ASSUME BufferInv
    PROVE  /\ mem \in Seq(Events) /\ wrapped \in Seq(Events) /\ items \in Seq(Events)
           /\ wrapped \o items \in Seq(Events) /\ wrapped \o items \o mem \in Seq(Events)
<1>1. mem \in Seq(Events) /\ wrapped \in Seq(Events) /\ items \in Seq(Events)
  BY DEF BufferInv, TypeOK
<1>2. wrapped \o items \in Seq(Events)
  BY <1>1, ConcatProperties
<1>3. wrapped \o items \o mem \in Seq(Events)
  BY <1>1, <1>2, ConcatProperties
<1> QED BY <1>1, <1>2, <1>3

LEMMA HandedKept ==
    ASSUME list' = list
    PROVE  Handed' = Handed
BY DEF Handed, OutW, OutM

(* An event that reaches memory joins the queue, unless the files will refuse it. *)
LEMMA QueueGrows ==
    ASSUME BufferInv, NEW e \in Events, mem' = Append(mem, e), UNCHANGED <<wrapped, items, list>>
    PROVE  Batch!Next \/ UNCHANGED Batch!vars
<1>1. wrapped' \o items' \o mem' = Append(wrapped \o items \o mem, e)
  BY Types, ConcatOfAppend
<1>2. Queue' = IF e \in Refused THEN Queue ELSE Append(Queue, e)
  BY <1>1, Types, KeptAppend DEF Queue
<1>3. Handed' = Handed
  BY HandedKept
<1>4. CASE e \in Refused
  BY <1>2, <1>3, <1>4 DEF Batch!vars, Queue, Handed, OutW, OutM
<1>5. CASE e \notin Refused
  <2>1. Batch!AddEvent(e)
    BY <1>2, <1>3, <1>5 DEF Batch!AddEvent, Queue, Handed, OutW, OutM
  <2> QED BY <2>1 DEF Batch!Next
<1> QED BY <1>4, <1>5

LEMMA QueueSame ==
    ASSUME Queue' = Queue, Handed' = Handed
    PROVE  UNCHANGED Batch!vars
BY DEF Batch!vars, Queue, Handed, OutW, OutM

LEMMA RefinesTransfer ==
    ASSUME BufferInv, mutex = "free", TransferAllEvents, UNCHANGED <<wrapped, list>>
    PROVE  UNCHANGED Batch!vars
<1>1. items = <<>> /\ items' = mem /\ mem' = <<>>
  BY DEF BufferInv, MutexInv, TransferAllEvents
<1>2. wrapped' \o items' \o mem' = wrapped \o items \o mem
  <2>1. wrapped \o <<>> = wrapped /\ wrapped \o mem \in Seq(Events)
    BY Types, ConcatEmptySeq, ConcatProperties
  <2>2. (wrapped \o mem) \o <<>> = wrapped \o mem
    BY <2>1, ConcatEmptySeq
  <2> QED BY <1>1, <2>1, <2>2
<1>3. Queue' = Queue
  BY <1>2 DEF Queue
<1> QED BY <1>3, HandedKept, QueueSame

LEMMA RefinesFlushOne ==
    ASSUME BufferInv, FlushOne
    PROVE  UNCHANGED Batch!vars
<1> DEFINE h == Head(items)
           r == Tail(items)
<1>1. /\ items # <<>> /\ items' = r /\ UNCHANGED <<mem, list>>
      /\ wrapped' = IF h \in Refused THEN wrapped ELSE Append(wrapped, h)
  BY DEF FlushOne
<1>2. h \in Events /\ r \in Seq(Events) /\ items = <<h>> \o r
  <2>1. h \in Events /\ r \in Seq(Events)
    BY <1>1, Types
  <2>2. SubSeq(items, 1, Len(items)) = <<items[1]>> \o SubSeq(items, 2, Len(items))
    BY <1>1, Types, SubSeqRecursiveFirst
  <2>3. SubSeq(items, 1, Len(items)) = items /\ r = SubSeq(items, 2, Len(items)) /\ h = items[1]
    BY <1>1, Types, SubSeqFull, TailIsSubSeq
  <2> QED BY <2>1, <2>2, <2>3
<1> HIDE DEF h, r
<1>3. Append(wrapped, h) = wrapped \o <<h>> /\ <<h>> \in Seq(Events)
      /\ Append(wrapped, h) \in Seq(Events)
  BY <1>2, Types, AppendIsConcat
<1>4. wrapped \o items = Append(wrapped, h) \o r
  BY <1>2, <1>3, Types, ConcatAssociative
<1>5. Kept(wrapped') = Kept(Append(wrapped, h)) /\ wrapped' \in Seq(Events)
  BY <1>1, <1>2, <1>3, Types, KeptAppend
<1>6. Kept(wrapped' \o r) = Kept(wrapped \o items)
  <2>1. Kept(wrapped' \o r) = Kept(wrapped') \o Kept(r)
    BY <1>2, <1>5, KeptConcat
  <2>2. Kept(Append(wrapped, h) \o r) = Kept(Append(wrapped, h)) \o Kept(r)
    BY <1>2, <1>3, KeptConcat
  <2> QED BY <1>4, <1>5, <2>1, <2>2
<1>7. Queue' = Queue
  <2>1. wrapped' \o r \in Seq(Events)
    BY <1>2, <1>5, ConcatProperties
  <2>2. Kept((wrapped' \o r) \o mem) = Kept(wrapped' \o r) \o Kept(mem)
    BY <2>1, Types, KeptConcat
  <2>3. Kept((wrapped \o items) \o mem) = Kept(wrapped \o items) \o Kept(mem)
    BY Types, KeptConcat
  <2> QED BY <1>1, <1>6, <2>2, <2>3 DEF Queue
<1> QED BY <1>1, <1>7, HandedKept, QueueSame

LEMMA RefinesFlushDone ==
    ASSUME BufferInv, FlushDone
    PROVE  Batch!Next \/ UNCHANGED Batch!vars
<1>1. /\ mem' = IF adding = NoEvent THEN mem ELSE Append(mem, adding)
      /\ UNCHANGED <<wrapped, items, list>> /\ adding \in Events \cup {NoEvent}
  BY DEF FlushDone, BufferInv, TypeOK
<1>2. CASE adding = NoEvent
  <2>1. Queue' = Queue
    BY <1>1, <1>2 DEF Queue
  <2> QED BY <1>1, <2>1, HandedKept, QueueSame
<1>3. CASE adding # NoEvent
  BY <1>1, <1>3, QueueGrows
<1> QED BY <1>2, <1>3


Commutes(w, a, m, b) == (w \o a) \o (m \o b) = (w \o m) \o (a \o b)

LEMMA Regrouped ==
    ASSUME NEW S, NEW w \in Seq(S), NEW a \in Seq(S), NEW m \in Seq(S), NEW b \in Seq(S)
    PROVE  m = <<>> \/ a = <<>> => Commutes(w, a, m, b)
<1>1. w \o <<>> = w /\ <<>> \o b = b
  BY ConcatEmptySeq
<1>2. (w \o a) \o b = w \o (a \o b)
  BY ConcatAssociative
<1>3. (w \o m) \o b = w \o (m \o b)
  BY ConcatAssociative
<1>4. m = <<>> => (w \o a) \o (m \o b) = (w \o m) \o (a \o b)
  BY <1>1, <1>2
<1>5. a = <<>> => (w \o a) \o (m \o b) = (w \o m) \o (a \o b)
  BY <1>1, <1>3
<1> QED BY <1>4, <1>5, Zenon DEF Commutes

(* Beginnings of the files and of memory that are, one after the other, a
   beginning of the queue: those of memory only behind all of the files. *)
LEMMA QueueSplits ==
    ASSUME NEW f \in Seq(Events), NEW g \in Seq(Events), NEW w \in Seq(Events), NEW m \in Seq(Events),
           Begins(w, f), Begins(m, g), m # <<>> => w = f
    PROVE  LET rest == SubSeq(f, Len(w) + 1, Len(f)) \o SubSeq(g, Len(m) + 1, Len(g))
               all == Kept(f \o g)
           IN  /\ Len(Kept(w \o m)) \in 0..Len(all)
               /\ Kept(rest) = SubSeq(all, Len(Kept(w \o m)) + 1, Len(all))
<1> DEFINE a == SubSeq(f, Len(w) + 1, Len(f))
           b == SubSeq(g, Len(m) + 1, Len(g))
<1>1. a \in Seq(Events) /\ f = w \o a /\ b \in Seq(Events) /\ g = m \o b
  BY RestOf
<1>2. m = <<>> \/ a = <<>>
  <2>1. ASSUME w = f PROVE a = <<>>
    <3>1. Len(f) \in Nat
      OBVIOUS
    <3> QED BY <2>1, <3>1, SubSeqEmpty
  <2> QED BY <2>1
<1> HIDE DEF a, b
<1>3. w \o m \in Seq(Events) /\ a \o b \in Seq(Events)
  BY <1>1, ConcatProperties
<1>4. f \o g = (w \o m) \o (a \o b)
  <2>1. a \in Seq(Events) /\ b \in Seq(Events)
    BY <1>1
  <2>2. Commutes(w, a, m, b)
    BY <1>2, <2>1, Regrouped
  <2> QED BY <1>1, <2>2 DEF Commutes
<1>5. Kept(f \o g) = Kept(w \o m) \o Kept(a \o b)
  BY <1>3, <1>4, KeptConcat
<1>6. Kept(w \o m) \in Seq(Events) /\ Kept(a \o b) \in Seq(Events)
  BY <1>3, KeptType
<1>7. /\ SubSeq(Kept(f \o g), Len(Kept(w \o m)) + 1, Len(Kept(f \o g))) = Kept(a \o b)
      /\ Len(Kept(w \o m)) \in 0..Len(Kept(f \o g))
  BY <1>5, <1>6, AfterConcat
<1> QED BY <1>7, Zenon DEF a, b

LEMMA FreeQueue ==
    ASSUME BufferInv, mutex = "free"
    PROVE  items = <<>> /\ Queue = Kept(wrapped \o mem)
<1>1. items = <<>>
  BY DEF BufferInv, MutexInv
<1>2. wrapped \o <<>> = wrapped
  BY Types, ConcatEmptySeq
<1> QED BY <1>1, <1>2 DEF Queue

LEMMA RefinesGet ==
    ASSUME BufferInv, BufferInv', GetEventsForUpload
    PROVE  Batch!Next
<1>1. /\ mutex = "free" /\ moved' = FALSE /\ UNCHANGED <<mem, wrapped, items>>
  BY DEF GetEventsForUpload, Free
<1>2. Queue' = Queue /\ Queue = Kept(wrapped \o mem) /\ Queue \in Seq(Events)
  BY <1>1, FreeQueue, Types, KeptType DEF Queue
<1>3. Handed' \in 0..Len(Queue)
  <2>1. CASE list' = NoList
    <3>1. Len(Queue) \in Nat
      BY <1>2
    <3> QED BY <2>1, <3>1 DEF Handed
  <2>2. CASE list' # NoList
    <3>1. OutW' \in Seq(Events) /\ OutM' \in Seq(Events)
      BY <2>2 DEF BufferInv, TypeOK, Out, OutW, OutM, EventsOf, Parts
    <3>2. Begins(OutW', wrapped) /\ Begins(OutM', mem)
      BY <1>1, <2>2 DEF BufferInv, ListInv, Out
    <3>3. OutM' # <<>> => OutW' = wrapped
      BY MergedGet
    <3>4. Len(Kept(OutW' \o OutM')) \in 0..Len(Kept(wrapped \o mem))
      BY <3>1, <3>2, <3>3, Types, QueueSplits
    <3> QED BY <1>2, <2>2, <3>4 DEF Handed
  <2> QED BY <2>1, <2>2
<1>4. Batch!GetEventsForUpload(Handed')
  BY <1>2 DEF Batch!GetEventsForUpload, Queue, Handed, OutW, OutM
<1>5. \E n \in 0..Len(Queue) : Batch!GetEventsForUpload(n)
  BY <1>3, <1>4
<1> QED BY <1>5 DEF Batch!Next, Queue

LEMMA RefinesUploaded ==
    ASSUME BufferInv, MergedInv, OnEventsUploaded, ~mistaken'
    PROVE  Batch!Next
<1>1. /\ mutex = "free" /\ Out /\ list' = NoList /\ items' = items
      /\ wrapped' = SubSeq(wrapped, Len(OutW) + 1, Len(wrapped))
      /\ mem' = SubSeq(mem, Len(OutM) + 1, Len(mem))
      /\ mutex' = mutex /\ (moved => list.m = Null)
  BY DEF OnEventsUploaded, Free, Out, OutW, OutM
<1>2. /\ OutW \in Seq(Events) /\ OutM \in Seq(Events) /\ Begins(OutW, wrapped)
      /\ Begins(OutM, mem) /\ (OutM # <<>> => OutW = wrapped)
  <2>1. OutW \in Seq(Events) /\ OutM \in Seq(Events) /\ Begins(OutW, wrapped)
    BY <1>1, PartTypes DEF BufferInv, ListInv
  <2>2. CASE moved
    <3>1. OutM = <<>>
      BY <1>1, <2>2 DEF OutM, EventsOf
    <3>2. Begins(<<>>, mem)
      BY Types DEF Begins
    <3> QED BY <2>1, <3>1, <3>2
  <2>3. CASE ~moved
    BY <1>1, <2>1, <2>3 DEF BufferInv, ListInv, MergedInv
  <2> QED BY <2>2, <2>3
<1>3. Kept(wrapped' \o mem') = SubSeq(Queue, Len(Kept(OutW \o OutM)) + 1, Len(Queue))
  <2>1. Queue = Kept(wrapped \o mem)
    BY <1>1, FreeQueue
  <2>2. Kept(SubSeq(wrapped, Len(OutW) + 1, Len(wrapped)) \o SubSeq(mem, Len(OutM) + 1, Len(mem)))
        = SubSeq(Kept(wrapped \o mem), Len(Kept(OutW \o OutM)) + 1, Len(Kept(wrapped \o mem)))
    <3>1. mem \in Seq(Events) /\ wrapped \in Seq(Events)
      BY Types
    <3> DEFINE ow == OutW
               om == OutM
    <3>2. ow \in Seq(Events) /\ om \in Seq(Events) /\ Begins(ow, wrapped)
          /\ Begins(om, mem) /\ (om # <<>> => ow = wrapped)
      BY <1>2
    <3> HIDE DEF ow, om
    <3> QED BY <3>1, <3>2, QueueSplits DEF ow, om
  <2> QED BY <1>1, <2>1, <2>2
<1>4. Queue' = Kept(wrapped' \o mem')
  <2>1. BufferInv'
    BY UploadedStep
  <2>2. items' = <<>> /\ wrapped' \in Seq(Events)
    BY <1>1, <2>1, FreeQueue DEF BufferInv, TypeOK
  <2>3. wrapped' \o <<>> = wrapped'
    BY <2>2, ConcatEmptySeq
  <2> QED BY <2>2, <2>3 DEF Queue
<1>5. Handed = Len(Kept(OutW \o OutM)) /\ Handed' = 0
  BY <1>1 DEF Handed, Out
<1>6. Batch!OnEventsUploaded
  BY <1>3, <1>4, <1>5 DEF Batch!OnEventsUploaded, Queue, Handed, OutW, OutM
<1> QED BY <1>6 DEF Batch!Next

LEMMA BatchStep ==
    ASSUME BufferInv, MergedInv, Next
    PROVE  mistaken' \/ Batch!Next \/ UNCHANGED Batch!vars
<1>1. ASSUME NEW e \in Events, AddEvent(e) PROVE Batch!Next \/ UNCHANGED Batch!vars
  BY <1>1, QueueGrows DEF AddEvent
<1>2. ASSUME NEW e \in Events, AddEventFlushes(e) PROVE UNCHANGED Batch!vars
  BY <1>2, RefinesTransfer DEF AddEventFlushes, Free
<1>3. CASE Flush
  BY <1>3, RefinesTransfer DEF Flush, Free
<1>4. CASE GetEventsForUpload
  BY <1>4, GetStep, RefinesGet
<1>5. CASE DropList
  <2>1. list' = NoList /\ UNCHANGED <<mem, wrapped, items>>
    BY <1>5 DEF DropList
  <2>2. Queue' = Queue /\ Handed' = 0
    BY <2>1 DEF Queue, Handed
  <2>3. Batch!DropList
    BY <2>2 DEF Batch!DropList, Queue, Handed, OutW, OutM
  <2> QED BY <2>3 DEF Batch!Next
<1> QED BY <1>1, <1>2, <1>3, <1>4, <1>5, RefinesFlushOne, RefinesFlushDone, RefinesUploaded
        DEF Next

(* Files and memory together are the FIFO batch of EventBatch: every step of
   addEvent, flushInternal, getEventsForUpload and onEventsUploaded is a step of
   EventBatch or none, up to the acknowledgement of a list with a part from
   memory after a flush. *)
THEOREM RefinesEventBatch == Spec => ImplementsEventBatch
<1>1. ASSUME Init PROVE Batch!Init /\ MergedInv
  <2>1. wrapped \o items \o mem = <<>>
    <3>1. <<>> \o <<>> = <<>>
      BY EmptySeq, ConcatEmptySeq
    <3> QED BY <1>1, <3>1 DEF Init
  <2> QED BY <1>1, <2>1, KeptEmpty DEF Init, Batch!Init, MergedInv, Out
<1>2. BufferInv /\ MergedInv /\ [Next]_vars => MergedInv'
  BY MergedStep
<1>3. BufferInv /\ MergedInv /\ [Next]_vars
      => [mistaken' \/ Batch!Next \/ UNCHANGED Batch!vars]_vars
  BY BatchStep
<1>4. Init => Batch!Init /\ MergedInv
  BY <1>1
<1> QED BY <1>2, <1>3, <1>4, BufferAlways, PTL DEF Spec, ImplementsEventBatch

=============================================================================
