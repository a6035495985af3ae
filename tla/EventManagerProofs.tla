--------------------------- MODULE EventManagerProofs ---------------------------
(***************************************************************************)
(* Proofs about EventManager for any clients, events, flags and limits:    *)
(* no event is left unattended, no worker and no joinable thread outlives  *)
(* the manager, and until a list with a part from the buffer is            *)
(* acknowledged after a flush no event is doubled, and none is lost but by *)
(* a file that does not take it.                                           *)
(***************************************************************************)
EXTENDS EventManager, SequenceTheorems, TLAPS

(* The sequence s begins with p. *)
Begins(p, s) == Len(p) <= Len(s) /\ \A i \in 1..Len(p) : p[i] = s[i]

(* The events in some batch of q, and that each is there once. *)
Held(q) == UNION {ToSet(q[b]) : b \in Batches}

Distinct(q) ==
    /\ \A b \in Batches : IsInjective(q[b])
    /\ \A b, c \in Batches : b # c => ToSet(q[b]) \cap ToSet(q[c]) = {}

(* A worker that waits for an answer has a list of one of its own batches whose
   events are still in front of that batch.  The part from the buffer is in
   front of the buffer until a flush. *)
PostInv ==
    \A w \in Workers : at[w] = "post" =>
        /\ list[w] \in Lists
        /\ list[w].batch = "realtime" <=> w = "rt"
        /\ list[w].batch # "buffer"
        /\ list[w].batch # "normal" => list[w].buffered = <<>>
        /\ Begins(list[w].events, queue[list[w].batch])
        /\ ~moved => Begins(list[w].buffered, queue["buffer"])

TypeInv == TypeOK /\ PostInv

(* A thread that is running is behind the handle of its task.  Once the
   destructor has begun no client is inside add() and the main task is told to
   stop; once the realtime worker is gone nobody can ask it for a run. *)
OwnerInv ==
    /\ \A w \in Workers : Running(w) => held[w]
    /\ owner \notin {"created", "started"} => /\ \A c \in Clients : client[c] = "out"
                                             /\ stopping["main"]
    /\ owner \in {"destroy", "destroyed"} => Exited("rt") /\ ~held["rt"]
    /\ owner = "destroyed" => /\ Exited("main") /\ ~held["main"]
                              /\ queue["buffer"] = <<>>

(* Somebody is going to ask for a run of the main task, or has asked. *)
MainRequested == \/ pending["main"] \/ at["rt"] = "transfer"
                 \/ \E c \in Clients : client[c] = "main"

(* Between its two looks at the queues the main worker has seen the normal
   queue empty: an event that is there now came with a request. *)
BetweenLooks == at["main"] = "critical" /\ NormalHasEvents => MainRequested

AttendedInv == RealtimeIsAttended /\ StorageIsAttended /\ BetweenLooks

(* Only a realtime worker that is transferring holds events outside of the
   queues. *)
TransferInv == at["rt"] # "transfer" => transfer = <<>>

(* No event is lost, and none is in two places.  What is in a queue or uploaded
   was added, so an event that is added now is in no queue yet. *)
Kept == added \subseteq sent \cup dropped \cup refused \cup Held(queue) \cup ToSet(transfer)

Once ==
    /\ sent \cap Held(queue) = {} /\ sent \cap ToSet(transfer) = {}
    /\ IsInjective(transfer) /\ Distinct(queue)
    /\ Held(queue) \cap ToSet(transfer) = {}
    /\ sent \cup Held(queue) \cup ToSet(transfer) \subseteq added

KeptInv == ~mistaken => Kept
OnceInv == ~mistaken => Once

-----------------------------------------------------------------------------
(* The elements of a sequence after the operations the model uses. *)
LEMMA Elements ==
    ASSUME NEW S, NEW s \in Seq(S), NEW x
    PROVE  x \in ToSet(s) <=> \E i \in 1..Len(s) : s[i] = x
<1>1. DOMAIN s = 1..Len(s)
  OBVIOUS
<1> QED BY <1>1 DEF ToSet

LEMMA AppendElements ==
    ASSUME NEW S, NEW s \in Seq(S), NEW e \in S
    PROVE  /\ ToSet(Append(s, e)) = ToSet(s) \cup {e}
           /\ IsInjective(s) /\ e \notin ToSet(s) => IsInjective(Append(s, e))
<1> DEFINE r == Append(s, e)
<1>1. /\ r \in Seq(S) /\ Len(r) = Len(s) + 1
      /\ DOMAIN r = 1..(Len(s) + 1) /\ DOMAIN s = 1..Len(s)
      /\ \A i \in 1..Len(s) : r[i] = s[i]
      /\ r[Len(s) + 1] = e
  OBVIOUS
<1>2. 1..(Len(s) + 1) = 1..Len(s) \cup {Len(s) + 1}
  OBVIOUS
<1> HIDE DEF r
<1>3. ToSet(r) = ToSet(s) \cup {e}
  BY <1>1, <1>2 DEF ToSet
<1>4. ASSUME IsInjective(s), e \notin ToSet(s) PROVE IsInjective(r)
  <2>1. \A i \in 1..Len(s) : s[i] # e
    BY <1>4, Elements
  <2>2. \A i, j \in 1..Len(s) : s[i] = s[j] => i = j
    BY <1>1, <1>4 DEF IsInjective
  <2> QED BY <1>1, <2>1, <2>2 DEF IsInjective
<1> QED BY <1>3, <1>4 DEF r

LEMMA ConcatElements ==
    ASSUME NEW S, NEW s \in Seq(S), NEW t \in Seq(S)
    PROVE  /\ ToSet(s \o t) = ToSet(s) \cup ToSet(t)
           /\ IsInjective(s) /\ IsInjective(t) /\ ToSet(s) \cap ToSet(t) = {}
                => IsInjective(s \o t)
           /\ Begins(s, s \o t)
<1> DEFINE r == s \o t
<1>1. /\ r \in Seq(S) /\ Len(r) = Len(s) + Len(t) /\ DOMAIN r = 1..Len(r)
      /\ DOMAIN s = 1..Len(s) /\ DOMAIN t = 1..Len(t)
      /\ Len(s) \in Nat /\ Len(t) \in Nat
  BY ConcatProperties, LenProperties
<1>2. \A i \in 1..(Len(s) + Len(t)) : r[i] = IF i <= Len(s) THEN s[i] ELSE t[i - Len(s)]
  BY ConcatProperties
<1> HIDE DEF r
<1>3. /\ \A i \in 1..Len(s) : i \in 1..Len(r) /\ r[i] = s[i]
      /\ \A i \in 1..Len(t) : Len(s) + i \in 1..Len(r) /\ r[Len(s) + i] = t[i]
  <2>1. ASSUME NEW i \in 1..Len(s) PROVE i \in 1..Len(r) /\ r[i] = s[i]
    BY <1>1, <1>2
  <2>2. ASSUME NEW i \in 1..Len(t) PROVE Len(s) + i \in 1..Len(r) /\ r[Len(s) + i] = t[i]
    <3>1. Len(s) + i \in 1..(Len(s) + Len(t)) /\ ~(Len(s) + i <= Len(s))
          /\ Len(s) + i - Len(s) = i
      BY <1>1
    <3> QED BY <1>1, <1>2, <3>1
  <2> QED BY <2>1, <2>2
<1>4. \A i \in 1..Len(r) : \/ i \in 1..Len(s) /\ r[i] = s[i]
                           \/ i - Len(s) \in 1..Len(t) /\ r[i] = t[i - Len(s)]
  BY <1>1, <1>2
<1>5. \A x \in ToSet(r) : x \in ToSet(s) \/ x \in ToSet(t)
  <2> TAKE x \in ToSet(r)
  <2>1. PICK i \in 1..Len(r) : r[i] = x
    BY <1>1, Elements
  <2> QED BY <1>1, <1>4, <2>1, Elements
<1>6. \A x \in ToSet(s) : x \in ToSet(r)
  <2> TAKE x \in ToSet(s)
  <2>1. PICK i \in 1..Len(s) : s[i] = x
    BY Elements
  <2> QED BY <1>1, <1>3, <2>1, Elements
<1>7. \A x \in ToSet(t) : x \in ToSet(r)
  <2> TAKE x \in ToSet(t)
  <2>1. PICK i \in 1..Len(t) : t[i] = x
    BY Elements
  <2>2. Len(s) + i \in 1..Len(r) /\ r[Len(s) + i] = x
    BY <1>3, <2>1
  <2> QED BY <1>1, <2>2, Elements
<1>8. ASSUME IsInjective(s), IsInjective(t), ToSet(s) \cap ToSet(t) = {}
      PROVE  IsInjective(r)
  <2>1. /\ \A i, j \in 1..Len(s) : s[i] = s[j] => i = j
        /\ \A i, j \in 1..Len(t) : t[i] = t[j] => i = j
    BY <1>1, <1>8 DEF IsInjective
  <2>2. \A i \in 1..Len(s), j \in 1..Len(t) : s[i] # t[j]
    BY <1>8, Elements
  <2> SUFFICES ASSUME NEW i \in 1..Len(r), NEW j \in 1..Len(r), r[i] = r[j]
               PROVE  i = j
    BY <1>1 DEF IsInjective
  <2>3. CASE i \in 1..Len(s) /\ r[i] = s[i]
    BY <1>4, <2>1, <2>2, <2>3
  <2>4. CASE i - Len(s) \in 1..Len(t) /\ r[i] = t[i - Len(s)]
    <3>1. CASE j \in 1..Len(s) /\ r[j] = s[j]
      BY <2>2, <2>4, <3>1
    <3>2. CASE j - Len(s) \in 1..Len(t) /\ r[j] = t[j - Len(s)]
      <4>1. i - Len(s) = j - Len(s)
        BY <2>1, <2>4, <3>2
      <4> QED BY <1>1, <4>1
    <3> QED BY <1>4, <3>1, <3>2
  <2> QED BY <1>4, <2>3, <2>4
<1>9. Begins(s, r)
  BY <1>1, <1>3 DEF Begins
<1> QED BY <1>5, <1>6, <1>7, <1>8, <1>9 DEF r

(* What is left of a sequence without its beginning. *)
LEMMA WithoutElements ==
    ASSUME NEW S, NEW s \in Seq(S), NEW n \in Nat
    PROVE  /\ Without(s, n) \in Seq(S) /\ Len(Without(s, n)) <= Len(s)
           /\ ToSet(Without(s, n)) \subseteq ToSet(s)
           /\ IsInjective(s) => IsInjective(Without(s, n))
<1> DEFINE r == Without(s, n)
<1>1. \A i \in (n + 1)..Len(s) : s[i] \in S
  OBVIOUS
<1>2. n + 1 \in Int /\ Len(s) \in Int /\ Len(s) \in Nat
  OBVIOUS
<1>3. /\ r \in Seq(S)
      /\ Len(r) = IF n + 1 <= Len(s) THEN Len(s) - (n + 1) + 1 ELSE 0
      /\ \A i \in 1..(Len(s) - (n + 1) + 1) : r[i] = s[(n + 1) + i - 1]
  BY <1>1, <1>2, SubSeqProperties DEF Without
<1> HIDE DEF r
<1>4. Len(r) <= Len(s)
  BY <1>2, <1>3
<1>5. \A i \in 1..Len(r) : n + i \in 1..Len(s) /\ r[i] = s[n + i]
  <2> TAKE i \in 1..Len(r)
  <2>1. Len(r) = Len(s) - n /\ i \in 1..(Len(s) - (n + 1) + 1) /\ (n + 1) + i - 1 = n + i
    BY <1>2, <1>3
  <2> QED BY <1>2, <1>3, <2>1
<1>6. ToSet(r) \subseteq ToSet(s)
  <2> SUFFICES ASSUME NEW x \in ToSet(r) PROVE x \in ToSet(s)
    OBVIOUS
  <2>1. PICK i \in 1..Len(r) : r[i] = x
    BY <1>3, Elements
  <2>2. n + i \in 1..Len(s) /\ s[n + i] = x
    BY <1>5, <2>1
  <2> QED BY <2>2, Elements
<1>7. ASSUME IsInjective(s) PROVE IsInjective(r)
  <2>1. \A i, j \in 1..Len(s) : s[i] = s[j] => i = j
    BY <1>7 DEF IsInjective
  <2> SUFFICES ASSUME NEW i \in 1..Len(r), NEW j \in 1..Len(r), r[i] = r[j]
               PROVE  i = j
    BY <1>3, LenProperties DEF IsInjective
  <2>2. n + i = n + j
    BY <1>5, <2>1
  <2> QED BY <2>2
<1> QED BY <1>3, <1>4, <1>6, <1>7 DEF r

(* A beginning and the rest make up the sequence. *)
LEMMA SplitElements ==
    ASSUME NEW S, NEW s \in Seq(S), NEW p \in Seq(S), Begins(p, s)
    PROVE  /\ ToSet(s) = ToSet(p) \cup ToSet(Without(s, Len(p)))
           /\ IsInjective(s) => ToSet(p) \cap ToSet(Without(s, Len(p))) = {}
<1> DEFINE n == Len(p)
           r == Without(s, n)
<1>1. /\ n \in Nat /\ Len(s) \in Nat /\ n <= Len(s)
      /\ \A i \in 1..n : i \in 1..Len(s) /\ p[i] = s[i]
  BY DEF Begins
<1>2. \A i \in (n + 1)..Len(s) : s[i] \in S
  BY <1>1
<1>3. /\ r \in Seq(S)
      /\ Len(r) = IF n + 1 <= Len(s) THEN Len(s) - (n + 1) + 1 ELSE 0
      /\ \A i \in 1..(Len(s) - (n + 1) + 1) : r[i] = s[(n + 1) + i - 1]
  BY <1>1, <1>2, SubSeqProperties DEF Without
<1> HIDE DEF n, r
<1>4. Len(r) = Len(s) - n
  BY <1>1, <1>3
<1>5. \A i \in 1..Len(r) : n + i \in 1..Len(s) /\ r[i] = s[n + i]
  <2> TAKE i \in 1..Len(r)
  <2>1. i \in 1..(Len(s) - (n + 1) + 1) /\ (n + 1) + i - 1 = n + i
    BY <1>1, <1>4
  <2> QED BY <1>1, <1>3, <1>4, <2>1
<1>6. ASSUME NEW x \in ToSet(s) PROVE x \in ToSet(p) \/ x \in ToSet(r)
  <2>1. PICK i \in 1..Len(s) : s[i] = x
    BY <1>6, Elements
  <2>2. CASE i <= n
    <3>1. i \in 1..Len(p) /\ p[i] = x
      BY <1>1, <2>1, <2>2 DEF n
    <3> QED BY <3>1, Elements
  <2>3. CASE i > n
    <3>1. i - n \in 1..Len(r) /\ n + (i - n) = i
      BY <1>1, <1>4, <2>3
    <3>2. r[i - n] = x
      BY <1>5, <2>1, <3>1
    <3> QED BY <1>3, <3>1, <3>2, Elements
  <2> QED BY <1>1, <2>2, <2>3
<1>7. ASSUME NEW x \in ToSet(p) PROVE \E i \in 1..n : i \in 1..Len(s) /\ s[i] = x
  BY <1>1, <1>7, Elements DEF n
<1>8. ASSUME NEW x \in ToSet(r) PROVE \E i \in (n + 1)..Len(s) : i \in 1..Len(s) /\ s[i] = x
  <2>1. PICK i \in 1..Len(r) : r[i] = x
    BY <1>3, <1>8, Elements
  <2>2. n + i \in (n + 1)..Len(s) /\ n + i \in 1..Len(s) /\ s[n + i] = x
    BY <1>1, <1>5, <2>1
  <2> QED BY <2>2
<1>9. ToSet(p) \subseteq ToSet(s) /\ ToSet(r) \subseteq ToSet(s)
  BY <1>7, <1>8, Elements
<1>10. ASSUME IsInjective(s), NEW x \in ToSet(p), x \in ToSet(r) PROVE FALSE
  <2>1. PICK i \in 1..n : i \in 1..Len(s) /\ s[i] = x
    BY <1>7, <1>10
  <2>2. PICK j \in (n + 1)..Len(s) : j \in 1..Len(s) /\ s[j] = x
    BY <1>8, <1>10
  <2>3. i # j
    BY <1>1, <2>1, <2>2
  <2> QED BY <1>10, <2>1, <2>2, <2>3 DEF IsInjective
<1> QED BY <1>6, <1>9, <1>10 DEF r, n

LEMMA TailElements ==
    ASSUME NEW S, NEW s \in Seq(S), s # <<>>
    PROVE  /\ ToSet(s) = {Head(s)} \cup ToSet(Tail(s))
           /\ IsInjective(s) => IsInjective(Tail(s)) /\ Head(s) \notin ToSet(Tail(s))
<1>1. /\ Tail(s) \in Seq(S) /\ Head(s) = s[1] /\ Len(s) \in Nat /\ Len(s) >= 1
      /\ Len(Tail(s)) = Len(s) - 1 /\ DOMAIN Tail(s) = 1..(Len(s) - 1)
      /\ DOMAIN s = 1..Len(s)
  OBVIOUS
<1> DEFINE t == Tail(s)
<1>2. /\ t \in Seq(S) /\ Len(t) = Len(s) - 1
      /\ \A i \in 1..(Len(s) - 1) : t[i] = s[i + 1]
  OBVIOUS
<1> HIDE DEF t
<1>3. ASSUME NEW x \in ToSet(s) PROVE x = s[1] \/ x \in ToSet(t)
  <2>1. PICK i \in 1..Len(s) : s[i] = x
    BY <1>3, Elements
  <2>2. CASE i # 1
    <3>1. i - 1 \in 1..(Len(s) - 1) /\ (i - 1) + 1 = i
      BY <1>1, <2>2
    <3>2. t[i - 1] = x
      BY <1>2, <2>1, <3>1
    <3> QED BY <1>1, <3>1, <3>2, Elements DEF t
  <2> QED BY <2>1, <2>2
<1>4. ASSUME NEW x \in ToSet(t) PROVE \E i \in 2..Len(s) : i \in 1..Len(s) /\ s[i] = x
  <2>0. t \in Seq(S) /\ Len(t) = Len(s) - 1
    BY <1>2
  <2>1. PICK i \in 1..(Len(s) - 1) : t[i] = x
    BY <1>4, <2>0, Elements
  <2>2. i + 1 \in 2..Len(s) /\ i + 1 \in 1..Len(s) /\ s[i + 1] = x
    BY <1>1, <1>2, <2>1
  <2> QED BY <2>2
<1>5. s[1] \in ToSet(s) /\ ToSet(t) \subseteq ToSet(s)
  BY <1>1, <1>4, Elements
<1>6. ASSUME IsInjective(s) PROVE IsInjective(t) /\ s[1] \notin ToSet(t)
  <2>1. \A i, j \in 1..Len(s) : s[i] = s[j] => i = j
    BY <1>1, <1>6 DEF IsInjective
  <2>2. s[1] \notin ToSet(t)
    BY <1>1, <1>4, <2>1
  <2>3. ASSUME NEW i \in 1..(Len(s) - 1), NEW j \in 1..(Len(s) - 1), t[i] = t[j]
        PROVE  i = j
    <3>1. i + 1 \in 1..Len(s) /\ j + 1 \in 1..Len(s) /\ s[i + 1] = s[j + 1]
      BY <1>1, <1>2, <2>3
    <3>2. i + 1 = j + 1
      BY <2>1, <3>1
    <3> QED BY <3>2
  <2> QED BY <1>1, <2>2, <2>3 DEF IsInjective, t
<1> QED BY <1>1, <1>3, <1>5, <1>6 DEF t

(* The elements that are picked from a sequence and the others. *)
LEMMA PickedElements ==
    ASSUME NEW S, NEW s \in Seq(S), NEW f \in Picks(s)
    PROVE  LET kept == [i \in DOMAIN f |-> s[f[i]]]
               lost == {s[i] : i \in (1..Len(s)) \ Range(f)}
           IN  /\ kept \in Seq(S) /\ ToSet(kept) \cup lost = ToSet(s) /\ lost \subseteq S
               /\ IsInjective(s) => IsInjective(kept)
<1> DEFINE kept == [i \in DOMAIN f |-> s[f[i]]]
           lost == {s[i] : i \in (1..Len(s)) \ Range(f)}
<1>1. PICK k \in 0..Len(s) :
        f \in {g \in [1..k -> 1..Len(s)] : \A i, j \in 1..k : i < j => g[i] < g[j]}
  BY DEF Picks
<1>2. k \in Nat /\ DOMAIN f = 1..k /\ \A i \in 1..k : f[i] \in 1..Len(s)
  BY <1>1
<1>3. \A i, j \in 1..k : f[i] = f[j] => i = j
  <2> SUFFICES ASSUME NEW i \in 1..k, NEW j \in 1..k, f[i] = f[j] PROVE i = j
    OBVIOUS
  <2>1. (i < j => f[i] < f[j]) /\ (j < i => f[j] < f[i])
    BY <1>1
  <2>2. f[i] \in Nat /\ f[j] \in Nat
    BY <1>2
  <2> QED BY <1>2, <2>1, <2>2
<1>4. /\ kept \in Seq(S) /\ Len(kept) = k /\ DOMAIN kept = 1..k
      /\ \A i \in 1..k : kept[i] = s[f[i]]
  BY <1>2
<1> HIDE DEF kept
<1>5. ASSUME NEW x \in ToSet(s), x \notin lost PROVE x \in ToSet(kept)
  <2>1. PICK i \in 1..Len(s) : s[i] = x
    BY <1>5, Elements
  <2>2. i \in Range(f)
    BY <1>5, <2>1
  <2>3. PICK j \in 1..k : f[j] = i
    BY <1>2, <2>2 DEF Range
  <2> QED BY <1>4, <2>1, <2>3, Elements
<1>6. ASSUME NEW x \in ToSet(kept) PROVE x \in ToSet(s)
  <2>1. PICK i \in 1..k : kept[i] = x
    BY <1>4, <1>6, Elements
  <2> QED BY <1>2, <1>4, <2>1, Elements
<1>7. lost \subseteq ToSet(s) /\ lost \subseteq S
  BY Elements
<1> HIDE DEF lost
<1>8. ASSUME IsInjective(s) PROVE IsInjective(kept)
  <2>1. \A i, j \in 1..Len(s) : s[i] = s[j] => i = j
    BY <1>8 DEF IsInjective
  <2> QED BY <1>2, <1>3, <1>4, <2>1 DEF IsInjective
<1> QED BY <1>4, <1>5, <1>6, <1>7, <1>8 DEF kept, lost

-----------------------------------------------------------------------------
(* What the operations do to the events of all batches. *)
LEMMA HeldIn ==
    ASSUME NEW q, NEW x
    PROVE  x \in Held(q) <=> \E b \in Batches : x \in ToSet(q[b])
BY Zenon DEF Held

(* One batch changes: its old elements go or stay, its new ones come from
   nowhere else. *)
LEMMA ChangeOne ==
    ASSUME NEW q \in [Batches -> Seq(Events)], NEW b \in Batches,
           NEW s \in Seq(Events)
    PROVE  LET r == [q EXCEPT ![b] = s]
           IN  /\ r \in [Batches -> Seq(Events)] /\ r[b] = s
               /\ \A c \in Batches : c # b => r[c] = q[c]
               /\ Held(r) \subseteq Held(q) \cup ToSet(s)
               /\ Held(q) \subseteq Held(r) \cup ToSet(q[b])
               /\ ToSet(s) \subseteq Held(r)
               /\ Distinct(q) /\ IsInjective(s)
                  /\ ToSet(s) \cap Held(q) \subseteq ToSet(q[b]) => Distinct(r)
               /\ Distinct(q) /\ ToSet(s) \subseteq ToSet(q[b])
                    => Held(r) = (Held(q) \ ToSet(q[b])) \cup ToSet(s)
<1> DEFINE r == [q EXCEPT ![b] = s]
<1>1. /\ r \in [Batches -> Seq(Events)] /\ r[b] = s
      /\ \A c \in Batches : c # b => r[c] = q[c]
  OBVIOUS
<1> HIDE DEF r
<1>2. Held(r) \subseteq Held(q) \cup ToSet(s)
  BY <1>1, HeldIn
<1>3. Held(q) \subseteq Held(r) \cup ToSet(q[b])
  BY <1>1, HeldIn
<1>4. ToSet(s) \subseteq Held(r)
  BY <1>1, HeldIn
<1>5. ASSUME Distinct(q), IsInjective(s), ToSet(s) \cap Held(q) \subseteq ToSet(q[b])
      PROVE  Distinct(r)
  <2>1. \A c \in Batches : c # b => ToSet(s) \cap ToSet(q[c]) = {}
    BY <1>5, HeldIn DEF Distinct
  <2>2. \A c \in Batches : IsInjective(r[c])
    BY <1>1, <1>5 DEF Distinct
  <2>3. ASSUME NEW c \in Batches, NEW d \in Batches, c # d
        PROVE  ToSet(r[c]) \cap ToSet(r[d]) = {}
    <3>1. CASE c = b
      BY <1>1, <2>1, <2>3, <3>1
    <3>2. CASE d = b
      BY <1>1, <2>1, <2>3, <3>2
    <3>3. CASE c # b /\ d # b
      BY <1>1, <1>5, <2>3, <3>3 DEF Distinct
    <3> QED BY <3>1, <3>2, <3>3
  <2> QED BY <2>2, <2>3 DEF Distinct
<1>6. ASSUME Distinct(q), ToSet(s) \subseteq ToSet(q[b])
      PROVE  Held(r) = (Held(q) \ ToSet(q[b])) \cup ToSet(s)
  <2>1. \A c \in Batches : c # b => ToSet(q[b]) \cap ToSet(q[c]) = {}
    BY <1>6 DEF Distinct
  <2>2. ASSUME NEW x \in Held(r) PROVE x \in (Held(q) \ ToSet(q[b])) \cup ToSet(s)
    <3>1. PICK c \in Batches : x \in ToSet(r[c])
      BY <2>2, HeldIn
    <3> QED BY <1>1, <2>1, <3>1, HeldIn
  <2> QED BY <1>3, <1>4, <2>2
<1> QED BY <1>1, <1>2, <1>3, <1>4, <1>5, <1>6 DEF r

(* An event is put into one batch. *)
LEMMA AppendQueue ==
    ASSUME NEW q \in [Batches -> Seq(Events)], NEW b \in Batches, NEW e \in Events
    PROVE  LET r == [q EXCEPT ![b] = Append(q[b], e)]
           IN  /\ r \in [Batches -> Seq(Events)]
               /\ r[b] = Append(q[b], e) /\ Len(r[b]) = Len(q[b]) + 1
               /\ \A c \in Batches : Begins(q[c], r[c]) /\ (c # b => r[c] = q[c])
               /\ Held(r) = Held(q) \cup {e}
               /\ Distinct(q) /\ e \notin Held(q) => Distinct(r)
<1> DEFINE s == Append(q[b], e)
           r == [q EXCEPT ![b] = s]
<1>1. q[b] \in Seq(Events) /\ s \in Seq(Events) /\ Len(s) = Len(q[b]) + 1
  OBVIOUS
<1>2. ToSet(s) = ToSet(q[b]) \cup {e}
      /\ (IsInjective(q[b]) /\ e \notin ToSet(q[b]) => IsInjective(s))
  BY <1>1, AppendElements
<1>3. Begins(q[b], s)
  BY <1>1 DEF Begins
<1>4. \A c \in Batches : Begins(q[c], q[c])
  BY DEF Begins
<1> HIDE DEF s
<1>5. /\ r \in [Batches -> Seq(Events)] /\ r[b] = s
      /\ \A c \in Batches : c # b => r[c] = q[c]
      /\ Held(r) \subseteq Held(q) \cup ToSet(s)
      /\ Held(q) \subseteq Held(r) \cup ToSet(q[b])
      /\ ToSet(s) \subseteq Held(r)
      /\ Distinct(q) /\ IsInjective(s) /\ ToSet(s) \cap Held(q) \subseteq ToSet(q[b])
           => Distinct(r)
  BY <1>1, ChangeOne
<1> HIDE DEF r
<1>6. ToSet(q[b]) \subseteq Held(q)
  BY HeldIn
<1>7. Held(r) = Held(q) \cup {e}
  BY <1>2, <1>5, <1>6
<1>8. Distinct(q) /\ e \notin Held(q) => Distinct(r)
  BY <1>2, <1>5, <1>6 DEF Distinct
<1>9. \A c \in Batches : Begins(q[c], r[c]) /\ (c # b => r[c] = q[c])
  BY <1>3, <1>4, <1>5
<1> QED BY <1>1, <1>5, <1>7, <1>8, <1>9 DEF r, s

(* flushInternal: the buffer's events are in the files, or refused. *)
LEMMA FlushEffect ==
    ASSUME TypeOK, NEW rest \in Seq(Events), Flush(rest)
    PROVE  /\ queue' \in [Batches -> Seq(Events)] /\ queue'["buffer"] = rest
           /\ queue'["realtime"] = queue["realtime"]
           /\ queue'["critical"] = queue["critical"]
           /\ Begins(queue["normal"], queue'["normal"])
           /\ moved' = (moved \/ MainSendsBuffered)
           /\ refused \subseteq refused' /\ refused' \subseteq Events
           /\ Held(queue) \subseteq Held(queue') \cup refused'
           /\ Held(queue') \subseteq Held(queue) \cup ToSet(rest)
           /\ ToSet(rest) \subseteq Held(queue')
           /\ Distinct(queue) /\ IsInjective(rest) /\ ToSet(rest) \cap Held(queue) = {}
                => Distinct(queue')
<1> DEFINE buffer == queue["buffer"]
           normal == queue["normal"]
<1>1. /\ queue \in [Batches -> Seq(Events)] /\ buffer \in Seq(Events)
      /\ normal \in Seq(Events) /\ refused \subseteq Events
      /\ "buffer" \in Batches /\ "normal" \in Batches
  BY DEF TypeOK, Batches
<1> DEFINE Picked(f) == [i \in DOMAIN f |-> buffer[f[i]]]
           Lost(f) == {buffer[i] : i \in (1..Len(buffer)) \ Range(f)}
<1>2. PICK f \in Picks(buffer) :
        /\ queue' = [queue EXCEPT !["normal"] = @ \o Picked(f), !["buffer"] = rest]
        /\ refused' = refused \cup Lost(f)
        /\ moved' = (moved \/ MainSendsBuffered)
  BY Zenon DEF Flush
<1> DEFINE kept == Picked(f)
           lost == Lost(f)
<1>3. /\ kept \in Seq(Events) /\ ToSet(kept) \cup lost = ToSet(buffer)
      /\ lost \subseteq Events /\ (IsInjective(buffer) => IsInjective(kept))
  BY <1>1, PickedElements
<1> HIDE DEF kept, lost
<1> DEFINE files == normal \o kept
           mid == [queue EXCEPT !["buffer"] = rest]
<1>4. /\ files \in Seq(Events) /\ ToSet(files) = ToSet(normal) \cup ToSet(kept)
      /\ IsInjective(normal) /\ IsInjective(kept) /\ ToSet(normal) \cap ToSet(kept) = {}
           => IsInjective(files)
      /\ Begins(normal, files)
  BY <1>1, <1>3, ConcatElements, ConcatProperties
<1>5. queue' = [queue EXCEPT !["normal"] = files, !["buffer"] = rest]
  BY <1>2 DEF kept
<1> HIDE DEF files
<1>6. queue' = [mid EXCEPT !["normal"] = files]
  BY <1>1, <1>5
<1>7. /\ mid \in [Batches -> Seq(Events)] /\ mid["buffer"] = rest
      /\ \A c \in Batches : c # "buffer" => mid[c] = queue[c]
      /\ Held(mid) \subseteq Held(queue) \cup ToSet(rest)
      /\ Held(queue) \subseteq Held(mid) \cup ToSet(buffer)
      /\ ToSet(rest) \subseteq Held(mid)
      /\ Distinct(queue) /\ IsInjective(rest)
         /\ ToSet(rest) \cap Held(queue) \subseteq ToSet(buffer) => Distinct(mid)
  BY <1>1, ChangeOne
<1> HIDE DEF mid
<1>8. /\ queue' \in [Batches -> Seq(Events)] /\ queue'["normal"] = files
      /\ \A c \in Batches : c # "normal" => queue'[c] = mid[c]
      /\ Held(queue') \subseteq Held(mid) \cup ToSet(files)
      /\ Held(mid) \subseteq Held(queue') \cup ToSet(mid["normal"])
      /\ ToSet(files) \subseteq Held(queue')
      /\ Distinct(mid) /\ IsInjective(files)
         /\ ToSet(files) \cap Held(mid) \subseteq ToSet(mid["normal"]) => Distinct(queue')
  BY <1>1, <1>4, <1>6, <1>7, ChangeOne
<1>9. mid["normal"] = normal
  BY <1>1, <1>7
<1>10. ToSet(normal) \subseteq Held(queue) /\ ToSet(buffer) \subseteq Held(queue)
  BY <1>1, HeldIn
<1>11. /\ queue'["buffer"] = rest /\ queue'["realtime"] = queue["realtime"]
       /\ queue'["critical"] = queue["critical"]
       /\ Begins(queue["normal"], queue'["normal"])
  BY <1>1, <1>4, <1>7, <1>8 DEF Batches
<1>12. /\ Held(queue) \subseteq Held(queue') \cup refused'
       /\ Held(queue') \subseteq Held(queue) \cup ToSet(rest)
       /\ ToSet(rest) \subseteq Held(queue')
  <2>1. Held(mid) \subseteq Held(queue')
    BY <1>4, <1>8, <1>9
  <2>2. lost \subseteq refused'
    BY <1>2 DEF lost
  <2> QED BY <1>3, <1>4, <1>7, <1>8, <1>10, <2>1, <2>2
<1>13. ASSUME Distinct(queue), IsInjective(rest), ToSet(rest) \cap Held(queue) = {}
       PROVE  Distinct(queue')
  <2>1. Distinct(mid)
    BY <1>7, <1>13
  <2>2. IsInjective(files)
    BY <1>1, <1>3, <1>4, <1>13 DEF Distinct
  <2>3. ASSUME NEW x \in ToSet(kept), x \in Held(mid) PROVE FALSE
    <3>1. PICK c \in Batches : x \in ToSet(mid[c])
      BY <2>3, HeldIn
    <3>2. x \in ToSet(buffer) /\ x \in Held(queue)
      BY <1>3, <1>10, <2>3
    <3>3. c # "buffer"
      BY <1>7, <1>13, <3>1, <3>2
    <3>4. x \in ToSet(queue[c])
      BY <1>7, <3>1, <3>3
    <3> QED BY <1>1, <1>13, <3>2, <3>3, <3>4 DEF Distinct
  <2> QED BY <1>4, <1>8, <1>9, <2>1, <2>2, <2>3
<1>14. refused \subseteq refused' /\ refused' \subseteq Events
  BY <1>1, <1>2, <1>3 DEF lost
<1> QED BY <1>2, <1>8, <1>11, <1>12, <1>13, <1>14

(* An event goes to a disk queue: no batch loses its beginning, but the buffer
   in a flush. *)
LEMMA StorageEffect ==
    ASSUME TypeOK, NEW e \in Events, AddToStorage(e)
    PROVE  /\ queue' \in [Batches -> Seq(Events)]
           /\ queue'["realtime"] = queue["realtime"]
           /\ Len(queue'["buffer"]) <= BufferLimit
           /\ Begins(queue["critical"], queue'["critical"])
           /\ Begins(queue["normal"], queue'["normal"])
           /\ moved' \in BOOLEAN /\ (moved => moved')
           /\ (MainSendsBuffered => moved') \/ Begins(queue["buffer"], queue'["buffer"])
           /\ refused \subseteq refused' /\ refused' \subseteq Events
           /\ Held(queue) \subseteq Held(queue') \cup refused'
           /\ Held(queue') \subseteq Held(queue) \cup {e}
           /\ e \in Held(queue')
           /\ Distinct(queue) /\ e \notin Held(queue) => Distinct(queue')
<1>1. /\ queue \in [Batches -> Seq(Events)] /\ refused \subseteq Events
      /\ moved \in BOOLEAN /\ Len(queue["buffer"]) \in Nat
      /\ BufferLimit \in Nat /\ BufferLimit >= 1
      /\ Len(queue["buffer"]) <= BufferLimit
      /\ {"buffer", "critical", "normal", "realtime"} \subseteq Batches
  BY ManagerAssumption DEF TypeOK, Batches
<1>2. ASSUME NEW b \in {"critical", "buffer"}, Store(b, e), UNCHANGED <<refused, moved>>,
             b = "buffer" => Len(queue["buffer"]) < BufferLimit
      PROVE  /\ queue' \in [Batches -> Seq(Events)]
             /\ queue'["realtime"] = queue["realtime"]
             /\ Len(queue'["buffer"]) <= BufferLimit
             /\ Begins(queue["critical"], queue'["critical"])
             /\ Begins(queue["normal"], queue'["normal"])
             /\ moved' \in BOOLEAN /\ (moved => moved')
             /\ (MainSendsBuffered => moved') \/ Begins(queue["buffer"], queue'["buffer"])
             /\ refused \subseteq refused' /\ refused' \subseteq Events
             /\ Held(queue) \subseteq Held(queue') \cup refused'
             /\ Held(queue') \subseteq Held(queue) \cup {e}
             /\ e \in Held(queue')
             /\ Distinct(queue) /\ e \notin Held(queue) => Distinct(queue')
  <2>1. b \in Batches /\ queue' = [queue EXCEPT ![b] = Append(queue[b], e)]
    BY <1>1, <1>2 DEF Store
  <2>2. /\ queue' \in [Batches -> Seq(Events)]
        /\ Len(queue'[b]) = Len(queue[b]) + 1
        /\ \A c \in Batches : Begins(queue[c], queue'[c]) /\ (c # b => queue'[c] = queue[c])
        /\ Held(queue') = Held(queue) \cup {e}
        /\ Distinct(queue) /\ e \notin Held(queue) => Distinct(queue')
    BY <1>1, <2>1, AppendQueue
  <2>3. Len(queue'["buffer"]) <= BufferLimit
    <3>1. CASE b = "buffer"
      <4>1. Len(queue'["buffer"]) = Len(queue["buffer"]) + 1
        BY <2>2, <3>1
      <4>2. Len(queue["buffer"]) < BufferLimit
        BY <1>2, <3>1
      <4> QED BY <1>1, <4>1, <4>2
    <3>2. CASE b # "buffer"
      BY <1>1, <2>2, <3>2
    <3> QED BY <3>1, <3>2
  <2> QED BY <1>1, <1>2, <2>2, <2>3
<1>3. CASE Flush(<<e>>)
  <2>1. <<e>> \in Seq(Events) /\ Len(<<e>>) = 1 /\ ToSet(<<e>>) = {e} /\ IsInjective(<<e>>)
    BY DEF ToSet, IsInjective
  <2>2. /\ queue' \in [Batches -> Seq(Events)] /\ queue'["buffer"] = <<e>>
        /\ queue'["realtime"] = queue["realtime"]
        /\ queue'["critical"] = queue["critical"]
        /\ Begins(queue["normal"], queue'["normal"])
        /\ moved' = (moved \/ MainSendsBuffered)
        /\ refused \subseteq refused' /\ refused' \subseteq Events
        /\ Held(queue) \subseteq Held(queue') \cup refused'
        /\ Held(queue') \subseteq Held(queue) \cup {e}
        /\ {e} \subseteq Held(queue')
        /\ Distinct(queue) /\ {e} \cap Held(queue) = {} => Distinct(queue')
    BY <1>3, <2>1, FlushEffect
  <2>3. Begins(queue["critical"], queue'["critical"])
    BY <1>1, <2>2 DEF Begins
  <2>4. Len(queue'["buffer"]) <= BufferLimit
    BY <1>1, <2>1, <2>2
  <2>5. moved' \in BOOLEAN /\ (moved => moved') /\ (MainSendsBuffered => moved')
    BY <1>1, <2>2, Zenon
  <2> QED BY <2>2, <2>3, <2>4, <2>5
<1>4. CASE Store("critical", e) /\ UNCHANGED <<refused, moved>>
  BY <1>2, <1>4
<1>5. CASE /\ Len(queue["buffer"]) < BufferLimit
           /\ Store("buffer", e) /\ UNCHANGED <<refused, moved>>
  BY <1>2, <1>5
<1> QED BY <1>3, <1>4, <1>5 DEF AddToStorage, AddBuffered

(* The queues after the acknowledgement of a list of b with the parts p and s. *)
Acknowledged(q, b, p, s) ==
    LET rest == [q EXCEPT ![b] = Without(q[b], Len(p))]
    IN  [rest EXCEPT !["buffer"] = Without(rest["buffer"], Len(s))]

(* The batches lose the events of the list and no others. *)
LEMMA AcceptEffect ==
    ASSUME NEW q \in [Batches -> Seq(Events)],
           NEW b \in Batches \ {"buffer"}, NEW p \in Seq(Events), NEW s \in Seq(Events),
           Begins(p, q[b]), Begins(s, q["buffer"])
    PROVE  LET r == Acknowledged(q, b, p, s)
           IN  /\ Held(q) \subseteq Held(r) \cup ToSet(p) \cup ToSet(s)
               /\ Held(r) \subseteq Held(q) /\ ToSet(p) \cup ToSet(s) \subseteq Held(q)
               /\ Distinct(q) => /\ Distinct(r)
                                 /\ ToSet(p) \cap Held(r) = {} /\ ToSet(s) \cap Held(r) = {}
<1> DEFINE t == Without(q[b], Len(p))
           mid == [q EXCEPT ![b] = t]
           u == Without(mid["buffer"], Len(s))
           r == [mid EXCEPT !["buffer"] = u]
<1>0. r = Acknowledged(q, b, p, s)
  BY DEF Acknowledged
<1>1. /\ q[b] \in Seq(Events) /\ q["buffer"] \in Seq(Events) /\ "buffer" \in Batches
      /\ b \in Batches /\ Len(p) \in Nat /\ Len(s) \in Nat
  BY DEF Batches
<1>2. /\ t \in Seq(Events) /\ ToSet(t) \subseteq ToSet(q[b])
      /\ IsInjective(q[b]) => IsInjective(t)
  BY <1>1, WithoutElements
<1>3. /\ ToSet(q[b]) = ToSet(p) \cup ToSet(t)
      /\ IsInjective(q[b]) => ToSet(p) \cap ToSet(t) = {}
  BY <1>1, SplitElements
<1> HIDE DEF t
<1>4. /\ mid \in [Batches -> Seq(Events)] /\ mid[b] = t
      /\ \A c \in Batches : c # b => mid[c] = q[c]
      /\ Held(mid) \subseteq Held(q) \cup ToSet(t)
      /\ Held(q) \subseteq Held(mid) \cup ToSet(q[b])
      /\ ToSet(t) \subseteq Held(mid)
      /\ Distinct(q) /\ IsInjective(t) /\ ToSet(t) \cap Held(q) \subseteq ToSet(q[b])
           => Distinct(mid)
      /\ Distinct(q) /\ ToSet(t) \subseteq ToSet(q[b])
           => Held(mid) = (Held(q) \ ToSet(q[b])) \cup ToSet(t)
  BY <1>1, <1>2, ChangeOne
<1> HIDE DEF mid
<1>5. mid["buffer"] = q["buffer"]
  BY <1>1, <1>4
<1>6. /\ u \in Seq(Events) /\ ToSet(u) \subseteq ToSet(q["buffer"])
      /\ IsInjective(q["buffer"]) => IsInjective(u)
  BY <1>1, <1>5, WithoutElements
<1>7. /\ ToSet(q["buffer"]) = ToSet(s) \cup ToSet(u)
      /\ IsInjective(q["buffer"]) => ToSet(s) \cap ToSet(u) = {}
  BY <1>1, <1>5, SplitElements
<1> HIDE DEF u
<1>8. /\ Held(r) \subseteq Held(mid) \cup ToSet(u)
      /\ Held(mid) \subseteq Held(r) \cup ToSet(q["buffer"])
      /\ ToSet(u) \subseteq Held(r)
      /\ Distinct(mid) /\ IsInjective(u)
         /\ ToSet(u) \cap Held(mid) \subseteq ToSet(q["buffer"]) => Distinct(r)
      /\ Distinct(mid) /\ ToSet(u) \subseteq ToSet(q["buffer"])
           => Held(r) = (Held(mid) \ ToSet(q["buffer"])) \cup ToSet(u)
  <2>1. mid \in [Batches -> Seq(Events)] /\ "buffer" \in Batches /\ u \in Seq(Events)
    BY <1>1, <1>4, <1>6
  <2>2. /\ Held(r) \subseteq Held(mid) \cup ToSet(u)
        /\ Held(mid) \subseteq Held(r) \cup ToSet(mid["buffer"])
        /\ ToSet(u) \subseteq Held(r)
        /\ Distinct(mid) /\ IsInjective(u)
           /\ ToSet(u) \cap Held(mid) \subseteq ToSet(mid["buffer"]) => Distinct(r)
        /\ Distinct(mid) /\ ToSet(u) \subseteq ToSet(mid["buffer"])
             => Held(r) = (Held(mid) \ ToSet(mid["buffer"])) \cup ToSet(u)
    BY <2>1, ChangeOne
  <2> QED BY <1>5, <2>2
<1> HIDE DEF r
<1>9. ToSet(q[b]) \subseteq Held(q) /\ ToSet(q["buffer"]) \subseteq Held(q)
  BY <1>1, HeldIn
<1>10. Held(q) \subseteq Held(r) \cup ToSet(p) \cup ToSet(s)
  BY <1>3, <1>4, <1>7, <1>8
<1>11. Held(r) \subseteq Held(q) /\ ToSet(p) \cup ToSet(s) \subseteq Held(q)
  BY <1>2, <1>3, <1>4, <1>6, <1>7, <1>8, <1>9
<1>12. ASSUME Distinct(q)
       PROVE  Distinct(r) /\ ToSet(p) \cap Held(r) = {} /\ ToSet(s) \cap Held(r) = {}
  <2>1. IsInjective(q[b]) /\ IsInjective(q["buffer"]) /\ ToSet(q[b]) \cap ToSet(q["buffer"]) = {}
    BY <1>1, <1>12 DEF Distinct
  <2>2. Distinct(mid) /\ Held(mid) = (Held(q) \ ToSet(q[b])) \cup ToSet(t)
    BY <1>2, <1>4, <1>12, <2>1
  <2>3. Distinct(r) /\ Held(r) = (Held(mid) \ ToSet(q["buffer"])) \cup ToSet(u)
    BY <1>6, <1>8, <2>1, <2>2
  <2> QED BY <1>2, <1>3, <1>6, <1>7, <2>1, <2>2, <2>3
<1> QED BY <1>0, <1>10, <1>11, <1>12

-----------------------------------------------------------------------------
LEMMA BeginsTransitive ==
    ASSUME NEW p \in Seq(Events), NEW s \in Seq(Events), NEW t \in Seq(Events)
    PROVE  /\ Begins(p, s) /\ Begins(s, t) => Begins(p, t)
           /\ Begins(s, s) /\ Begins(<<>>, t)
<1>1. /\ Len(p) \in Nat /\ Len(s) \in Nat /\ Len(t) \in Nat
      /\ Len(<<>>) = 0 /\ 1..0 = {}
  OBVIOUS
<1>2. ASSUME Begins(p, s), Begins(s, t) PROVE Begins(p, t)
  <2>1. Len(p) <= Len(s) /\ Len(s) <= Len(t)
    BY <1>2 DEF Begins
  <2>2. ASSUME NEW i \in 1..Len(p) PROVE p[i] = t[i]
    <3>1. i \in 1..Len(s)
      BY <1>1, <2>1
    <3> QED BY <1>2, <3>1 DEF Begins
  <2> QED BY <1>1, <2>1, <2>2 DEF Begins
<1>3. Begins(s, s) /\ Begins(<<>>, t)
  BY <1>1 DEF Begins
<1> QED BY <1>2, <1>3

(* The lists that are out stay in front of their batches: a batch may grow, and
   the buffer may be flushed under a list if that is noted. *)
LEMMA PostStays ==
    ASSUME TypeInv, queue' \in [Batches -> Seq(Events)], moved => moved',
           \A w \in Workers : at'[w] = "post" =>
               /\ at[w] = "post" /\ list'[w] = list[w]
               /\ Begins(queue[list[w].batch], queue'[list[w].batch])
               /\ \/ moved' \/ list[w].buffered = <<>>
                  \/ Begins(queue["buffer"], queue'["buffer"])
    PROVE  PostInv'
<1> SUFFICES ASSUME NEW w \in Workers, at'[w] = "post"
             PROVE  /\ list'[w] \in Lists
                    /\ list'[w].batch = "realtime" <=> w = "rt"
                    /\ list'[w].batch # "buffer"
                    /\ list'[w].batch # "normal" => list'[w].buffered = <<>>
                    /\ Begins(list'[w].events, queue'[list'[w].batch])
                    /\ ~moved' => Begins(list'[w].buffered, queue'["buffer"])
  BY Zenon DEF PostInv
<1>1. /\ list'[w] = list[w]
      /\ Begins(queue[list[w].batch], queue'[list[w].batch])
      /\ \/ moved' \/ list[w].buffered = <<>> \/ Begins(queue["buffer"], queue'["buffer"])
  OBVIOUS
<1>2. /\ list[w] \in Lists
      /\ list[w].batch = "realtime" <=> w = "rt"
      /\ list[w].batch # "buffer"
      /\ list[w].batch # "normal" => list[w].buffered = <<>>
      /\ Begins(list[w].events, queue[list[w].batch])
      /\ ~moved => Begins(list[w].buffered, queue["buffer"])
  BY DEF TypeInv, PostInv
<1>3. /\ list[w].batch \in Batches /\ list[w].events \in Seq(Events)
      /\ list[w].buffered \in Seq(Events) /\ "buffer" \in Batches
  BY <1>2 DEF Lists, Batches
<1>4. queue[list[w].batch] \in Seq(Events) /\ queue["buffer"] \in Seq(Events)
      /\ queue'[list[w].batch] \in Seq(Events) /\ queue'["buffer"] \in Seq(Events)
  BY <1>3 DEF TypeInv, TypeOK
<1>5. Begins(list[w].events, queue'[list[w].batch])
  BY <1>1, <1>2, <1>3, <1>4, BeginsTransitive
<1>6. ASSUME ~moved' PROVE Begins(list[w].buffered, queue'["buffer"])
  <2>1. Begins(list[w].buffered, queue["buffer"])
    BY <1>2, <1>6
  <2>2. CASE list[w].buffered = <<>>
    BY <1>4, <2>2, BeginsTransitive
  <2>3. CASE Begins(queue["buffer"], queue'["buffer"])
    BY <1>3, <1>4, <2>1, <2>3, BeginsTransitive
  <2> QED BY <1>1, <1>6, <2>2, <2>3
<1> QED BY <1>1, <1>2, <1>5, <1>6

(* The same for a step that leaves the queues alone. *)
LEMMA PostSame ==
    ASSUME TypeInv, UNCHANGED queue, moved => moved',
           \A w \in Workers : at'[w] = "post" => at[w] = "post" /\ list'[w] = list[w]
    PROVE  PostInv'
<1>1. queue \in [Batches -> Seq(Events)] /\ queue' \in [Batches -> Seq(Events)]
  BY DEF TypeInv, TypeOK
<1>2. ASSUME NEW w \in Workers, at[w] = "post" PROVE list[w].batch \in Batches
  BY <1>2 DEF TypeInv, PostInv, Lists
<1>3. \A b \in Batches : Begins(queue[b], queue'[b])
  BY <1>1, BeginsTransitive
<1>4. "buffer" \in Batches
  BY DEF Batches
<1> QED BY <1>1, <1>2, <1>3, <1>4, PostStays, Zenon

(* A new list is in front of its batches. *)
LEMMA NewList ==
    ASSUME TypeOK, NEW s \in Seq(Events), NEW m \in Nat, NEW n \in Counts(s, m)
    PROVE  FirstOf(s, n) \in Seq(Events) /\ Begins(FirstOf(s, n), s)
<1>1. n \in 0..Len(s)
  BY DEF Counts
<1>2. /\ FirstOf(s, n) \in Seq(Events) /\ Len(FirstOf(s, n)) = n
      /\ \A i \in 1..n : FirstOf(s, n)[i] = s[i]
  BY <1>1 DEF FirstOf
<1> QED BY <1>1, <1>2 DEF Begins

LEMMA SimpleList ==
    ASSUME TypeOK, NEW s \in Seq(Events), NEW p \in SimpleLists(s)
    PROVE  p \in Seq(Events) /\ Begins(p, s)
<1>1. PICK n \in Counts(s, MaxEvents) : p = FirstOf(s, n)
  BY DEF SimpleLists
<1>2. MaxEvents \in Nat
  BY ManagerAssumption
<1> QED BY <1>1, <1>2, NewList

(* What a worker posts: a beginning of its batch and, from the normal queue, of
   the buffer. *)
PostsBeginning(w, b) ==
    \E events, buffered \in Seq(Events) :
        /\ Post(w, b, events, buffered)
        /\ Begins(events, queue[b]) /\ Begins(buffered, queue["buffer"])
        /\ b # "normal" => buffered = <<>>

LEMMA PostedSimple ==
    ASSUME TypeOK, NEW w \in Workers, NEW b \in Batches, PostSimple(w, b)
    PROVE  PostsBeginning(w, b)
<1>1. PICK events \in SimpleLists(queue[b]) : Post(w, b, events, <<>>)
  BY DEF PostSimple
<1>2. queue[b] \in Seq(Events) /\ queue["buffer"] \in Seq(Events) /\ <<>> \in Seq(Events)
  BY DEF TypeOK, Batches
<1>3. events \in Seq(Events) /\ Begins(events, queue[b])
  BY <1>2, SimpleList
<1>4. Begins(<<>>, queue["buffer"])
  BY <1>2, BeginsTransitive
<1> QED BY <1>1, <1>2, <1>3, <1>4, Zenon DEF PostsBeginning

LEMMA PostedNormal ==
    ASSUME TypeOK, PostNormal
    PROVE  PostsBeginning("main", "normal")
<1> DEFINE files == queue["normal"]
           buffer == queue["buffer"]
<1>1. /\ files \in Seq(Events) /\ buffer \in Seq(Events) /\ <<>> \in Seq(Events)
      /\ Begins(<<>>, files) /\ Begins(files, files)
      /\ "main" \in Workers /\ "normal" \in Batches /\ MaxEvents \in Nat
  BY BeginsTransitive, ManagerAssumption DEF TypeOK, Batches, Workers
<1>2. CASE \E buffered \in SimpleLists(buffer) : Post("main", "normal", <<>>, buffered)
  <2>1. PICK buffered \in SimpleLists(buffer) : Post("main", "normal", <<>>, buffered)
    BY <1>2
  <2>2. buffered \in Seq(Events) /\ Begins(buffered, buffer)
    BY <1>1, SimpleList
  <2> QED BY <1>1, <2>1, <2>2, Zenon DEF PostsBeginning
<1>3. CASE PostSimple("main", "normal")
  BY <1>1, <1>3, PostedSimple
<1>4. CASE /\ Len(files) \in Counts(files, MaxEvents - 1)
           /\ \E k \in Counts(buffer, MaxEvents - Len(files)) :
                 Post("main", "normal", files, FirstOf(buffer, k))
  <2>1. PICK k \in Counts(buffer, MaxEvents - Len(files)) :
            Post("main", "normal", files, FirstOf(buffer, k))
    BY <1>4
  <2>2. MaxEvents - Len(files) \in Nat
    <3>1. Len(files) \in Nat /\ Len(files) <= MaxEvents - 1
      BY <1>1, <1>4 DEF Counts
    <3> QED BY <1>1, <3>1
  <2>3. FirstOf(buffer, k) \in Seq(Events) /\ Begins(FirstOf(buffer, k), buffer)
    BY <1>1, <2>2, NewList
  <2> QED BY <1>1, <2>1, <2>3, Zenon DEF PostsBeginning
<1> QED BY <1>2, <1>3, <1>4 DEF PostNormal

LEMMA PostedKeeps ==
    ASSUME TypeInv, NEW w \in Workers, NEW b \in Batches, PostsBeginning(w, b),
           b = "realtime" <=> w = "rt", b # "buffer", WorkerOnly
    PROVE  TypeInv'
<1>1. PICK events \in Seq(Events), buffered \in Seq(Events) :
        /\ Post(w, b, events, buffered)
        /\ Begins(events, queue[b]) /\ Begins(buffered, queue["buffer"])
        /\ b # "normal" => buffered = <<>>
  BY DEF PostsBeginning
<1> DEFINE l == [batch |-> b, events |-> events, buffered |-> buffered, canRetry |-> TRUE]
<1>2. l \in Lists /\ l.batch = b /\ l.events = events /\ l.buffered = buffered
  BY DEF Lists
<1> HIDE DEF l
<1>3. /\ list' = [list EXCEPT ![w] = l] /\ at' = [at EXCEPT ![w] = "post"]
      /\ UNCHANGED <<queue, moved>>
  BY <1>1 DEF Post, Goto, WorkerOnly, history, l
<1>4. /\ list'[w] = l /\ \A v \in Workers : v # w => list'[v] = list[v] /\ at'[v] = at[v]
      /\ list' \in [Workers -> Lists \cup {NoList}]
  BY <1>2, <1>3 DEF TypeInv, TypeOK
<1>5. /\ at' \in [Workers -> MainPlaces \cup RtPlaces]
      /\ at'["main"] \in MainPlaces /\ at'["rt"] \in RtPlaces
  BY <1>3 DEF TypeInv, TypeOK, Workers, MainPlaces, RtPlaces
<1>6. TypeOK'
  BY <1>4, <1>5 DEF TypeInv, TypeOK, WorkerOnly, history
<1>7. PostInv'
  BY <1>1, <1>2, <1>3, <1>4 DEF TypeInv, PostInv
<1> QED BY <1>6, <1>7 DEF TypeInv

(* A step in which an event goes to a disk queue. *)
LEMMA StorageKeepsType ==
    ASSUME TypeInv, NEW e \in Events, AddToStorage(e), UNCHANGED <<tasks, list, mistaken>>,
           transfer' \in Seq(Events), client' \in [Clients -> Workers \cup {"out"}],
           UNCHANGED owner, added' \subseteq Events, sent' \subseteq Events,
           dropped' \subseteq Events
    PROVE  TypeInv'
<1>1. /\ queue' \in [Batches -> Seq(Events)] /\ queue'["realtime"] = queue["realtime"]
      /\ Len(queue'["buffer"]) <= BufferLimit
      /\ Begins(queue["critical"], queue'["critical"])
      /\ Begins(queue["normal"], queue'["normal"])
      /\ moved' \in BOOLEAN /\ (moved => moved')
      /\ (MainSendsBuffered => moved') \/ Begins(queue["buffer"], queue'["buffer"])
      /\ refused' \subseteq Events
  BY StorageEffect DEF TypeInv
<1>2. TypeOK'
  BY <1>1 DEF TypeInv, TypeOK, tasks
<1>3. UNCHANGED <<at, list>>
  BY DEF tasks
<1>4. ASSUME NEW w \in Workers, at[w] = "post"
      PROVE  /\ Begins(queue[list[w].batch], queue'[list[w].batch])
             /\ \/ moved' \/ list[w].buffered = <<>>
                \/ Begins(queue["buffer"], queue'["buffer"])
  <2>1. /\ list[w] \in Lists /\ list[w].batch # "buffer"
        /\ list[w].batch = "realtime" <=> w = "rt"
        /\ list[w].batch # "normal" => list[w].buffered = <<>>
    BY <1>4 DEF TypeInv, PostInv
  <2>2. Begins(queue["realtime"], queue'["realtime"])
    BY <1>1, BeginsTransitive DEF TypeInv, TypeOK, Batches
  <2>3. Begins(queue[list[w].batch], queue'[list[w].batch])
    BY <1>1, <2>1, <2>2 DEF Lists, Batches
  <2>4. w = "main" \/ list[w].buffered = <<>>
    BY <2>1 DEF Workers
  <2>5. MainSendsBuffered \/ list[w].buffered = <<>>
    BY <1>4, <2>4, Zenon DEF MainSendsBuffered
  <2> QED BY <1>1, <2>3, <2>5, Zenon
<1>5. PostInv'
  BY <1>1, <1>3, <1>4, PostStays, Zenon
<1> QED BY <1>2, <1>5 DEF TypeInv

(* The owner's steps: handles, and the flush at the end. *)
LEMMA OwnerKeepsType ==
    ASSUME TypeInv, TerminateMain \/ TerminateRt \/ BodyDone
    PROVE  TypeInv'
<1>1. /\ UNCHANGED <<queue, pending, at, list, transfer, client, added, sent, dropped,
                     refused, moved, mistaken>>
      /\ owner' \in OwnerPlaces
      /\ held' \in [Workers -> BOOLEAN] /\ stopping' \in [Workers -> BOOLEAN]
  <2>1. CASE TerminateMain
    BY <2>1 DEF TerminateMain, OwnerGoes, Stop, OwnerOnly, TypeInv, TypeOK, OwnerPlaces
  <2>2. CASE TerminateRt
    BY <2>2 DEF TerminateRt, OwnerGoes, Stop, Join, OwnerOnly, TypeInv, TypeOK, OwnerPlaces
  <2>3. CASE BodyDone
    BY <2>3 DEF BodyDone, OwnerGoes, Join, OwnerOnly, TypeInv, TypeOK, OwnerPlaces
  <2> QED BY <2>1, <2>2, <2>3
<1>2. TypeOK'
  BY <1>1 DEF TypeInv, TypeOK
<1>3. PostInv'
  BY <1>1, PostSame, Zenon
<1> QED BY <1>2, <1>3 DEF TypeInv

LEMMA DestroyKeepsType ==
    ASSUME TypeInv, DestroyMembers
    PROVE  TypeInv'
<1>1. /\ UNCHANGED <<pending, at, list, transfer, client, added, sent, dropped, mistaken>>
      /\ owner' \in OwnerPlaces /\ Flush(<<>>)
      /\ held' \in [Workers -> BOOLEAN] /\ stopping' \in [Workers -> BOOLEAN]
  BY DEF DestroyMembers, OwnerGoes, Stop, Join, OwnerOnly, TypeInv, TypeOK, OwnerPlaces
<1>2. /\ queue' \in [Batches -> Seq(Events)] /\ queue'["buffer"] = <<>>
      /\ queue'["realtime"] = queue["realtime"]
      /\ queue'["critical"] = queue["critical"]
      /\ Begins(queue["normal"], queue'["normal"])
      /\ moved' = (moved \/ MainSendsBuffered)
      /\ refused' \subseteq Events
  <2>1. <<>> \in Seq(Events) /\ TypeOK
    BY DEF TypeInv
  <2> QED BY <1>1, <2>1, FlushEffect
<1>3. moved' \in BOOLEAN /\ (moved => moved') /\ (MainSendsBuffered => moved')
  BY <1>2, Zenon DEF TypeInv, TypeOK
<1>4. Len(queue'["buffer"]) <= BufferLimit
  BY <1>2, ManagerAssumption
<1>5. TypeOK'
  BY <1>1, <1>2, <1>3, <1>4 DEF TypeInv, TypeOK
<1>6. ASSUME NEW w \in Workers, at[w] = "post"
      PROVE  /\ Begins(queue[list[w].batch], queue'[list[w].batch])
             /\ moved' \/ list[w].buffered = <<>>
  <2>1. /\ list[w] \in Lists /\ list[w].batch # "buffer"
        /\ list[w].batch = "realtime" <=> w = "rt"
        /\ list[w].batch # "normal" => list[w].buffered = <<>>
    BY <1>6 DEF TypeInv, PostInv
  <2>2. /\ Begins(queue["realtime"], queue'["realtime"])
        /\ Begins(queue["critical"], queue'["critical"])
    BY <1>2, BeginsTransitive DEF TypeInv, TypeOK, Batches
  <2>3. Begins(queue[list[w].batch], queue'[list[w].batch])
    BY <1>2, <2>1, <2>2 DEF Lists, Batches
  <2>4. w = "main" \/ list[w].buffered = <<>>
    BY <2>1 DEF Workers
  <2>5. MainSendsBuffered \/ list[w].buffered = <<>>
    BY <1>6, <2>4, Zenon DEF MainSendsBuffered
  <2> QED BY <1>3, <2>3, <2>5, Zenon
<1>7. PostInv'
  BY <1>1, <1>2, <1>3, <1>6, PostStays, Zenon
<1> QED BY <1>5, <1>7 DEF TypeInv

(* What an acknowledgement does to the queues. *)
LEMMA AcceptedQueues ==
    ASSUME TypeInv, NEW w \in Workers, Accepted(w)
    PROVE  LET l == list[w]
               mid == [queue EXCEPT ![l.batch] = Without(queue[l.batch], Len(l.events))]
           IN  /\ l \in Lists /\ l.batch \in Batches \ {"buffer"}
               /\ l.batch = "realtime" <=> w = "rt"
               /\ l.events \in Seq(Events) /\ l.buffered \in Seq(Events)
               /\ w = "rt" => l.buffered = <<>>
               /\ Begins(l.events, queue[l.batch])
               /\ ~moved => Begins(l.buffered, queue["buffer"])
               /\ queue' = [mid EXCEPT !["buffer"] = Without(mid["buffer"], Len(l.buffered))]
               /\ queue' \in [Batches -> Seq(Events)]
               /\ \A b \in Batches : Len(queue'[b]) <= Len(queue[b])
               /\ \A b \in Batches : b \notin {l.batch, "buffer"} => queue'[b] = queue[b]
               /\ w = "rt" => queue'["buffer"] = queue["buffer"]
<1> DEFINE l == list[w]
           t == Without(queue[l.batch], Len(l.events))
           mid == [queue EXCEPT ![l.batch] = t]
           u == Without(mid["buffer"], Len(l.buffered))
<1>1. /\ l \in Lists /\ l.batch # "buffer"
      /\ l.batch = "realtime" <=> w = "rt"
      /\ l.batch # "normal" => l.buffered = <<>>
      /\ Begins(l.events, queue[l.batch])
      /\ ~moved => Begins(l.buffered, queue["buffer"])
  BY DEF Accepted, TypeInv, PostInv
<1>2. /\ l.batch \in Batches /\ l.events \in Seq(Events) /\ l.buffered \in Seq(Events)
      /\ "buffer" \in Batches /\ (w = "rt" => l.buffered = <<>>)
  BY <1>1 DEF Lists, Batches
<1> HIDE DEF l
<1>3. queue \in [Batches -> Seq(Events)] /\ Len(l.events) \in Nat /\ Len(l.buffered) \in Nat
  BY <1>2 DEF TypeInv, TypeOK
<1>4. t \in Seq(Events) /\ Len(t) <= Len(queue[l.batch])
  BY <1>2, <1>3, WithoutElements
<1> HIDE DEF t
<1>5. /\ mid \in [Batches -> Seq(Events)] /\ mid[l.batch] = t
      /\ \A b \in Batches : b # l.batch => mid[b] = queue[b]
      /\ mid["buffer"] = queue["buffer"]
  BY <1>1, <1>2, <1>3, <1>4
<1>6. queue' = [mid EXCEPT !["buffer"] = u]
  BY DEF Accepted, l, t
<1> HIDE DEF mid
<1>7. u \in Seq(Events) /\ Len(u) <= Len(mid["buffer"])
  BY <1>2, <1>3, <1>5, WithoutElements
<1>8. ASSUME w = "rt" PROVE u = queue["buffer"]
  <2>1. Len(l.buffered) = 0 /\ queue["buffer"] \in Seq(Events)
    BY <1>2, <1>3, <1>8
  <2>2. u = SubSeq(queue["buffer"], 1, Len(queue["buffer"]))
    BY <1>5, <2>1 DEF Without
  <2> QED BY <2>1, <2>2
<1> HIDE DEF u
<1>9. /\ queue' \in [Batches -> Seq(Events)] /\ queue'["buffer"] = u
      /\ \A b \in Batches : b # "buffer" => queue'[b] = mid[b]
  BY <1>2, <1>5, <1>6, <1>7
<1>10. \A b \in Batches : Len(queue'[b]) <= Len(queue[b])
  <2> TAKE b \in Batches
  <2>1. CASE b = "buffer"
    BY <1>5, <1>7, <1>9, <2>1
  <2>2. CASE b = l.batch
    BY <1>1, <1>4, <1>5, <1>9, <2>2
  <2>3. CASE b # "buffer" /\ b # l.batch
    BY <1>3, <1>5, <1>9, <2>3
  <2> QED BY <2>1, <2>2, <2>3
<1>11. \A b \in Batches : b \notin {l.batch, "buffer"} => queue'[b] = queue[b]
  BY <1>5, <1>9
<1> QED BY <1>1, <1>2, <1>6, <1>8, <1>9, <1>10, <1>11 DEF u, mid, t, l

LEMMA AcceptedKeepsType ==
    ASSUME TypeInv, NEW w \in Workers, Accepted(w)
    PROVE  TypeInv'
<1> DEFINE l == list[w]
<1>1. /\ l \in Lists /\ l.batch \in Batches \ {"buffer"}
      /\ l.batch = "realtime" <=> w = "rt"
      /\ l.events \in Seq(Events) /\ l.buffered \in Seq(Events)
      /\ queue' \in [Batches -> Seq(Events)]
      /\ \A b \in Batches : Len(queue'[b]) <= Len(queue[b])
      /\ \A b \in Batches : b \notin {l.batch, "buffer"} => queue'[b] = queue[b]
      /\ w = "rt" => queue'["buffer"] = queue["buffer"]
  BY AcceptedQueues
<1>2. /\ Len(queue'["realtime"]) <= RealtimeLimit /\ Len(queue'["buffer"]) <= BufferLimit
  <2>1. /\ \A b \in Batches : Len(queue[b]) \in Nat /\ Len(queue'[b]) \in Nat
        /\ "realtime" \in Batches /\ "buffer" \in Batches
        /\ RealtimeLimit \in Nat /\ BufferLimit \in Nat
        /\ Len(queue["realtime"]) <= RealtimeLimit /\ Len(queue["buffer"]) <= BufferLimit
    BY <1>1, ManagerAssumption DEF TypeInv, TypeOK, Batches
  <2>2. /\ Len(queue'["realtime"]) <= Len(queue["realtime"])
        /\ Len(queue'["buffer"]) <= Len(queue["buffer"])
    BY <1>1, <2>1
  <2> QED BY <2>1, <2>2
<1>3. ToSet(l.events) \subseteq Events /\ ToSet(l.buffered) \subseteq Events
  BY <1>1 DEF ToSet
<1>4. /\ sent' = sent \cup ToSet(l.events) \cup ToSet(l.buffered)
      /\ list' = [list EXCEPT ![w] = NoList]
      /\ \E where \in {"undefined", "loop"} : at' = [at EXCEPT ![w] = where]
      /\ mistaken' = (mistaken \/ (w = "main" /\ moved))
      /\ moved' = (moved /\ w # "main")
      /\ UNCHANGED <<pending, held, stopping, transfer, client, owner, added, dropped,
                     refused>>
  BY DEF Accepted, Goto
<1> HIDE DEF l
<1>5. /\ at' \in [Workers -> MainPlaces \cup RtPlaces]
      /\ at'["main"] \in MainPlaces /\ at'["rt"] \in RtPlaces
      /\ at'[w] # "post" /\ \A v \in Workers : v # w => at'[v] = at[v] /\ list'[v] = list[v]
      /\ list' \in [Workers -> Lists \cup {NoList}]
  BY <1>4 DEF TypeInv, TypeOK, Workers, MainPlaces, RtPlaces
<1>6. moved' \in BOOLEAN /\ mistaken' \in BOOLEAN
  BY <1>4, Zenon DEF TypeInv, TypeOK
<1>7. TypeOK'
  BY <1>1, <1>2, <1>3, <1>4, <1>5, <1>6 DEF TypeInv, TypeOK
<1>8. ASSUME NEW v \in Workers, at'[v] = "post"
      PROVE  /\ list'[v] \in Lists
             /\ list'[v].batch = "realtime" <=> v = "rt"
             /\ list'[v].batch # "buffer"
             /\ list'[v].batch # "normal" => list'[v].buffered = <<>>
             /\ Begins(list'[v].events, queue'[list'[v].batch])
             /\ ~moved' => Begins(list'[v].buffered, queue'["buffer"])
  <2>1. v # w /\ at[v] = "post" /\ list'[v] = list[v]
    BY <1>5, <1>8
  <2>2. /\ list[v] \in Lists
        /\ list[v].batch = "realtime" <=> v = "rt"
        /\ list[v].batch # "buffer"
        /\ list[v].batch # "normal" => list[v].buffered = <<>>
        /\ Begins(list[v].events, queue[list[v].batch])
        /\ ~moved => Begins(list[v].buffered, queue["buffer"])
    BY <2>1 DEF TypeInv, PostInv
  <2>3. list[v].batch \in Batches /\ list[v].batch # l.batch
    BY <1>1, <2>1, <2>2 DEF Lists, Workers
  <2>4. queue'[list[v].batch] = queue[list[v].batch]
    BY <1>1, <2>2, <2>3
  <2>5. CASE w = "rt"
    <3>1. (moved' <=> moved) /\ queue'["buffer"] = queue["buffer"]
      BY <1>1, <1>4, <2>5
    <3> QED BY <2>1, <2>2, <2>4, <3>1
  <2>6. CASE w = "main"
    <3>1. v = "rt" /\ list[v].buffered = <<>> /\ queue'["buffer"] \in Seq(Events)
      BY <1>1, <2>1, <2>2, <2>6 DEF Workers, Batches
    <3>2. Begins(list[v].buffered, queue'["buffer"])
      BY <3>1, BeginsTransitive
    <3> QED BY <2>1, <2>2, <2>4, <3>2
  <2> QED BY <2>5, <2>6 DEF Workers
<1>9. PostInv'
  BY <1>8, Zenon DEF PostInv
<1> QED BY <1>7, <1>9 DEF TypeInv

(* Every step keeps the types and the lists that are out. *)
LEMMA TypeStep ==
    ASSUME TypeInv, [Next]_vars
    PROVE  TypeInv'
<1> USE ManagerAssumption
<1>1. ASSUME NEW c \in Clients, NEW e \in Events, AddRealtime(c, e) PROVE TypeInv'
  <2>1. /\ "realtime" \in Batches /\ queue \in [Batches -> Seq(Events)]
        /\ queue' = [queue EXCEPT !["realtime"] = Append(queue["realtime"], e)]
    BY <1>1 DEF AddRealtime, Store, TypeInv, TypeOK, Batches
  <2>2. /\ queue' \in [Batches -> Seq(Events)]
        /\ Len(queue'["realtime"]) = Len(queue["realtime"]) + 1
        /\ \A b \in Batches : Begins(queue[b], queue'[b])
                              /\ (b # "realtime" => queue'[b] = queue[b])
    BY <2>1, AppendQueue
  <2>3. Len(queue'["realtime"]) <= RealtimeLimit /\ queue'["buffer"] = queue["buffer"]
    <3>1. Len(queue["realtime"]) \in Nat /\ ~(Len(queue["realtime"]) >= RealtimeLimit)
      BY <1>1, <2>1 DEF AddRealtime, RealtimeIsFull
    <3>2. "buffer" \in Batches
      BY DEF Batches
    <3> QED BY <2>2, <3>1, <3>2
  <2>4. TypeOK'
    BY <1>1, <2>2, <2>3 DEF AddRealtime, tasks, TypeInv, TypeOK, Workers
  <2>5. UNCHANGED <<at, list, moved>>
    BY <1>1 DEF AddRealtime, tasks
  <2>6. ASSUME NEW w \in Workers, at[w] = "post" PROVE list[w].batch \in Batches
    BY <2>6 DEF TypeInv, PostInv, Lists
  <2>7. "buffer" \in Batches
    BY DEF Batches
  <2>8. PostInv'
    BY <2>2, <2>5, <2>6, <2>7, PostStays, Zenon
  <2> QED BY <2>4, <2>8 DEF TypeInv
<1>2. ASSUME NEW c \in Clients, NEW e \in Events, AddStorage(c, e) PROVE TypeInv'
  <2>1. /\ AddToStorage(e) /\ UNCHANGED <<tasks, list, mistaken>> /\ UNCHANGED owner
        /\ transfer' \in Seq(Events) /\ added' \subseteq Events /\ sent' \subseteq Events
        /\ dropped' \subseteq Events
    BY <1>2 DEF AddStorage, TypeInv, TypeOK
  <2>2. client' \in [Clients -> Workers \cup {"out"}]
    BY <1>2 DEF AddStorage, TypeInv, TypeOK, Workers
  <2> QED BY <2>1, <2>2, StorageKeepsType
<1>3. ASSUME NEW c \in Clients, NEW e \in Events, AddFails(c, e) PROVE TypeInv'
  <2>1. TypeOK'
    BY <1>3 DEF AddFails, tasks, TypeInv, TypeOK
  <2>2. UNCHANGED <<queue, at, list, moved>>
    BY <1>3 DEF AddFails, tasks
  <2> QED BY <2>1, <2>2, PostSame, Zenon DEF TypeInv
<1>4. ASSUME NEW c \in Clients, ClientRequests(c) PROVE TypeInv'
  <2>1. client[c] \in Workers
    BY <1>4 DEF ClientRequests, TypeInv, TypeOK
  <2>2. TypeOK'
    BY <1>4, <2>1 DEF ClientRequests, RequestRun, Running, history, TypeInv, TypeOK
  <2>3. UNCHANGED <<queue, at, list, moved>>
    BY <1>4 DEF ClientRequests, history
  <2> QED BY <2>2, <2>3, PostSame, Zenon DEF TypeInv
<1>5. CASE Start
  <2>1. TypeOK'
    BY <1>5 DEF Start, OwnerGoes, RequestRun, Running, history, TypeInv, TypeOK,
                Workers, OwnerPlaces
  <2>2. UNCHANGED <<queue, at, list, moved>>
    BY <1>5 DEF Start, history
  <2> QED BY <2>1, <2>2, PostSame, Zenon DEF TypeInv
<1>6. CASE TerminateMain \/ TerminateRt \/ BodyDone
  BY <1>6, OwnerKeepsType
<1>7. CASE DestroyMembers
  BY <1>7, DestroyKeepsType
<1>8. ASSUME NEW w \in Workers, TaskBegins(w) PROVE TypeInv'
  <2>1. TypeOK'
    BY <1>8 DEF TaskBegins, Goto, history, TypeInv, TypeOK, Workers, MainPlaces, RtPlaces
  <2>2. /\ UNCHANGED <<queue, list, moved>>
        /\ \A v \in Workers : at'[v] = "post" => at[v] = "post"
    BY <1>8 DEF TaskBegins, Goto, history, TypeInv, TypeOK
  <2> QED BY <2>1, <2>2, PostSame, Zenon DEF TypeInv
<1>9. CASE MainLoop \/ MainLooksAtCritical
  <2>1. PICK where \in {"exited", "body", "critical"} :
          at' = [at EXCEPT !["main"] = where] /\ UNCHANGED list /\ WorkerOnly
    BY <1>9 DEF MainLoop, MainLooksAtCritical, Goto
  <2>2. TypeOK'
    BY <2>1 DEF WorkerOnly, history, TypeInv, TypeOK, Workers, MainPlaces, RtPlaces
  <2>3. /\ UNCHANGED <<queue, list, moved>>
        /\ \A v \in Workers : at'[v] = "post" => at[v] = "post"
    BY <2>1 DEF WorkerOnly, history, TypeInv, TypeOK
  <2> QED BY <2>2, <2>3, PostSame, Zenon DEF TypeInv
<1>10. CASE MainPosts
  <2>1. "main" \in Workers /\ "critical" \in Batches /\ "normal" \in Batches
    BY DEF Workers, Batches
  <2>2. PICK b \in {"critical", "normal"} : PostsBeginning("main", b)
    <3>1. CASE PostSimple("main", "critical")
      BY <2>1, <3>1, PostedSimple DEF TypeInv
    <3>2. CASE PostNormal
      BY <3>2, PostedNormal DEF TypeInv
    <3> QED BY <1>10, <3>1, <3>2 DEF MainPosts
  <2>3. b \in Batches /\ b # "realtime" /\ b # "buffer" /\ "main" # "rt" /\ WorkerOnly
    BY <1>10, <2>1, <2>2 DEF MainPosts
  <2> QED BY <2>1, <2>2, <2>3, PostedKeeps
<1>11. CASE RtLoop
  <2>1. "rt" \in Workers /\ "realtime" \in Batches /\ WorkerOnly
    BY <1>11 DEF Workers, Batches, RtLoop
  <2>2. CASE PostSimple("rt", "realtime")
    <3>1. PostsBeginning("rt", "realtime")
      BY <2>1, <2>2, PostedSimple DEF TypeInv
    <3> QED BY <2>1, <3>1, PostedKeeps
  <2>3. CASE Goto("rt", "exited") /\ UNCHANGED list
    <3>1. TypeOK'
      BY <2>1, <2>3 DEF Goto, WorkerOnly, history, TypeInv, TypeOK, Workers, MainPlaces,
                        RtPlaces
    <3>2. /\ UNCHANGED <<queue, list, moved>>
          /\ \A v \in Workers : at'[v] = "post" => at[v] = "post"
      BY <2>1, <2>3 DEF Goto, WorkerOnly, history, TypeInv, TypeOK
    <3> QED BY <3>1, <3>2, PostSame, Zenon DEF TypeInv
  <2> QED BY <1>11, <2>2, <2>3 DEF RtLoop
<1>12. CASE RtTransfers
  <2>1. transfer \in Seq(Events) /\ transfer # <<>>
    BY <1>12 DEF RtTransfers, TypeInv, TypeOK
  <2>2. Head(transfer) \in Events /\ Tail(transfer) \in Seq(Events)
    BY <2>1
  <2>3. /\ AddToStorage(Head(transfer)) /\ UNCHANGED <<tasks, list, mistaken>>
        /\ UNCHANGED owner
        /\ transfer' \in Seq(Events) /\ added' \subseteq Events /\ sent' \subseteq Events
        /\ dropped' \subseteq Events /\ client' \in [Clients -> Workers \cup {"out"}]
    BY <1>12, <2>2 DEF RtTransfers, TypeInv, TypeOK
  <2> QED BY <2>2, <2>3, StorageKeepsType
<1>13. CASE RtTransferFails
  <2>1. TypeOK'
    BY <1>13 DEF RtTransferFails, tasks, TypeInv, TypeOK
  <2>2. UNCHANGED <<queue, at, list, moved>>
    BY <1>13 DEF RtTransferFails, tasks
  <2> QED BY <2>1, <2>2, PostSame, Zenon DEF TypeInv
<1>14. CASE RtRequestsMain \/ RtJoinsToo
  <2>1. TypeOK'
    <3>1. PICK where \in {"loop", "undefined"} : at' = [at EXCEPT !["rt"] = where]
      BY <1>14 DEF RtRequestsMain, RtJoinsToo, Goto
    <3>2. /\ at' \in [Workers -> MainPlaces \cup RtPlaces]
          /\ at'["main"] \in MainPlaces /\ at'["rt"] \in RtPlaces
      BY <3>1 DEF TypeInv, TypeOK, Workers, MainPlaces, RtPlaces
    <3>3. pending' \in [Workers -> BOOLEAN] /\ held' \in [Workers -> BOOLEAN]
      BY <1>14 DEF RtRequestsMain, RtJoinsToo, RequestRun, Running, TypeInv, TypeOK, Workers
    <3>4. UNCHANGED <<queue, stopping, list, transfer, client, owner, history>>
      BY <1>14 DEF RtRequestsMain, RtJoinsToo
    <3> QED BY <3>2, <3>3, <3>4 DEF history, TypeInv, TypeOK
  <2>2. /\ UNCHANGED <<queue, list, moved>>
        /\ \A v \in Workers : at'[v] = "post" => at[v] = "post"
    BY <1>14 DEF RtRequestsMain, RtJoinsToo, Goto, history, TypeInv, TypeOK
  <2> QED BY <2>1, <2>2, PostSame, Zenon DEF TypeInv
<1>15. ASSUME NEW w \in Workers, Accepted(w) PROVE TypeInv'
  BY <1>15, AcceptedKeepsType
<1>16. ASSUME NEW w \in Workers, Unauthorized(w) PROVE TypeInv'
  <2> DEFINE l == [list[w] EXCEPT !.canRetry = FALSE]
  <2>1. list[w] \in Lists
    BY <1>16 DEF Unauthorized, TypeInv, PostInv
  <2>2. /\ l \in Lists /\ l.batch = list[w].batch /\ l.events = list[w].events
        /\ l.buffered = list[w].buffered
    BY <2>1 DEF Lists
  <2> HIDE DEF l
  <2>3. /\ list' = [list EXCEPT ![w] = l] /\ UNCHANGED <<at, queue, moved>>
    BY <1>16 DEF Unauthorized, WorkerOnly, history, l
  <2>4. TypeOK'
    BY <1>16, <2>2, <2>3 DEF Unauthorized, WorkerOnly, history, TypeInv, TypeOK
  <2>5. list'[w] = l /\ \A v \in Workers : v # w => list'[v] = list[v]
    BY <2>3 DEF TypeInv, TypeOK
  <2>6. PostInv'
    BY <2>2, <2>3, <2>5 DEF TypeInv, PostInv
  <2> QED BY <2>4, <2>6 DEF TypeInv
<1>17. CASE MainFails
  <2>1. TypeOK'
    BY <1>17 DEF MainFails, Goto, TypeInv, TypeOK, Workers, MainPlaces, RtPlaces
  <2>2. /\ UNCHANGED queue /\ at'["main"] = "loop"
        /\ at'["rt"] = at["rt"] /\ list'["rt"] = list["rt"]
    BY <1>17 DEF MainFails, Goto, TypeInv, TypeOK, Workers
  <2>3. at["rt"] = "post" => /\ list["rt"].batch # "normal" /\ list["rt"].buffered = <<>>
    BY DEF TypeInv, PostInv, Workers
  <2>4. Begins(<<>>, queue["buffer"])
    BY BeginsTransitive DEF TypeInv, TypeOK, Batches
  <2>5. PostInv'
    BY <2>2, <2>3, <2>4 DEF TypeInv, PostInv, Workers
  <2> QED BY <2>1, <2>5 DEF TypeInv
<1>18. CASE RtFails
  <2>1. TypeOK'
    BY <1>18 DEF RtFails, Goto, history, TypeInv, TypeOK, Workers, MainPlaces, RtPlaces, Batches
  <2>2. /\ \A b \in Batches : b # "realtime" => queue'[b] = queue[b]
        /\ UNCHANGED moved /\ at'["rt"] = "transfer"
        /\ at'["main"] = at["main"] /\ list'["main"] = list["main"]
    BY <1>18 DEF RtFails, Goto, history, TypeInv, TypeOK, Workers
  <2>3. at["main"] = "post" => list["main"].batch # "realtime" /\ list["main"].batch \in Batches
    BY DEF TypeInv, PostInv, Workers, Lists
  <2>4. PostInv'
    BY <2>2, <2>3 DEF TypeInv, PostInv, Workers, Batches
  <2> QED BY <2>1, <2>4 DEF TypeInv
<1>19. CASE UNCHANGED vars
  <2>1. TypeOK'
    BY <1>19 DEF vars, tasks, history, TypeInv, TypeOK
  <2>2. UNCHANGED <<queue, at, list, moved>>
    BY <1>19 DEF vars, tasks, history
  <2> QED BY <2>1, <2>2, PostSame, Zenon DEF TypeInv
<1> QED
  BY <1>1, <1>2, <1>3, <1>4, <1>5, <1>6, <1>7, <1>8, <1>9, <1>10, <1>11, <1>12,
       <1>13, <1>14, <1>15, <1>16, <1>17, <1>18, <1>19
     DEF Next, ClientStep, OwnerStep, Ended, MainStep, RtStep, Answer, Workers

(* Every step keeps what the destructor relies on. *)
LEMMA OwnerStepInv ==
    ASSUME TypeInv, OwnerInv, [Next]_vars
    PROVE  OwnerInv'
<1> USE ManagerAssumption DEF TypeInv, TypeOK, Workers, OwnerPlaces, MainPlaces,
        RtPlaces, OwnerInv, Exited, Running
<1>1. ASSUME NEW c \in Clients, NEW e \in Events, AddRealtime(c, e) PROVE OwnerInv'
  BY <1>1 DEF AddRealtime, CanAdd, tasks
<1>2. ASSUME NEW c \in Clients, NEW e \in Events, AddStorage(c, e) PROVE OwnerInv'
  BY <1>2 DEF AddStorage, CanAdd, tasks
<1>3. ASSUME NEW c \in Clients, NEW e \in Events, AddFails(c, e) PROVE OwnerInv'
  BY <1>3 DEF AddFails, CanAdd, tasks
<1>4. ASSUME NEW c \in Clients, ClientRequests(c) PROVE OwnerInv'
  BY <1>4 DEF ClientRequests, RequestRun
<1>5. CASE Start
  BY <1>5 DEF Start, OwnerGoes, RequestRun
<1>6. CASE TerminateMain
  BY <1>6 DEF TerminateMain, OwnerGoes, Stop, OwnerOnly
<1>7. CASE TerminateRt
  BY <1>7 DEF TerminateRt, OwnerGoes, Join, Stop, OwnerOnly
<1>8. CASE BodyDone
  BY <1>8 DEF BodyDone, OwnerGoes, Join, OwnerOnly
<1>9. CASE DestroyMembers
  <2>1. queue'["buffer"] = <<>>
    <3>1. <<>> \in Seq(Events) /\ Flush(<<>>)
      BY <1>9 DEF DestroyMembers
    <3> QED BY <3>1, FlushEffect
  <2> QED BY <1>9, <2>1 DEF DestroyMembers, OwnerGoes, Join, Stop, OwnerOnly
<1>10. ASSUME NEW w \in Workers, TaskBegins(w) PROVE OwnerInv'
  BY <1>10 DEF TaskBegins, Goto
<1>11. CASE MainLoop
  BY <1>11 DEF MainLoop, Goto, WorkerOnly
<1>12. CASE MainLooksAtCritical
  BY <1>12 DEF MainLooksAtCritical, Goto, WorkerOnly
<1>13. CASE MainPosts
  <2>1. at' = [at EXCEPT !["main"] = "post"] /\ WorkerOnly
    BY <1>13 DEF MainPosts, PostNormal, PostSimple, Post, Goto
  <2> QED BY <1>13, <2>1 DEF MainPosts, WorkerOnly
<1>14. CASE RtLoop
  <2>1. PICK where \in {"post", "exited"} : at' = [at EXCEPT !["rt"] = where]
    BY <1>14 DEF RtLoop, PostSimple, Post, Goto
  <2> QED BY <1>14, <2>1 DEF RtLoop, WorkerOnly
<1>15. CASE RtTransfers
  BY <1>15 DEF RtTransfers, tasks
<1>16. CASE RtTransferFails
  BY <1>16 DEF RtTransferFails, tasks
<1>17. CASE RtRequestsMain
  BY <1>17 DEF RtRequestsMain, RequestRun, Goto
<1>18. CASE RtJoinsToo
  BY <1>18 DEF RtJoinsToo, Goto
<1>19. ASSUME NEW w \in Workers, Accepted(w) PROVE OwnerInv'
  <2>1. owner # "destroyed"
    BY <1>19 DEF Accepted
  <2>2. PICK where \in {"undefined", "loop"} : at' = [at EXCEPT ![w] = where]
    BY <1>19 DEF Accepted, Goto
  <2>3. at[w] = "post" /\ UNCHANGED <<pending, held, stopping, client, owner>>
    BY <1>19 DEF Accepted
  <2> QED BY <2>1, <2>2, <2>3
<1>20. ASSUME NEW w \in Workers, Unauthorized(w) PROVE OwnerInv'
  BY <1>20 DEF Unauthorized, WorkerOnly
<1>21. CASE MainFails
  BY <1>21 DEF MainFails, Goto
<1>22. CASE RtFails
  BY <1>22 DEF RtFails, Goto
<1>23. CASE UNCHANGED vars
  BY <1>23 DEF vars, tasks
<1> QED
  BY <1>1, <1>2, <1>3, <1>4, <1>5, <1>6, <1>7, <1>8, <1>9, <1>10, <1>11, <1>12,
       <1>13, <1>14, <1>15, <1>16, <1>17, <1>18, <1>19, <1>20, <1>21, <1>22, <1>23
     DEF Next, ClientStep, OwnerStep, Ended, MainStep, RtStep, Answer, Workers

(* Every step leaves somebody to look at what it left in a queue. *)
LEMMA AttendedStep ==
    ASSUME TypeInv, OwnerInv, AttendedInv, [Next]_vars
    PROVE  AttendedInv'
<1> USE ManagerAssumption DEF TypeInv, TypeOK, Workers, Batches, MainPlaces, RtPlaces,
        AttendedInv, RealtimeIsAttended, StorageIsAttended, BetweenLooks, MainRequested,
        Awake, Running, NormalHasEvents
<1>1. ASSUME NEW c \in Clients, NEW e \in Events, AddRealtime(c, e) PROVE AttendedInv'
  BY <1>1 DEF AddRealtime, CanAdd, Store, tasks
<1>2. ASSUME NEW c \in Clients, NEW e \in Events, AddStorage(c, e) PROVE AttendedInv'
  <2>1. queue'["realtime"] = queue["realtime"]
    BY <1>2, StorageEffect DEF AddStorage
  <2> QED BY <1>2, <2>1 DEF AddStorage, CanAdd, tasks
<1>3. ASSUME NEW c \in Clients, NEW e \in Events, AddFails(c, e) PROVE AttendedInv'
  BY <1>3 DEF AddFails, tasks
<1>4. ASSUME NEW c \in Clients, ClientRequests(c) PROVE AttendedInv'
  BY <1>4 DEF ClientRequests, RequestRun
<1>5. CASE Start
  BY <1>5 DEF Start, RequestRun
<1>6. CASE TerminateMain
  BY <1>6 DEF TerminateMain, Stop, OwnerOnly
<1>7. CASE TerminateRt
  BY <1>7 DEF TerminateRt, Stop, OwnerOnly
<1>8. CASE BodyDone
  BY <1>8 DEF BodyDone, OwnerOnly
<1>9. CASE DestroyMembers
  <2>1. queue'["realtime"] = queue["realtime"]
    <3>1. <<>> \in Seq(Events) /\ Flush(<<>>)
      BY <1>9 DEF DestroyMembers
    <3> QED BY <3>1, FlushEffect
  <2>2. at["main"] = "exited"
    BY <1>9 DEF DestroyMembers, Join, OwnerInv, Exited
  <2>3. UNCHANGED <<pending, at, client>> /\ stopping'["main"]
    BY <1>9 DEF DestroyMembers, Stop, OwnerOnly
  <2> QED BY <2>1, <2>2, <2>3
<1>10. ASSUME NEW w \in Workers, TaskBegins(w) PROVE AttendedInv'
  BY <1>10 DEF TaskBegins, Goto
<1>11. CASE MainLoop
  BY <1>11 DEF MainLoop, Goto, WorkerOnly
<1>12. CASE MainLooksAtCritical
  BY <1>12 DEF MainLooksAtCritical, Goto, WorkerOnly
<1>13. CASE MainPosts
  <2>1. at' = [at EXCEPT !["main"] = "post"] /\ WorkerOnly
    BY <1>13 DEF MainPosts, PostNormal, PostSimple, Post, Goto
  <2> QED BY <2>1 DEF WorkerOnly
<1>14. CASE RtLoop
  <2>1. at["rt"] = "loop" /\ WorkerOnly
    BY <1>14 DEF RtLoop
  <2>2. CASE queue["realtime"] # <<>>
    <3>1. at' = [at EXCEPT !["rt"] = "post"]
      BY <1>14, <2>2 DEF RtLoop, PostSimple, Post, Goto
    <3> QED BY <2>1, <3>1 DEF WorkerOnly
  <2>3. CASE queue["realtime"] = <<>>
    <3>1. at' = [at EXCEPT !["rt"] = "exited"]
      BY <1>14, <2>3 DEF RtLoop, Goto
    <3> QED BY <2>1, <2>3, <3>1 DEF WorkerOnly
  <2> QED BY <2>2, <2>3
<1>15. CASE RtTransfers
  <2>1. Head(transfer) \in Events
    BY <1>15 DEF RtTransfers
  <2>2. queue'["realtime"] = queue["realtime"]
    BY <1>15, <2>1, StorageEffect DEF RtTransfers
  <2> QED BY <1>15, <2>2 DEF RtTransfers, tasks
<1>16. CASE RtTransferFails
  BY <1>16 DEF RtTransferFails, tasks
<1>17. CASE RtRequestsMain
  BY <1>17 DEF RtRequestsMain, RequestRun, Goto
<1>18. CASE RtJoinsToo
  <2>1. BothAtHandle /\ at["rt"] = "transfer"
    BY <1>18 DEF RtJoinsToo
  <2>2. stopping["main"]
    BY <2>1 DEF BothAtHandle, OwnerInv
  <2> QED BY <1>18, <2>1, <2>2 DEF RtJoinsToo, Goto, BothAtHandle
<1>19. ASSUME NEW w \in Workers, Accepted(w) PROVE AttendedInv'
  <2>1. PICK where \in {"undefined", "loop"} : at' = [at EXCEPT ![w] = where]
    BY <1>19 DEF Accepted, Goto
  <2>2. at[w] = "post" /\ UNCHANGED <<pending, stopping, client>>
    BY <1>19 DEF Accepted
  <2>3. /\ list[w].batch = "realtime" <=> w = "rt"
        /\ \A b \in Batches : b \notin {list[w].batch, "buffer"} => queue'[b] = queue[b]
        /\ w = "rt" => queue'["buffer"] = queue["buffer"]
    BY <1>19, AcceptedQueues
  <2>4. CASE w = "main"
    <3>1. queue'["realtime"] = queue["realtime"]
      BY <2>3, <2>4
    <3> QED BY <2>1, <2>2, <2>4, <3>1
  <2>5. CASE w = "rt"
    <3>1. /\ queue'["normal"] = queue["normal"] /\ queue'["critical"] = queue["critical"]
          /\ queue'["buffer"] = queue["buffer"]
      BY <2>3, <2>5
    <3> QED BY <2>1, <2>2, <2>5, <3>1
  <2> QED BY <2>4, <2>5
<1>20. ASSUME NEW w \in Workers, Unauthorized(w) PROVE AttendedInv'
  BY <1>20 DEF Unauthorized, WorkerOnly
<1>21. CASE MainFails
  BY <1>21 DEF MainFails, Goto
<1>22. CASE RtFails
  BY <1>22 DEF RtFails, Goto
<1>23. CASE UNCHANGED vars
  BY <1>23 DEF vars, tasks
<1> QED
  BY <1>1, <1>2, <1>3, <1>4, <1>5, <1>6, <1>7, <1>8, <1>9, <1>10, <1>11, <1>12,
       <1>13, <1>14, <1>15, <1>16, <1>17, <1>18, <1>19, <1>20, <1>21, <1>22, <1>23
     DEF Next, ClientStep, OwnerStep, Ended, MainStep, RtStep, Answer, Workers

(* Every step leaves events in transfer only with a transferring worker. *)
LEMMA TransferStep ==
    ASSUME TypeInv, TransferInv, [Next]_vars
    PROVE  TransferInv'
<1> USE DEF TypeInv, TypeOK, Workers, MainPlaces, RtPlaces, TransferInv
<1>1. ASSUME NEW c \in Clients, \/ \E e \in Events : AddRealtime(c, e) \/ AddStorage(c, e)
                                                     \/ AddFails(c, e)
                                \/ ClientRequests(c)
      PROVE  TransferInv'
  BY <1>1 DEF AddRealtime, AddStorage, AddFails, ClientRequests, tasks
<1>2. CASE Start \/ TerminateMain \/ TerminateRt \/ BodyDone \/ DestroyMembers
  BY <1>2 DEF Start, TerminateMain, TerminateRt, BodyDone, DestroyMembers, OwnerOnly
<1>3. ASSUME NEW w \in Workers, TaskBegins(w) PROVE TransferInv'
  BY <1>3 DEF TaskBegins, Goto
<1>4. CASE MainLoop \/ MainLooksAtCritical
  BY <1>4 DEF MainLoop, MainLooksAtCritical, Goto, WorkerOnly
<1>5. CASE MainPosts
  <2>1. at' = [at EXCEPT !["main"] = "post"] /\ WorkerOnly
    BY <1>5 DEF MainPosts, PostNormal, PostSimple, Post, Goto
  <2> QED BY <2>1 DEF WorkerOnly
<1>6. CASE RtLoop
  BY <1>6 DEF RtLoop, WorkerOnly
<1>7. CASE RtTransfers \/ RtTransferFails
  BY <1>7 DEF RtTransfers, RtTransferFails, tasks
<1>8. CASE RtRequestsMain \/ RtJoinsToo
  BY <1>8 DEF RtRequestsMain, RtJoinsToo
<1>9. ASSUME NEW w \in Workers, Accepted(w) PROVE TransferInv'
  <2>1. PICK where \in {"undefined", "loop"} : at' = [at EXCEPT ![w] = where]
    BY <1>9 DEF Accepted, Goto
  <2> QED BY <1>9, <2>1 DEF Accepted
<1>10. ASSUME NEW w \in Workers, Unauthorized(w) PROVE TransferInv'
  BY <1>10 DEF Unauthorized, WorkerOnly
<1>11. CASE MainFails
  BY <1>11 DEF MainFails, Goto
<1>12. CASE RtFails
  BY <1>12 DEF RtFails, Goto
<1>13. CASE UNCHANGED vars
  BY <1>13 DEF vars, tasks
<1> QED
  BY <1>1, <1>2, <1>3, <1>4, <1>5, <1>6, <1>7, <1>8, <1>9, <1>10, <1>11, <1>12, <1>13
     DEF Next, ClientStep, OwnerStep, Ended, MainStep, RtStep, Answer, Workers

(* The steps that do not touch the events. *)
Elsewhere == UNCHANGED <<queue, transfer, added, sent, dropped, refused, mistaken>>

LEMMA ElsewhereSteps ==
    ASSUME [Next]_vars
    PROVE  \/ Elsewhere
           \/ \E c \in Clients, e \in Events : AddRealtime(c, e) \/ AddStorage(c, e)
                                               \/ AddFails(c, e)
           \/ RtTransfers \/ RtTransferFails \/ RtFails \/ DestroyMembers
           \/ \E w \in Workers : Accepted(w)
<1> USE DEF Elsewhere, history
<1>1. ASSUME NEW c \in Clients, ClientRequests(c) PROVE Elsewhere
  BY <1>1 DEF ClientRequests
<1>2. CASE Start \/ TerminateMain \/ TerminateRt \/ BodyDone
  BY <1>2 DEF Start, TerminateMain, TerminateRt, BodyDone, OwnerOnly
<1>3. ASSUME NEW w \in Workers, TaskBegins(w) \/ Unauthorized(w) PROVE Elsewhere
  BY <1>3 DEF TaskBegins, Unauthorized, WorkerOnly
<1>4. CASE MainLoop \/ MainLooksAtCritical \/ MainPosts \/ MainFails \/ RtLoop
           \/ RtRequestsMain \/ RtJoinsToo
  BY <1>4 DEF MainLoop, MainLooksAtCritical, MainPosts, MainFails, RtLoop,
              RtRequestsMain, RtJoinsToo, WorkerOnly
<1>5. CASE UNCHANGED vars
  BY <1>5 DEF vars
<1> HIDE DEF Elsewhere
<1> QED BY <1>1, <1>2, <1>3, <1>4, <1>5
           DEF Next, ClientStep, OwnerStep, Ended, MainStep, RtStep, Answer, Workers

LEMMA EmptyTransfer ==
    ASSUME TransferInv, at["rt"] # "transfer"
    PROVE  transfer = <<>> /\ ToSet(transfer) = {}
BY DEF TransferInv, ToSet

(* No step loses an event without a file that refuses it, but a mistaken
   acknowledgement. *)
LEMMA KeptStep ==
    ASSUME TypeInv, TransferInv, KeptInv, [Next]_vars
    PROVE  KeptInv'
<1> SUFFICES ASSUME ~mistaken' PROVE Kept'
  BY Zenon DEF KeptInv
<1>1. CASE Elsewhere
  BY <1>1 DEF Elsewhere, KeptInv, Kept
<1>2. ASSUME NEW c \in Clients, NEW e \in Events, AddRealtime(c, e) PROVE Kept'
  <2>1. /\ "realtime" \in Batches /\ queue \in [Batches -> Seq(Events)]
        /\ queue' = [queue EXCEPT !["realtime"] = Append(queue["realtime"], e)]
    BY <1>2 DEF AddRealtime, Store, TypeInv, TypeOK, Batches
  <2>2. Held(queue') = Held(queue) \cup {e}
    BY <2>1, AppendQueue
  <2> QED BY <1>2, <2>2 DEF AddRealtime, KeptInv, Kept
<1>3. ASSUME NEW c \in Clients, NEW e \in Events, AddStorage(c, e) PROVE Kept'
  <2>1. /\ refused \subseteq refused' /\ Held(queue) \subseteq Held(queue') \cup refused'
        /\ e \in Held(queue')
    BY <1>3, StorageEffect DEF AddStorage, TypeInv
  <2> QED BY <1>3, <2>1 DEF AddStorage, KeptInv, Kept
<1>4. ASSUME NEW c \in Clients, NEW e \in Events, AddFails(c, e) PROVE Kept'
  BY <1>4 DEF AddFails, KeptInv, Kept
<1>5. CASE RtTransfers
  <2>1. transfer \in Seq(Events) /\ transfer # <<>> /\ Head(transfer) \in Events
    BY <1>5 DEF RtTransfers, TypeInv, TypeOK
  <2>2. /\ refused \subseteq refused' /\ Held(queue) \subseteq Held(queue') \cup refused'
        /\ Head(transfer) \in Held(queue')
    BY <1>5, <2>1, StorageEffect DEF RtTransfers, TypeInv
  <2>3. ToSet(transfer) = {Head(transfer)} \cup ToSet(Tail(transfer))
    BY <2>1, TailElements
  <2> QED BY <1>5, <2>2, <2>3 DEF RtTransfers, KeptInv, Kept
<1>6. CASE RtTransferFails
  <2>1. transfer \in Seq(Events) /\ transfer # <<>>
    BY <1>6 DEF RtTransferFails, TypeInv, TypeOK
  <2>2. ToSet(transfer) = {Head(transfer)} \cup ToSet(Tail(transfer))
    BY <2>1, TailElements
  <2> QED BY <1>6, <2>2 DEF RtTransferFails, KeptInv, Kept
<1>7. CASE RtFails
  <2>1. /\ "realtime" \in Batches /\ queue \in [Batches -> Seq(Events)] /\ <<>> \in Seq(Events)
        /\ queue' = [queue EXCEPT !["realtime"] = <<>>]
    BY <1>7 DEF RtFails, TypeInv, TypeOK, Batches
  <2>2. Held(queue) \subseteq Held(queue') \cup ToSet(queue["realtime"])
    BY <2>1, ChangeOne
  <2>3. ToSet(transfer) = {} /\ transfer' = queue["realtime"]
    BY <1>7, EmptyTransfer DEF RtFails
  <2> QED BY <1>7, <2>2, <2>3 DEF RtFails, history, KeptInv, Kept
<1>8. CASE DestroyMembers
  <2>1. <<>> \in Seq(Events) /\ Flush(<<>>) /\ TypeOK
    BY <1>8 DEF DestroyMembers, TypeInv
  <2>2. refused \subseteq refused' /\ Held(queue) \subseteq Held(queue') \cup refused'
    BY <2>1, FlushEffect
  <2> QED BY <1>8, <2>2 DEF DestroyMembers, OwnerOnly, KeptInv, Kept
<1>9. ASSUME NEW w \in Workers, Accepted(w) PROVE Kept'
  <2> DEFINE l == list[w]
             mid == [queue EXCEPT ![l.batch] = Without(queue[l.batch], Len(l.events))]
             out == ToSet(l.events) \cup ToSet(l.buffered)
  <2>1. /\ l.batch \in Batches \ {"buffer"}
        /\ l.events \in Seq(Events) /\ l.buffered \in Seq(Events)
        /\ w = "rt" => l.buffered = <<>>
        /\ Begins(l.events, queue[l.batch])
        /\ ~moved => Begins(l.buffered, queue["buffer"])
        /\ queue' = [mid EXCEPT !["buffer"] = Without(mid["buffer"], Len(l.buffered))]
    BY <1>9, AcceptedQueues
  <2>2. /\ ~mistaken /\ (w = "main" => ~moved) /\ UNCHANGED <<added, dropped, refused, transfer>>
        /\ sent' = sent \cup out
    BY <1>9 DEF Accepted
  <2>3. queue \in [Batches -> Seq(Events)] /\ queue["buffer"] \in Seq(Events)
    BY DEF TypeInv, TypeOK, Batches
  <2>4. Begins(l.buffered, queue["buffer"])
    BY <2>1, <2>2, <2>3, BeginsTransitive DEF Workers
  <2> HIDE DEF l
  <2>5. Held(queue) \subseteq Held(queue') \cup out
    <3> DEFINE b == l.batch
               p == l.events
               s == l.buffered
    <3>1. /\ b \in Batches \ {"buffer"} /\ p \in Seq(Events) /\ s \in Seq(Events)
          /\ Begins(p, queue[b]) /\ Begins(s, queue["buffer"])
          /\ queue' = Acknowledged(queue, b, p, s)
          /\ out = ToSet(p) \cup ToSet(s)
      BY <2>1, <2>4 DEF Acknowledged
    <3> HIDE DEF b, p, s, mid, out
    <3>2. Held(queue) \subseteq Held(queue') \cup ToSet(p) \cup ToSet(s)
      BY <2>3, <3>1, AcceptEffect
    <3> QED BY <3>1, <3>2
  <2> HIDE DEF out
  <2> QED BY <2>2, <2>5 DEF KeptInv, Kept
<1> QED BY <1>1, <1>2, <1>3, <1>4, <1>5, <1>6, <1>7, <1>8, <1>9, ElsewhereSteps

(* No step puts an event into a second place, but a mistaken acknowledgement. *)
LEMMA OnceStep ==
    ASSUME TypeInv, TransferInv, OnceInv, [Next]_vars
    PROVE  OnceInv'
<1> SUFFICES ASSUME ~mistaken' PROVE Once'
  BY Zenon DEF OnceInv
<1>1. CASE Elsewhere
  BY <1>1 DEF Elsewhere, OnceInv, Once
<1>2. ASSUME NEW c \in Clients, NEW e \in Events, AddRealtime(c, e) PROVE Once'
  <2>1. /\ "realtime" \in Batches /\ queue \in [Batches -> Seq(Events)]
        /\ queue' = [queue EXCEPT !["realtime"] = Append(queue["realtime"], e)]
        /\ e \notin added /\ added' = added \cup {e} /\ UNCHANGED <<transfer, sent, mistaken>>
    BY <1>2 DEF AddRealtime, CanAdd, Store, TypeInv, TypeOK, Batches
  <2>2. /\ Held(queue') = Held(queue) \cup {e}
        /\ Distinct(queue) /\ e \notin Held(queue) => Distinct(queue')
    BY <2>1, AppendQueue
  <2> QED BY <2>1, <2>2 DEF OnceInv, Once
<1>3. ASSUME NEW c \in Clients, NEW e \in Events, AddStorage(c, e) PROVE Once'
  <2>1. /\ Held(queue') \subseteq Held(queue) \cup {e}
        /\ Distinct(queue) /\ e \notin Held(queue) => Distinct(queue')
    BY <1>3, StorageEffect DEF AddStorage, TypeInv
  <2>2. e \notin added /\ added' = added \cup {e} /\ UNCHANGED <<transfer, sent, mistaken>>
    BY <1>3 DEF AddStorage, CanAdd
  <2> QED BY <2>1, <2>2 DEF OnceInv, Once
<1>4. ASSUME NEW c \in Clients, NEW e \in Events, AddFails(c, e) PROVE Once'
  BY <1>4 DEF AddFails, OnceInv, Once
<1>5. CASE RtTransfers
  <2>1. transfer \in Seq(Events) /\ transfer # <<>> /\ Head(transfer) \in Events
    BY <1>5 DEF RtTransfers, TypeInv, TypeOK
  <2>2. /\ Held(queue') \subseteq Held(queue) \cup {Head(transfer)}
        /\ Distinct(queue) /\ Head(transfer) \notin Held(queue) => Distinct(queue')
    BY <1>5, <2>1, StorageEffect DEF RtTransfers, TypeInv
  <2>3. /\ ToSet(transfer) = {Head(transfer)} \cup ToSet(Tail(transfer))
        /\ IsInjective(transfer) => /\ IsInjective(Tail(transfer))
                                    /\ Head(transfer) \notin ToSet(Tail(transfer))
    BY <2>1, TailElements
  <2>4. transfer' = Tail(transfer) /\ UNCHANGED <<added, sent, mistaken>>
    BY <1>5 DEF RtTransfers
  <2> QED BY <2>2, <2>3, <2>4 DEF OnceInv, Once
<1>6. CASE RtTransferFails
  <2>1. transfer \in Seq(Events) /\ transfer # <<>>
    BY <1>6 DEF RtTransferFails, TypeInv, TypeOK
  <2>2. /\ ToSet(transfer) = {Head(transfer)} \cup ToSet(Tail(transfer))
        /\ IsInjective(transfer) => IsInjective(Tail(transfer))
    BY <2>1, TailElements
  <2>3. transfer' = Tail(transfer) /\ UNCHANGED <<queue, added, sent, mistaken>>
    BY <1>6 DEF RtTransferFails
  <2> QED BY <2>2, <2>3 DEF OnceInv, Once
<1>7. CASE RtFails
  <2>1. /\ "realtime" \in Batches /\ queue \in [Batches -> Seq(Events)] /\ <<>> \in Seq(Events)
        /\ queue' = [queue EXCEPT !["realtime"] = <<>>]
        /\ transfer' = queue["realtime"] /\ UNCHANGED <<added, sent, mistaken>>
    BY <1>7 DEF RtFails, history, TypeInv, TypeOK, Batches
  <2>2. ToSet(<<>>) = {} /\ IsInjective(<<>>)
    BY DEF ToSet, IsInjective
  <2>3. /\ Distinct(queue) /\ IsInjective(<<>>)
           /\ ToSet(<<>>) \cap Held(queue) \subseteq ToSet(queue["realtime"])
             => Distinct(queue')
        /\ Distinct(queue) /\ ToSet(<<>>) \subseteq ToSet(queue["realtime"])
             => Held(queue') = (Held(queue) \ ToSet(queue["realtime"])) \cup ToSet(<<>>)
    BY <2>1, ChangeOne
  <2>4. ToSet(queue["realtime"]) \subseteq Held(queue)
    BY <2>1, HeldIn
  <2>5. Distinct(queue) => IsInjective(queue["realtime"])
    BY <2>1 DEF Distinct
  <2> QED BY <2>1, <2>2, <2>3, <2>4, <2>5 DEF OnceInv, Once
<1>8. CASE DestroyMembers
  <2>1. <<>> \in Seq(Events) /\ Flush(<<>>) /\ TypeOK
    BY <1>8 DEF DestroyMembers, TypeInv
  <2>2. ToSet(<<>>) = {} /\ IsInjective(<<>>)
    BY DEF ToSet, IsInjective
  <2>3. Held(queue') \subseteq Held(queue) /\ (Distinct(queue) => Distinct(queue'))
    BY <2>1, <2>2, FlushEffect
  <2>4. UNCHANGED <<transfer, added, sent, mistaken>>
    BY <1>8 DEF DestroyMembers, OwnerOnly
  <2> QED BY <2>3, <2>4 DEF OnceInv, Once
<1>9. ASSUME NEW w \in Workers, Accepted(w) PROVE Once'
  <2> DEFINE l == list[w]
             mid == [queue EXCEPT ![l.batch] = Without(queue[l.batch], Len(l.events))]
             out == ToSet(l.events) \cup ToSet(l.buffered)
  <2>1. /\ l.batch \in Batches \ {"buffer"}
        /\ l.events \in Seq(Events) /\ l.buffered \in Seq(Events)
        /\ w = "rt" => l.buffered = <<>>
        /\ Begins(l.events, queue[l.batch])
        /\ ~moved => Begins(l.buffered, queue["buffer"])
        /\ queue' = [mid EXCEPT !["buffer"] = Without(mid["buffer"], Len(l.buffered))]
    BY <1>9, AcceptedQueues
  <2>2. /\ ~mistaken /\ (w = "main" => ~moved) /\ UNCHANGED <<added, transfer>>
        /\ sent' = sent \cup out
    BY <1>9 DEF Accepted
  <2>3. queue \in [Batches -> Seq(Events)] /\ queue["buffer"] \in Seq(Events)
    BY DEF TypeInv, TypeOK, Batches
  <2>4. Begins(l.buffered, queue["buffer"])
    BY <2>1, <2>2, <2>3, BeginsTransitive DEF Workers
  <2> HIDE DEF l
  <2>5. /\ Held(queue') \subseteq Held(queue) /\ out \subseteq Held(queue)
        /\ Distinct(queue) => Distinct(queue') /\ out \cap Held(queue') = {}
    <3> DEFINE b == l.batch
               p == l.events
               s == l.buffered
    <3>1. /\ b \in Batches \ {"buffer"} /\ p \in Seq(Events) /\ s \in Seq(Events)
          /\ Begins(p, queue[b]) /\ Begins(s, queue["buffer"])
          /\ queue' = Acknowledged(queue, b, p, s)
          /\ out = ToSet(p) \cup ToSet(s)
      BY <2>1, <2>4 DEF Acknowledged
    <3> HIDE DEF b, p, s, mid, out
    <3>2. /\ Held(queue') \subseteq Held(queue) /\ ToSet(p) \cup ToSet(s) \subseteq Held(queue)
          /\ Distinct(queue) => /\ Distinct(queue') /\ ToSet(p) \cap Held(queue') = {}
                                /\ ToSet(s) \cap Held(queue') = {}
      BY <2>3, <3>1, AcceptEffect
    <3> QED BY <3>1, <3>2
  <2> HIDE DEF out
  <2> QED BY <2>2, <2>5 DEF OnceInv, Once
<1> QED BY <1>1, <1>2, <1>3, <1>4, <1>5, <1>6, <1>7, <1>8, <1>9, ElsewhereSteps

-----------------------------------------------------------------------------
AllInv == TypeInv /\ OwnerInv /\ AttendedInv /\ TransferInv /\ KeptInv /\ OnceInv

LEMMA InitInv == Init => AllInv
<1> SUFFICES ASSUME Init PROVE AllInv
  OBVIOUS
<1>1. TypeOK /\ PostInv
  <2>1. /\ queue \in [Batches -> Seq(Events)]
        /\ queue["realtime"] = <<>> /\ queue["buffer"] = <<>>
    BY DEF Init, Batches
  <2>2. Len(queue["realtime"]) <= RealtimeLimit /\ Len(queue["buffer"]) <= BufferLimit
    BY <2>1, ManagerAssumption
  <2>3. /\ list \in [Workers -> Lists \cup {NoList}] /\ transfer \in Seq(Events)
        /\ at \in [Workers -> MainPlaces \cup RtPlaces]
        /\ at["main"] \in MainPlaces /\ at["rt"] \in RtPlaces
    BY DEF Init, Workers, MainPlaces, RtPlaces
  <2>4. TypeOK
    BY <2>1, <2>2, <2>3 DEF Init, TypeOK, Workers, OwnerPlaces
  <2> QED BY <2>4 DEF Init, PostInv, Workers
<1>2. OwnerInv /\ AttendedInv /\ TransferInv
  BY DEF Init, OwnerInv, Running, AttendedInv, RealtimeIsAttended, StorageIsAttended,
         NormalHasEvents, BetweenLooks, TransferInv, Workers, Batches
<1>3. \A b \in Batches : ToSet(queue[b]) = {} /\ IsInjective(queue[b])
  BY DEF Init, ToSet, IsInjective
<1>4. Held(queue) = {} /\ Distinct(queue)
  BY <1>3, HeldIn DEF Distinct
<1>5. ToSet(transfer) = {} /\ IsInjective(transfer)
  BY DEF Init, ToSet, IsInjective
<1>6. KeptInv /\ OnceInv
  BY <1>4, <1>5 DEF Init, KeptInv, Kept, OnceInv, Once
<1> QED BY <1>1, <1>2, <1>6 DEF AllInv, TypeInv

LEMMA InvAlways == Spec => []AllInv
<1>1. AllInv /\ [Next]_vars => AllInv'
  BY TypeStep, OwnerStepInv, AttendedStep, TransferStep, KeptStep, OnceStep DEF AllInv
<1> QED BY <1>1, InitInv, PTL DEF Spec

LEMMA QueuesHold ==
    ASSUME TypeOK
    PROVE  InQueues = Held(queue) \cup ToSet(transfer)
<1>1. ToSet(transfer) \subseteq Events /\ \A b \in Batches : ToSet(queue[b]) \subseteq Events
  BY DEF TypeOK, ToSet
<1> QED BY <1>1, HeldIn DEF InQueues

(* Every variable of EventManager keeps its type; the realtime batch and the
   buffer keep their limits. *)
THEOREM TypeCorrect == Spec => []TypeOK
<1>1. AllInv => TypeOK
  BY DEF AllInv, TypeInv
<1> QED BY <1>1, InvAlways, PTL

(* Between a worker's last look at its queues and an add() there is no gap in
   which an event is left without a worker or a request: neither in memory nor
   on disk, where clients and the realtime worker fill two queues while the main
   worker looks at them one after the other. *)
THEOREM QueuesAreAttended == Spec => []EventsAreAttended
<1>1. AllInv => EventsAreAttended
  BY DEF AllInv, AttendedInv, EventsAreAttended
<1> QED BY <1>1, InvAlways, PTL

(* If ~EventManager and the destructors of its members return, every worker has
   ended, its thread has been joined, and no event is left in memory, although
   the realtime worker may have started the main task again after its
   terminate(). *)
THEOREM WorkersDoNotOutlive == Spec => []NoWorkerOutlives
<1>1. ASSUME AllInv, owner = "destroyed"
      PROVE  /\ \A w \in Workers : Exited(w) /\ ~held[w]
             /\ queue["realtime"] = <<>> /\ queue["buffer"] = <<>> /\ transfer = <<>>
  <2>1. /\ Exited("rt") /\ ~held["rt"] /\ Exited("main") /\ ~held["main"]
        /\ queue["buffer"] = <<>> /\ \A c \in Clients : client[c] = "out"
    BY <1>1 DEF AllInv, OwnerInv
  <2>2. queue["realtime"] = <<>>
    BY <1>1, <2>1 DEF AllInv, AttendedInv, RealtimeIsAttended, Awake, Running, Exited
  <2>3. transfer = <<>>
    BY <1>1, <2>1 DEF AllInv, TransferInv, Exited
  <2> QED BY <2>1, <2>2, <2>3 DEF Workers
<1>2. AllInv => NoWorkerOutlives
  BY <1>1 DEF NoWorkerOutlives
<1> QED BY <1>2, InvAlways, PTL

(* An event that add() took is in a queue until it has been uploaded, through
   every failure of the server and every flush of the buffer, unless a file does
   not take it; until a list is acknowledged after a flush of its events. *)
THEOREM NoEventIsLost == Spec => []EveryEventIsSomewhere
<1>1. AllInv => EveryEventIsSomewhere
  BY QueuesHold DEF AllInv, TypeInv, KeptInv, Kept, EveryEventIsSomewhere
<1> QED BY <1>1, InvAlways, PTL

(* No event is in two queues or twice in one, and an uploaded one is in none:
   neither the realtime worker's move of all events from memory to disk nor a
   flush of the buffer, with clients adding and the main worker uploading during
   it, copies an event; until the same acknowledgement. *)
THEOREM NoEventIsTwice == Spec => []EveryEventIsOnce
<1>1. ASSUME AllInv, ~mistaken
      PROVE  /\ sent \cap InQueues = {}
             /\ IsInjective(transfer) /\ \A b \in Batches : IsInjective(queue[b])
             /\ \A b, c \in Batches : b # c => ToSet(queue[b]) \cap ToSet(queue[c]) = {}
             /\ \A b \in Batches : ToSet(queue[b]) \cap ToSet(transfer) = {}
  <2>1. Once /\ TypeOK
    BY <1>1 DEF AllInv, TypeInv, OnceInv
  <2>2. sent \cap InQueues = {}
    BY <2>1, QueuesHold DEF Once
  <2>3. \A b \in Batches : ToSet(queue[b]) \subseteq Held(queue)
    BY HeldIn
  <2>4. \A b \in Batches : ToSet(queue[b]) \cap ToSet(transfer) = {}
    BY <2>1, <2>3 DEF Once
  <2> QED BY <2>1, <2>2, <2>4 DEF Once, Distinct
<1>2. AllInv => EveryEventIsOnce
  BY <1>1 DEF EveryEventIsOnce
<1> QED BY <1>2, InvAlways, PTL
===============================================================================
