---------------------------- MODULE TelemetryProofs ----------------------------
(***************************************************************************)
(* Proofs about the two parts of the telemetry library that are used by    *)
(* all others and know of none: FileEventBatch, for any events of any      *)
(* sizes, any limits and any number of crashes and failed writes, and      *)
(* TaskWithDelayThread, for any number of clients and any set of thread    *)
(* identities.                                                             *)
(***************************************************************************)
EXTENDS FileEventBatch, TaskWithDelayThread, SequenceTheorems, FiniteSetTheorems,
        WellFoundedInduction, TLAPS

-----------------------------------------------------------------------------
(***************************************************************************)
(* FileEventBatch: what the object records is true of the file, the file   *)
(* is whole lines, no accepted event is lost, and until the first fault    *)
(* the bytes behave as the queue of EventBatch.                            *)
(***************************************************************************)
(* What is known of the file whatever has failed: the size and the offset never
   point behind bytes that were cut off, and no newline is uncounted. *)
SizeInv ==
    fd => /\ fileSize <= Len(disk)
          /\ streamAtEnd => fileSize <= pos
          /\ Cardinality(Newlines(disk)) <= eventCount

(* The list that is out is the start of the part of the file that is recorded. *)
ListInv ==
    list # NoList =>
        /\ fd
        /\ Len(list) <= fileSize
        /\ list = SubSeq(disk, 1, Len(list))
        /\ list # <<>> => IsNewline(list[Len(list)])

(* Until a write fails the records are exact.  While a list is out, the offset
   is at the end only if an event was added since, so that the list is not the
   whole file. *)
ExactInv ==
    fd /\ ~WriteFailed =>
        /\ fileSize = Len(disk)
        /\ eventCount = Cardinality(Newlines(disk))
        /\ streamAtEnd => pos = Len(disk)
        /\ list # NoList /\ streamAtEnd => Len(list) < fileSize

(* Every byte belongs to an event and the next byte is the next one of that
   event, up to its newline. *)
RunAt(d, i) ==
    \E e \in Events : \E k \in 1..Size[e] :
        /\ d[i] = <<e, k>>
        /\ k # Size[e] => i < Len(d) /\ d[i + 1] = <<e, k + 1>>

Runs(d) == \A i \in 1..Len(d) : RunAt(d, i)

(* Every line begins with the first byte of an event. *)
Starts(d) ==
    \A i \in 1..Len(d) :
        (i = 1 \/ IsNewline(d[i - 1])) => \E e \in Events : d[i] = <<e, 1>>

Sound == ~WriteFailed /\ "copy" \notin ToSet(faults)

LineInv == /\ Sound => Runs(disk)
           /\ faults = <<>> => Starts(disk)

FileInv ==
    /\ TypeOK
    /\ fd \in BOOLEAN /\ streamAtEnd \in BOOLEAN /\ finalized \in BOOLEAN
    /\ SizeInv /\ ListInv /\ ExactInv /\ LineInv /\ NothingAcceptedIsLost

-----------------------------------------------------------------------------
(* Numbers. *)
LEMMA LeastNumber ==
    ASSUME NEW B \in SUBSET Nat, B # {}
    PROVE  \E n \in B : \A k \in B : n <= k
<1> DEFINE R == {ss \in Nat \X Nat : ss[1] < ss[2]}
<1>1. IsWellFoundedOn(R, Nat)
  BY NatLessThanWellFounded, Zenon DEF OpToRel
<1>2. PICK x \in B : \A y \in B : <<y, x>> \notin R
  <2> HIDE DEF R
  <2> QED BY <1>1, WFMin
<1>3. ASSUME NEW y \in B, y < x PROVE FALSE
  <2>1. <<y, x>> \in R
    BY <1>3
  <2> QED BY <1>2, <2>1
<1> QED BY <1>3

LEMMA MaxIs ==
    ASSUME NEW S \in SUBSET Nat, NEW m \in S, \A x \in S : x <= m
    PROVE  Max(S) = m
<1>1. \A x \in S : (\A y \in S : x >= y) => x = m
  OBVIOUS
<1>2. \A y \in S : m >= y
  OBVIOUS
<1>3. Max(S) \in S /\ \A y \in S : Max(S) >= y
  BY <1>2, Zenon DEF Max
<1> QED BY <1>1, <1>3

LEMMA MinIs ==
    ASSUME NEW S \in SUBSET Nat, NEW m \in S, \A x \in S : m <= x
    PROVE  Min(S) = m
<1>1. \A x \in S : (\A y \in S : x <= y) => x = m
  OBVIOUS
<1>2. \A y \in S : m <= y
  OBVIOUS
<1>3. Min(S) \in S /\ \A y \in S : Min(S) <= y
  BY <1>2, Zenon DEF Min
<1> QED BY <1>1, <1>3

LEMMA MaxOfBounded ==
    ASSUME NEW n \in Nat, NEW S \in SUBSET (0..n), S # {}
    PROVE  Max(S) \in S /\ \A x \in S : x <= Max(S)
<1> DEFINE B == {k \in Nat : \A x \in S : x <= k}
<1>1. B \in SUBSET Nat /\ n \in B
  OBVIOUS
<1>2. PICK k \in B : \A j \in B : k <= j
  <2> HIDE DEF B
  <2> QED BY <1>1, LeastNumber
<1>3. k \in Nat /\ \A x \in S : x <= k
  OBVIOUS
<1>4. k \in S
  <2> SUFFICES ASSUME k \notin S PROVE FALSE
    OBVIOUS
  <2>1. PICK x \in S : TRUE
    OBVIOUS
  <2>2. x \in Nat /\ x <= k /\ x # k
    BY <1>3
  <2>3. k - 1 \in Nat
    BY <1>3, <2>2
  <2>4. \A y \in S : y <= k - 1
    BY <1>3
  <2>5. k - 1 \in B
    BY <2>3, <2>4
  <2> QED BY <1>2, <1>3, <2>5
<1>5. Max(S) = k
  <2> HIDE DEF B
  <2>1. S \in SUBSET Nat
    OBVIOUS
  <2> QED BY <1>3, <1>4, <2>1, MaxIs
<1> QED BY <1>3, <1>4, <1>5

LEMMA MaxOfTwo ==
    ASSUME NEW a \in Nat, NEW b \in Nat
    PROVE  Max({a, b}) = IF a <= b THEN b ELSE a
<1>1. CASE a <= b
  BY <1>1, MaxIs
<1>2. CASE ~(a <= b)
  BY <1>2, MaxIs
<1> QED BY <1>1, <1>2

LEMMA MinOfThree ==
    ASSUME NEW a \in Nat, NEW b \in Nat, NEW c \in Nat
    PROVE  /\ Min({a, b, c}) \in Nat
           /\ Min({a, b, c}) <= a /\ Min({a, b, c}) <= b /\ Min({a, b, c}) <= c
<1> DEFINE S == {a, b, c}
<1>1. PICK m \in S : \A x \in S : m <= x
  <2>1. S \in SUBSET Nat /\ S # {}
    OBVIOUS
  <2> HIDE DEF S
  <2> QED BY <2>1, LeastNumber
<1>2. Min(S) = m
  <2>1. S \in SUBSET Nat
    OBVIOUS
  <2> HIDE DEF S
  <2> QED BY <1>1, <2>1, MinIs
<1> QED BY <1>1, <1>2

-----------------------------------------------------------------------------
(* Bytes and newlines. *)
LEMMA SizeFacts ==
    ASSUME NEW e \in Events
    PROVE  Size[e] \in Nat /\ Size[e] >= 2
BY SizeAssumption

LEMMA BytesType ==
    ASSUME NEW e \in Events
    PROVE  /\ Bytes(e) \in Seq(FileBytes)
           /\ Len(Bytes(e)) = Size[e]
           /\ \A k \in 1..Size[e] : Bytes(e)[k] = <<e, k>>
<1>1. Size[e] \in Nat
  BY SizeFacts
<1>2. \A k \in 1..Size[e] : <<e, k>> \in FileBytes
  BY <1>1 DEF FileBytes
<1> QED BY <1>1, <1>2 DEF Bytes

LEMMA NewlineIs ==
    ASSUME NEW e \in Events, NEW k \in 1..Size[e]
    PROVE  IsNewline(<<e, k>>) <=> k = Size[e]
<1>1. <<e, k>> # Nul
  BY SizeFacts DEF Nul
<1> QED BY <1>1 DEF IsNewline

LEMMA NewlinesFinite ==
    ASSUME NEW d \in Seq(FileBytes)
    PROVE  /\ Newlines(d) \subseteq 1..Len(d)
           /\ IsFiniteSet(Newlines(d))
           /\ Cardinality(Newlines(d)) \in Nat
<1>1. Newlines(d) \subseteq 1..Len(d)
  BY DEF Newlines
<1>2. IsFiniteSet(1..Len(d))
  BY FS_Interval
<1>3. IsFiniteSet(Newlines(d))
  BY <1>1, <1>2, FS_Subset
<1> QED BY <1>1, <1>3, FS_CardinalityType

LEMMA FewerNewlines ==
    ASSUME NEW c \in Seq(FileBytes), NEW d \in Seq(FileBytes), Newlines(c) \subseteq Newlines(d)
    PROVE  Cardinality(Newlines(c)) <= Cardinality(Newlines(d))
BY NewlinesFinite, FS_Subset

LEMMA PrefixFacts ==
    ASSUME NEW d \in Seq(FileBytes), NEW n \in 0..Len(d)
    PROVE  LET p == SubSeq(d, 1, n)
           IN  /\ p \in Seq(FileBytes) /\ Len(p) = n /\ \A i \in 1..n : p[i] = d[i]
               /\ Newlines(p) = {i \in Newlines(d) : i <= n}
<1> DEFINE p == SubSeq(d, 1, n)
<1>1. p \in Seq(FileBytes) /\ Len(p) = n /\ \A i \in 1..n : p[i] = d[i]
  OBVIOUS
<1>2. DOMAIN p = 1..n /\ DOMAIN d = 1..Len(d)
  BY <1>1
<1> HIDE DEF p
<1>3. Newlines(p) = {i \in Newlines(d) : i <= n}
  BY <1>1, <1>2 DEF Newlines
<1> QED BY <1>1, <1>3 DEF p

LEMMA RestFacts ==
    ASSUME NEW d \in Seq(FileBytes), NEW n \in 0..Len(d)
    PROVE  LET r == SubSeq(d, n + 1, Len(d))
           IN  /\ r \in Seq(FileBytes) /\ Len(r) = Len(d) - n
               /\ \A i \in 1..(Len(d) - n) : r[i] = d[n + i]
               /\ Newlines(r) = {i \in 1..(Len(d) - n) : n + i \in Newlines(d)}
<1> DEFINE r == SubSeq(d, n + 1, Len(d))
<1>1. r \in Seq(FileBytes) /\ Len(r) = Len(d) - n /\ \A i \in 1..(Len(d) - n) : r[i] = d[n + i]
  OBVIOUS
<1>2. DOMAIN r = 1..(Len(d) - n) /\ DOMAIN d = 1..Len(d)
  BY <1>1
<1> HIDE DEF r
<1>3. Newlines(r) = {i \in 1..(Len(d) - n) : n + i \in Newlines(d)}
  BY <1>1, <1>2 DEF Newlines
<1> QED BY <1>1, <1>3 DEF r

(* The newlines of a file are those of its start and those of the rest. *)
LEMMA SplitNewlines ==
    ASSUME NEW d \in Seq(FileBytes), NEW n \in 0..Len(d)
    PROVE  Cardinality(Newlines(d)) = Cardinality(Newlines(SubSeq(d, 1, n)))
                                      + Cardinality(Newlines(SubSeq(d, n + 1, Len(d))))
<1> DEFINE p == SubSeq(d, 1, n)
           r == SubSeq(d, n + 1, Len(d))
           A == Newlines(p)
           B == Newlines(r)
           C == {i \in Newlines(d) : i > n}
           f == [i \in B |-> n + i]
<1>1. A = {i \in Newlines(d) : i <= n} /\ p \in Seq(FileBytes)
  BY PrefixFacts
<1>2. B = {i \in 1..(Len(d) - n) : n + i \in Newlines(d)} /\ r \in Seq(FileBytes)
  BY RestFacts
<1> HIDE DEF p, r
<1>3. IsFiniteSet(A) /\ IsFiniteSet(B) /\ IsFiniteSet(Newlines(d)) /\ Newlines(d) \subseteq 1..Len(d)
  BY <1>1, <1>2, NewlinesFinite
<1> HIDE DEF A, B
<1>4. f \in Bijection(B, C)
  <2>1. f \in [B -> C]
    BY <1>2, <1>3
  <2>2. \A i, j \in B : f[i] = f[j] => i = j
    BY <1>2
  <2>3. \A c \in C : \E i \in B : f[i] = c
    <3> TAKE c \in C
    <3>1. c - n \in B /\ f[c - n] = c
      BY <1>2, <1>3
    <3> QED BY <3>1
  <2> HIDE DEF f, C
  <2> QED BY <2>1, <2>2, <2>3 DEF Bijection, Injection, Surjection, IsInjective
<1>5. IsFiniteSet(C) /\ Cardinality(C) = Cardinality(B)
  <2> HIDE DEF f, C
  <2>1. ExistsBijection(B, C)
    BY <1>4 DEF ExistsBijection
  <2> QED BY <1>3, <2>1, FS_Bijection
<1>6. A \cup C = Newlines(d) /\ A \cap C = {}
  BY <1>1, <1>3
<1>7. Cardinality(A \cup C) = Cardinality(A) + Cardinality(C)
  <2> HIDE DEF C
  <2>1. Cardinality(A \cup C) = Cardinality(A) + Cardinality(C) - Cardinality(A \cap C)
    BY <1>3, <1>5, FS_Union
  <2>2. Cardinality({}) = 0 /\ Cardinality(A) \in Nat /\ Cardinality(C) \in Nat
    BY <1>3, <1>5, FS_EmptySet, FS_CardinalityType
  <2>3. Cardinality(A \cap C) = 0
    BY <1>6, <2>2
  <2> HIDE DEF f
  <2> QED BY <2>1, <2>2, <2>3
<1> QED BY <1>5, <1>6, <1>7 DEF A, B, p, r

-----------------------------------------------------------------------------
(* What write() and the constructor do to the bytes. *)
Written(w, d, p, b) ==
    LET n == IF Len(d) <= p + Len(b) THEN p + Len(b) ELSE Len(d)
    IN  /\ w \in Seq(FileBytes) /\ Len(w) = n
        /\ \A i \in 1..n : w[i] = IF i > p /\ i <= p + Len(b) THEN b[i - p]
                                  ELSE IF i <= Len(d) THEN d[i] ELSE Nul

LEMMA WriteFacts ==
    ASSUME NEW d \in Seq(FileBytes), NEW p \in Nat, NEW b \in Seq(FileBytes), b # <<>>
    PROVE  Written(WriteAt(d, p, b), d, p, b)
<1> DEFINE n == IF Len(d) <= p + Len(b) THEN p + Len(b) ELSE Len(d)
           At(i) == IF i > p /\ i <= p + Len(b) THEN b[i - p]
                    ELSE IF i <= Len(d) THEN d[i] ELSE Nul
           w == [i \in 1..n |-> At(i)]
<1>1. n \in Nat /\ n = Max({Len(d), p + Len(b)})
  BY MaxOfTwo
<1>2. \A i \in 1..n : At(i) \in FileBytes
  <2> TAKE i \in 1..n
  <2>1. CASE i > p /\ i <= p + Len(b)
    <3>1. i - p \in 1..Len(b) /\ At(i) = b[i - p]
      BY <2>1
    <3> QED BY <3>1
  <2>2. CASE ~(i > p /\ i <= p + Len(b))
    <3>1. At(i) = IF i <= Len(d) THEN d[i] ELSE Nul
      BY <2>2
    <3> QED BY <3>1 DEF FileBytes
  <2> QED BY <2>1, <2>2
<1>3. WriteAt(d, p, b) = w
  <2>1. WriteAt(d, p, b) = [i \in 1..Max({Len(d), p + Len(b)}) |-> At(i)]
    BY DEF WriteAt
  <2> HIDE DEF n, At
  <2> QED BY <1>1, <2>1
<1>4. w \in Seq(FileBytes) /\ Len(w) = n /\ \A i \in 1..n : w[i] = At(i)
  <2> HIDE DEF n, At
  <2>1. w \in [1..n -> FileBytes] /\ \A i \in 1..n : w[i] = At(i)
    BY <1>2
  <2> HIDE DEF w
  <2>2. w \in Seq(FileBytes) /\ Len(w) = n
    <3>1. ASSUME NEW m \in Nat, NEW v \in [1..m -> FileBytes] PROVE v \in Seq(FileBytes) /\ Len(v) = m
      OBVIOUS
    <3> QED BY <1>1, <2>1, <3>1
  <2> QED BY <2>1, <2>2
<1> HIDE DEF w
<1> QED BY <1>3, <1>4 DEF Written

(* A write at the end appends. *)
LEMMA WriteAtEnd ==
    ASSUME NEW d \in Seq(FileBytes), NEW b \in Seq(FileBytes)
    PROVE  LET w == WriteAt(d, Len(d), b)
           IN  /\ w \in Seq(FileBytes) /\ Len(w) = Len(d) + Len(b)
               /\ \A i \in 1..Len(d) : w[i] = d[i]
               /\ \A i \in 1..Len(b) : w[Len(d) + i] = b[i]
<1>1. CASE b = <<>>
  BY <1>1 DEF WriteAt
<1>2. CASE b # <<>>
  <2> DEFINE w == WriteAt(d, Len(d), b)
             m == Len(d)
             n == Len(b)
  <2>1. m \in Nat /\ n \in Nat
    OBVIOUS
  <2>2. /\ w \in Seq(FileBytes) /\ Len(w) = IF m <= m + n THEN m + n ELSE m
        /\ \A i \in 1..(IF m <= m + n THEN m + n ELSE m) :
               w[i] = IF i > m /\ i <= m + n THEN b[i - m]
                      ELSE IF i <= m THEN d[i] ELSE Nul
    <3>1. Written(w, d, m, b)
      BY <1>2, <2>1, WriteFacts
    <3> HIDE DEF w
    <3> QED BY <3>1 DEF Written
  <2> HIDE DEF w, m, n
  <2>3. Len(w) = m + n
    BY <2>1, <2>2
  <2>4. \A i \in 1..m : w[i] = d[i]
    BY <2>1, <2>2
  <2>5. ASSUME NEW i \in 1..n PROVE w[m + i] = b[i]
    <3>1. m + i \in 1..(m + n) /\ m + i > m /\ m + i <= m + n /\ (m + i) - m = i
      BY <2>1
    <3> QED BY <2>1, <2>2, <3>1
  <2> QED BY <2>2, <2>3, <2>4, <2>5 DEF w, m, n
<1> QED BY <1>1, <1>2

LEMMA OpenFacts ==
    ASSUME NEW d \in Seq(FileBytes), Open(d)
    PROVE  /\ \E n \in 0..Len(d) : /\ disk' = SubSeq(d, 1, n)
                                   /\ Newlines(d) \subseteq 1..n
                                   /\ n # 0 => IsNewline(d[n])
           /\ disk' \in Seq(FileBytes)
           /\ fileSize' = Len(disk') /\ fileSize' \in Nat
           /\ eventCount' = Cardinality(Newlines(disk')) /\ eventCount' \in Nat
           /\ fd' = TRUE /\ streamAtEnd' = FALSE /\ finalized' = FALSE
           /\ list' = NoList /\ limit' \in Limits /\ pos' \in Nat
<1> DEFINE S == Newlines(d) \cup {0}
           n == Max(S)
<1>1. S \in SUBSET (0..Len(d)) /\ S # {}
  BY NewlinesFinite
<1>2. n \in S /\ \A x \in S : x <= n
  <2> HIDE DEF S
  <2>1. Len(d) \in Nat
    OBVIOUS
  <2> QED BY <1>1, <2>1, MaxOfBounded
<1>3. n \in 0..Len(d) /\ Newlines(d) \subseteq 1..n /\ (n # 0 => IsNewline(d[n]))
  <2>1. n \in 0..Len(d)
    BY <1>1, <1>2
  <2>2. Newlines(d) \subseteq 1..n
    <3>1. \A x \in Newlines(d) : x <= n /\ x \in 1..Len(d)
      BY <1>2, NewlinesFinite
    <3> HIDE DEF n
    <3> QED BY <2>1, <3>1
  <2>3. n # 0 => n \in Newlines(d)
    BY <1>2
  <2> QED BY <2>1, <2>2, <2>3 DEF Newlines
<1>4. /\ disk' = SubSeq(d, 1, n) /\ fileSize' = n /\ eventCount' = Cardinality(Newlines(d))
      /\ fd' = TRUE /\ pos' = Len(d) /\ streamAtEnd' = FALSE /\ finalized' = FALSE
      /\ list' = NoList /\ limit' \in Limits
  BY Zenon DEF Open, Truncate
<1> HIDE DEF n, S
<1>5. disk' \in Seq(FileBytes) /\ Len(disk') = n /\ Newlines(disk') = {i \in Newlines(d) : i <= n}
  BY <1>3, <1>4, PrefixFacts
<1>6. Newlines(disk') = Newlines(d)
  BY <1>3, <1>5
<1>7. Cardinality(Newlines(d)) \in Nat /\ Len(d) \in Nat
  BY NewlinesFinite
<1> QED BY <1>3, <1>4, <1>5, <1>6, <1>7

-----------------------------------------------------------------------------
(* Runs of bytes. *)
Heads(d) == {e \in Events : \E i \in 1..Len(d) : d[i] = <<e, 1>>}

(* From a byte of an event the rest of the event follows. *)
LEMMA RunOn ==
    ASSUME NEW d \in Seq(FileBytes), Runs(d), NEW i \in 1..Len(d), NEW e \in Events, d[i] = <<e, 1>>
    PROVE  \A k \in 1..Size[e] : i + k - 1 <= Len(d) /\ d[i + k - 1] = <<e, k>>
<1> DEFINE B == {k \in 1..Size[e] : ~(i + k - 1 <= Len(d) /\ d[i + k - 1] = <<e, k>>)}
<1> SUFFICES ASSUME B # {} PROVE FALSE
  OBVIOUS
<1>1. Size[e] \in Nat /\ Size[e] >= 2 /\ i \in Nat
  BY SizeFacts
<1>2. PICK k \in B : \A j \in B : k <= j
  <2>1. B \in SUBSET Nat
    BY <1>1
  <2> HIDE DEF B
  <2> QED BY <2>1, LeastNumber
<1>3. k # 1
  OBVIOUS
<1>4. k - 1 \in 1..Size[e] /\ k - 1 \notin B
  <2>0. k \in 1..Size[e]
    OBVIOUS
  <2> HIDE DEF B
  <2>1. k \in 1..Size[e] /\ k - 1 \in 1..Size[e]
    BY <1>1, <1>3, <2>0
  <2> QED BY <1>1, <1>2, <2>1
<1> DEFINE p == i + (k - 1) - 1
<1>5. p <= Len(d) /\ d[p] = <<e, k - 1>>
  BY <1>4
<1>6. p \in 1..Len(d) /\ p + 1 = i + k - 1 /\ k - 1 # Size[e]
  BY <1>1, <1>3, <1>4, <1>5
<1>7. PICK f \in Events : \E j \in 1..Size[f] :
          d[p] = <<f, j>> /\ (j # Size[f] => p < Len(d) /\ d[p + 1] = <<f, j + 1>>)
  BY <1>6 DEF Runs, RunAt
<1>8. f = e /\ p < Len(d) /\ d[p + 1] = <<e, (k - 1) + 1>>
  BY <1>5, <1>6, <1>7
<1> QED BY <1>1, <1>6, <1>8

(* The first byte of an event follows a newline. *)
LEMMA BeforeHead ==
    ASSUME NEW d \in Seq(FileBytes), Runs(d), NEW i \in 2..Len(d), NEW e, d[i] = <<e, 1>>
    PROVE  i - 1 \in Newlines(d)
<1>1. i - 1 \in 1..Len(d) /\ (i - 1) + 1 = i
  OBVIOUS
<1>2. PICK f \in Events : \E j \in 1..Size[f] :
          /\ d[i - 1] = <<f, j>>
          /\ j # Size[f] => i - 1 < Len(d) /\ d[(i - 1) + 1] = <<f, j + 1>>
  BY <1>1 DEF Runs, RunAt
<1>3. PICK j \in 1..Size[f] : /\ d[i - 1] = <<f, j>>
                              /\ j # Size[f] => d[i] = <<f, j + 1>>
  BY <1>1, <1>2
<1>4. j = Size[f]
  BY <1>3, SizeFacts
<1>5. IsNewline(d[i - 1])
  BY <1>3, <1>4, NewlineIs
<1> QED BY <1>1, <1>5 DEF Newlines

LEMMA SliceFacts ==
    ASSUME NEW d \in Seq(FileBytes), NEW j \in 1..Len(d), NEW m \in Nat, j + m - 1 <= Len(d)
    PROVE  /\ SubSeq(d, j, j + m - 1) \in Seq(FileBytes)
           /\ Len(SubSeq(d, j, j + m - 1)) = m
           /\ \A k \in 1..m : SubSeq(d, j, j + m - 1)[k] = d[j + k - 1]
OBVIOUS

IsLine(d, e, first, i) ==
    /\ first >= 1
    /\ SubSeq(d, first, i) = Bytes(e)
    /\ first > 1 => first - 1 \in Newlines(d)

LEMMA IntactIs ==
    ASSUME NEW d
    PROVE  Intact(d) = {e \in Events : \E i \in Newlines(d) : IsLine(d, e, i - Size[e] + 1, i)}
BY DEF Intact, IsLine

(* In such a file an event is whole where its first byte is. *)
LEMMA IntactIsHeads ==
    ASSUME NEW d \in Seq(FileBytes), Runs(d)
    PROVE  Intact(d) = Heads(d)
<1>1. ASSUME NEW e \in Intact(d) PROVE e \in Heads(d)
  <2>1. e \in Events
    BY DEF Intact
  <2>2. PICK i \in Newlines(d) : i - Size[e] + 1 >= 1 /\ SubSeq(d, i - Size[e] + 1, i) = Bytes(e)
    BY DEF Intact
  <2> DEFINE f == i - Size[e] + 1
  <2>3. Size[e] \in Nat /\ Size[e] >= 2 /\ i \in 1..Len(d)
    BY <2>1, SizeFacts, NewlinesFinite
  <2>4. f \in 1..Len(d) /\ f <= i
    BY <2>2, <2>3
  <2>5. SubSeq(d, f, i)[1] = d[f]
    BY <2>3, <2>4
  <2>6. Bytes(e)[1] = <<e, 1>>
    BY <2>1, <2>3, BytesType
  <2>7. d[f] = <<e, 1>>
    BY <2>2, <2>5, <2>6
  <2> QED BY <2>1, <2>4, <2>7 DEF Heads
<1>2. ASSUME NEW e \in Heads(d) PROVE e \in Intact(d)
  <2>1. PICK i \in 1..Len(d) : d[i] = <<e, 1>>
    BY DEF Heads
  <2>2. e \in Events /\ Size[e] \in Nat /\ Size[e] >= 2
    BY SizeFacts DEF Heads
  <2>3. \A k \in 1..Size[e] : i + k - 1 <= Len(d) /\ d[i + k - 1] = <<e, k>>
    BY <2>1, <2>2, RunOn
  <2> DEFINE l == i + Size[e] - 1
  <2>4. l \in 1..Len(d) /\ l - Size[e] + 1 = i /\ d[l] = <<e, Size[e]>>
    <3>1. Size[e] \in 1..Size[e]
      BY <2>2
    <3>2. l <= Len(d) /\ d[l] = <<e, Size[e]>>
      BY <2>3, <3>1
    <3> QED BY <2>2, <3>2
  <2>5. l \in Newlines(d)
    <3>1. IsNewline(<<e, Size[e]>>)
      BY <2>2, NewlineIs
    <3> QED BY <2>4, <3>1 DEF Newlines
  <2>6. SubSeq(d, i, l) = Bytes(e)
    <3> DEFINE u == SubSeq(d, i, l)
    <3>1. u \in Seq(FileBytes) /\ Len(u) = Size[e] /\ \A k \in 1..Size[e] : u[k] = d[i + k - 1]
      <4>1. Size[e] \in Nat /\ i + Size[e] - 1 <= Len(d)
        BY <2>2, <2>4
      <4> QED BY <4>1, SliceFacts, Zenon
    <3> HIDE DEF u
    <3>2. \A k \in 1..Len(u) : u[k] = Bytes(e)[k]
      BY <2>2, <2>3, <3>1, BytesType
    <3>3. Bytes(e) \in Seq(FileBytes) /\ Len(Bytes(e)) = Len(u)
      BY <2>2, <3>1, BytesType
    <3>4. u = Bytes(e)
      BY <3>1, <3>2, <3>3, SeqEqual
    <3> QED BY <3>4 DEF u
  <2>7. i > 1 => i - 1 \in Newlines(d)
    BY <2>1, BeforeHead
  <2> HIDE DEF l
  <2>8. IsLine(d, e, i, l)
    BY <2>6, <2>7 DEF IsLine
  <2>9. IsLine(d, e, l - Size[e] + 1, l)
    BY <2>4, <2>8
  <2> QED BY <2>2, <2>5, <2>9, IntactIs
<1> QED BY <1>1, <1>2

LEMMA RunAtMoves ==
    ASSUME NEW d, NEW i, RunAt(d, i), NEW w, NEW j, w[j] = d[i],
           i < Len(d) => j < Len(w) /\ w[j + 1] = d[i + 1]
    PROVE  RunAt(w, j)
BY DEF RunAt

LEMMA RunAtNewline ==
    ASSUME NEW d, NEW i, RunAt(d, i), IsNewline(d[i]), NEW w, NEW j, w[j] = d[i]
    PROVE  RunAt(w, j)
<1>0. PICK e \in Events : \E k \in 1..Size[e] : d[i] = <<e, k>>
  BY DEF RunAt
<1>1. PICK k \in 1..Size[e] : d[i] = <<e, k>>
  BY <1>0
<1>2. k = Size[e]
  BY <1>1, NewlineIs
<1> QED BY <1>1, <1>2 DEF RunAt

LEMMA RunsLast ==
    ASSUME NEW d \in Seq(FileBytes), Runs(d), Len(d) # 0
    PROVE  Len(d) \in Newlines(d)
<1>1. Len(d) \in 1..Len(d) /\ DOMAIN d = 1..Len(d)
  OBVIOUS
<1>0. PICK e \in Events : \E k \in 1..Size[e] : d[Len(d)] = <<e, k>> /\ (k # Size[e] => Len(d) < Len(d))
  BY <1>1 DEF Runs, RunAt
<1>2. PICK k \in 1..Size[e] : d[Len(d)] = <<e, k>> /\ (k # Size[e] => Len(d) < Len(d))
  BY <1>0
<1>3. k = Size[e]
  BY <1>1, <1>2
<1>4. IsNewline(d[Len(d)])
  BY <1>2, <1>3, NewlineIs
<1> QED BY <1>1, <1>4 DEF Newlines

LEMMA RunsPrefix ==
    ASSUME NEW d \in Seq(FileBytes), Runs(d), NEW m \in 0..Len(d), m # 0 => IsNewline(d[m])
    PROVE  Runs(SubSeq(d, 1, m)) /\ (Starts(d) => Starts(SubSeq(d, 1, m)))
<1> DEFINE p == SubSeq(d, 1, m)
<1>1. p \in Seq(FileBytes) /\ Len(p) = m /\ \A i \in 1..m : p[i] = d[i]
  BY PrefixFacts
<1> HIDE DEF p
<1>2. ASSUME NEW i \in 1..m PROVE RunAt(p, i)
  <2>1. RunAt(d, i) /\ p[i] = d[i]
    BY <1>1 DEF Runs
  <2>2. CASE i = m
    BY <2>1, <2>2, RunAtNewline
  <2>3. CASE i # m
    <3>1. i < Len(p) /\ i + 1 \in 1..m
      BY <1>1, <2>3
    <3>2. i < Len(p) /\ p[i + 1] = d[i + 1]
      BY <1>1, <3>1
    <3> QED BY <2>1, <3>2, RunAtMoves
  <2> QED BY <2>2, <2>3
<1>3. ASSUME Starts(d) PROVE Starts(p)
  <2> SUFFICES ASSUME NEW i \in 1..m, i = 1 \/ IsNewline(p[i - 1])
               PROVE  \E e \in Events : p[i] = <<e, 1>>
    BY <1>1 DEF Starts
  <2>1. i \in 1..Len(d) /\ (i = 1 \/ i - 1 \in 1..m)
    OBVIOUS
  <2>2. i = 1 \/ IsNewline(d[i - 1])
    BY <1>1, <2>1
  <2> QED BY <1>1, <1>3, <2>1, <2>2 DEF Starts
<1> QED BY <1>1, <1>2, <1>3 DEF Runs, p

LEMMA RunsRest ==
    ASSUME NEW d \in Seq(FileBytes), Runs(d), NEW m \in 0..Len(d)
    PROVE  /\ Runs(SubSeq(d, m + 1, Len(d)))
           /\ Starts(d) /\ (m # 0 => IsNewline(d[m])) => Starts(SubSeq(d, m + 1, Len(d)))
<1> DEFINE r == SubSeq(d, m + 1, Len(d))
           n == Len(d)
<1>1. r \in Seq(FileBytes) /\ Len(r) = n - m /\ \A i \in 1..(n - m) : r[i] = d[m + i]
  BY RestFacts
<1>0. n \in Nat /\ m \in 0..n
  OBVIOUS
<1> HIDE DEF r, n
<1>2. ASSUME NEW i \in 1..(n - m) PROVE RunAt(r, i)
  <2>1. RunAt(d, m + i) /\ r[i] = d[m + i]
    <3>1. m + i \in 1..n
      BY <1>0
    <3> QED BY <1>1, <3>1 DEF Runs, n
  <2>2. m + i < Len(d) => i < Len(r) /\ r[i + 1] = d[m + i + 1]
    <3> SUFFICES ASSUME m + i < n PROVE i < Len(r) /\ r[i + 1] = d[m + i + 1]
      BY DEF n
    <3>1. i + 1 \in 1..(n - m) /\ m + (i + 1) = m + i + 1
      BY <1>0
    <3> QED BY <1>0, <1>1, <3>1
  <2> QED BY <2>1, <2>2, RunAtMoves
<1>3. ASSUME Starts(d), m # 0 => IsNewline(d[m]) PROVE Starts(r)
  <2> SUFFICES ASSUME NEW i \in 1..(n - m), i = 1 \/ IsNewline(r[i - 1])
               PROVE  \E e \in Events : r[i] = <<e, 1>>
    BY <1>1 DEF Starts
  <2>1. m + i \in 1..Len(d)
    BY <1>0 DEF n
  <2>2. m + i = 1 \/ IsNewline(d[m + i - 1])
    <3>1. CASE i = 1
      <4>1. m + i - 1 = m /\ (m = 0 => m + i = 1)
        BY <1>0, <3>1
      <4> QED BY <1>3, <4>1
    <3>2. CASE i # 1
      <4>1. i - 1 \in 1..(n - m) /\ m + (i - 1) = m + i - 1
        BY <1>0, <3>2
      <4> QED BY <1>1, <3>2, <4>1
    <3> QED BY <3>1, <3>2
  <2>3. PICK e \in Events : d[m + i] = <<e, 1>>
    BY <1>3, <2>1, <2>2 DEF Starts
  <2>4. r[i] = d[m + i]
    BY <1>1
  <2> QED BY <2>3, <2>4
<1> QED BY <1>1, <1>2, <1>3 DEF Runs, r

LEMMA HeadsSplit ==
    ASSUME NEW d \in Seq(FileBytes), NEW m \in 0..Len(d)
    PROVE  Heads(d) \subseteq Heads(SubSeq(d, 1, m)) \cup Heads(SubSeq(d, m + 1, Len(d)))
<1> DEFINE p == SubSeq(d, 1, m)
           r == SubSeq(d, m + 1, Len(d))
           n == Len(d)
<1>0. n \in Nat /\ m \in 0..n
  OBVIOUS
<1>1. Len(p) = m /\ \A i \in 1..m : p[i] = d[i]
  BY PrefixFacts
<1>2. Len(r) = n - m /\ \A i \in 1..(n - m) : r[i] = d[m + i]
  BY RestFacts
<1> HIDE DEF p, r, n
<1>3. ASSUME NEW e \in Heads(d) PROVE e \in Heads(p) \cup Heads(r)
  <2>1. e \in Events /\ \E i \in 1..n : d[i] = <<e, 1>>
    BY DEF Heads, n
  <2>2. PICK i \in 1..n : d[i] = <<e, 1>>
    BY <2>1
  <2>3. CASE i <= m
    <3>1. i \in 1..m
      BY <1>0, <2>3
    <3> QED BY <1>1, <2>1, <2>2, <3>1 DEF Heads
  <2>4. CASE ~(i <= m)
    <3>1. i - m \in 1..(n - m) /\ m + (i - m) = i
      BY <1>0, <2>4
    <3>2. r[i - m] = <<e, 1>> /\ i - m \in 1..Len(r)
      BY <1>2, <2>2, <3>1
    <3> QED BY <2>1, <3>2 DEF Heads
  <2> QED BY <2>3, <2>4
<1> QED BY <1>3 DEF p, r

(* An event written at the end of such a file. *)
LEMMA RunsAppend ==
    ASSUME NEW d \in Seq(FileBytes), Runs(d), NEW e \in Events
    PROVE  LET w == WriteAt(d, Len(d), Bytes(e))
           IN  Runs(w) /\ (Starts(d) => Starts(w)) /\ Heads(d) \cup {e} \subseteq Heads(w)
<1> DEFINE w == WriteAt(d, Len(d), Bytes(e))
           n == Len(d)
           s == Size[e]
<1>1. n \in Nat /\ s \in Nat /\ s >= 2
  BY SizeFacts
<1>2. /\ w \in Seq(FileBytes) /\ Len(w) = n + s
      /\ \A i \in 1..n : w[i] = d[i]
      /\ \A k \in 1..s : w[n + k] = <<e, k>>
  <2>1. Bytes(e) \in Seq(FileBytes) /\ Len(Bytes(e)) = s /\ \A k \in 1..s : Bytes(e)[k] = <<e, k>>
    BY BytesType
  <2>2. /\ w \in Seq(FileBytes) /\ Len(w) = n + Len(Bytes(e))
        /\ \A i \in 1..n : w[i] = d[i]
        /\ \A i \in 1..Len(Bytes(e)) : w[n + i] = Bytes(e)[i]
    BY <2>1, WriteAtEnd
  <2> HIDE DEF w
  <2> QED BY <2>1, <2>2
<1> HIDE DEF w
<1>3. ASSUME NEW i \in 1..(n + s), i > n PROVE i - n \in 1..s /\ n + (i - n) = i /\ w[i] = <<e, i - n>>
  <2>1. i - n \in 1..s /\ n + (i - n) = i
    BY <1>1, <1>3
  <2>2. w[n + (i - n)] = <<e, i - n>>
    BY <1>2, <2>1
  <2> QED BY <2>1, <2>2
<1>4. ASSUME NEW i \in 1..(n + s) PROVE RunAt(w, i)
  <2>1. CASE i < n
    <3>1. i \in 1..n /\ i + 1 \in 1..n /\ RunAt(d, i)
      BY <1>1, <2>1 DEF Runs
    <3>2. w[i] = d[i] /\ i < Len(w) /\ w[i + 1] = d[i + 1]
      BY <1>1, <1>2, <2>1, <3>1
    <3> QED BY <3>1, <3>2, RunAtMoves
  <2>2. CASE i = n
    <3>1. i \in 1..n /\ RunAt(d, i) /\ IsNewline(d[i])
      BY <1>1, <2>2, RunsLast DEF Runs, Newlines
    <3>2. w[i] = d[i]
      BY <1>2, <3>1
    <3> QED BY <3>1, <3>2, RunAtNewline
  <2>3. CASE i > n
    <3> DEFINE k == i - n
    <3>1. k \in 1..s /\ n + k = i /\ w[i] = <<e, k>>
      BY <1>3, <2>3
    <3>2. ASSUME k # s PROVE i < Len(w) /\ w[i + 1] = <<e, k + 1>>
      <4>1. k + 1 \in 1..s /\ n + (k + 1) = i + 1 /\ i < n + s
        BY <1>1, <3>1, <3>2
      <4> QED BY <1>2, <4>1
    <3> HIDE DEF k
    <3> QED BY <3>1, <3>2 DEF RunAt
  <2> QED BY <1>1, <2>1, <2>2, <2>3
<1>5. ASSUME Starts(d) PROVE Starts(w)
  <2> SUFFICES ASSUME NEW i \in 1..(n + s), i = 1 \/ IsNewline(w[i - 1])
               PROVE  \E f \in Events : w[i] = <<f, 1>>
    BY <1>2 DEF Starts
  <2>1. CASE i <= n
    <3>1. i \in 1..n /\ (i = 1 \/ i - 1 \in 1..n)
      BY <1>1, <2>1
    <3>2. w[i] = d[i] /\ (i = 1 \/ IsNewline(d[i - 1]))
      BY <1>2, <3>1
    <3> QED BY <1>5, <3>1, <3>2 DEF Starts
  <2>2. CASE i = n + 1
    <3>1. 1 \in 1..s
      BY <1>1
    <3>2. w[n + 1] = <<e, 1>>
      BY <1>2, <3>1
    <3> QED BY <2>2, <3>2
  <2>3. CASE i > n + 1
    <3>1. i - 1 \in 1..(n + s) /\ i - 1 > n /\ i - 1 - n # s
      BY <1>1, <2>3
    <3>2. w[i - 1] = <<e, i - 1 - n>> /\ i - 1 - n \in 1..s
      BY <1>3, <3>1
    <3>3. ~IsNewline(<<e, i - 1 - n>>)
      BY <3>1, <3>2, NewlineIs
    <3>4. i # 1
      BY <1>1, <2>3
    <3> QED BY <3>2, <3>3, <3>4
  <2> QED BY <1>1, <2>1, <2>2, <2>3
<1>6. Heads(d) \cup {e} \subseteq Heads(w)
  <2>1. ASSUME NEW f \in Heads(d) PROVE f \in Heads(w)
    <3>1. f \in Events /\ \E i \in 1..n : d[i] = <<f, 1>>
      BY DEF Heads
    <3>2. PICK i \in 1..n : d[i] = <<f, 1>>
      BY <3>1
    <3>3. i \in 1..Len(w) /\ w[i] = <<f, 1>>
      BY <1>1, <1>2, <3>2
    <3> QED BY <3>1, <3>3 DEF Heads
  <2>2. n + 1 \in 1..Len(w) /\ w[n + 1] = <<e, 1>>
    BY <1>1, <1>2
  <2> QED BY <2>1, <2>2 DEF Heads
<1> QED BY <1>2, <1>4, <1>5, <1>6 DEF Runs, w

-----------------------------------------------------------------------------
(* The steps. *)
Kinds == {"crash", "copy", "write"}

LEMMA FaultFacts ==
    ASSUME faults \in Seq(Kinds), NEW kind \in Kinds, Fault(kind)
    PROVE  faults' \in Seq(Kinds) /\ faults' # <<>> /\ ToSet(faults') = ToSet(faults) \cup {kind}
<1>1. faults' = Append(faults, kind)
  BY DEF Fault
<1>2. faults' \in Seq(Kinds) /\ Len(faults') = Len(faults) + 1 /\ faults'[Len(faults) + 1] = kind
  BY <1>1
<1>3. \A i \in 1..Len(faults) : faults'[i] = faults[i]
  BY <1>1
<1>4. DOMAIN faults' = 1..(Len(faults) + 1) /\ DOMAIN faults = 1..Len(faults) /\ Len(faults) \in Nat
  BY <1>2
<1>5. ToSet(faults') = ToSet(faults) \cup {kind}
  <2>1. ASSUME NEW x \in ToSet(faults') PROVE x \in ToSet(faults) \cup {kind}
    <3>1. PICK i \in 1..(Len(faults) + 1) : x = faults'[i]
      BY <1>4 DEF ToSet
    <3>2. CASE i = Len(faults) + 1
      BY <1>2, <3>1, <3>2
    <3>3. CASE i # Len(faults) + 1
      <4>1. i \in 1..Len(faults)
        BY <1>4, <3>3
      <4> QED BY <1>3, <1>4, <3>1, <4>1 DEF ToSet
    <3> QED BY <3>2, <3>3
  <2>2. ASSUME NEW x \in ToSet(faults) PROVE x \in ToSet(faults')
    <3>1. PICK i \in 1..Len(faults) : x = faults[i]
      BY <1>4 DEF ToSet
    <3>2. i \in 1..(Len(faults) + 1) /\ x = faults'[i]
      BY <1>3, <1>4, <3>1
    <3> QED BY <1>4, <3>2 DEF ToSet
  <2>3. kind \in ToSet(faults')
    <3>1. Len(faults) + 1 \in DOMAIN faults'
      BY <1>4
    <3> QED BY <1>2, <3>1 DEF ToSet
  <2> QED BY <2>1, <2>2, <2>3
<1> QED BY <1>2, <1>5

LEMMA Types ==
    ASSUME FileInv
    PROVE  /\ disk \in Seq(FileBytes) /\ Len(disk) \in Nat
           /\ list # NoList => list \in Seq(FileBytes) /\ Len(list) \in Nat /\ Len(list) <= Len(disk)
           /\ pos \in Nat /\ fileSize \in Nat /\ eventCount \in Nat
           /\ Cardinality(Newlines(disk)) \in Nat
           /\ faults \in Seq(Kinds)
           /\ Sound => Runs(disk) /\ accepted \subseteq acked \cup Heads(disk)
<1>1. /\ disk \in Seq(FileBytes) /\ Len(disk) \in Nat /\ pos \in Nat /\ fileSize \in Nat
      /\ eventCount \in Nat /\ faults \in Seq(Kinds)
      /\ list \in Seq(FileBytes) \cup {NoList}
  BY DEF FileInv, TypeOK, Kinds
<1>2. Cardinality(Newlines(disk)) \in Nat
  BY <1>1, NewlinesFinite
<1>3. ASSUME list # NoList PROVE list \in Seq(FileBytes) /\ Len(list) \in Nat /\ Len(list) <= Len(disk)
  BY <1>1, <1>3 DEF FileInv, ListInv, SizeInv
<1>4. ASSUME Sound PROVE Runs(disk) /\ accepted \subseteq acked \cup Heads(disk)
  <2>1. Runs(disk)
    BY <1>4 DEF FileInv, LineInv
  <2>2. accepted \subseteq acked \cup Intact(disk)
    BY <1>4 DEF FileInv, NothingAcceptedIsLost, Sound
  <2> QED BY <1>1, <2>1, <2>2, IntactIsHeads
<1> QED BY <1>1, <1>2, <1>3, <1>4

(* What the last two parts of the invariant amount to. *)
LEMMA LinesNext ==
    ASSUME disk' \in Seq(FileBytes), Sound' => Runs(disk') /\ accepted' \subseteq acked' \cup Heads(disk'),
           faults' = <<>> => Starts(disk')
    PROVE  LineInv' /\ NothingAcceptedIsLost'
<1>1. LineInv'
  BY DEF LineInv
<1>2. ASSUME Sound' PROVE accepted' \subseteq acked' \cup Intact(disk')
  <2>1. Intact(disk') = Heads(disk')
    BY <1>2, IntactIsHeads
  <2> QED BY <1>2, <2>1
<1>3. NothingAcceptedIsLost'
  BY <1>2 DEF NothingAcceptedIsLost, Sound
<1> QED BY <1>1, <1>3

LEMMA NoFaultIsSound == faults = <<>> => Sound
<1>1. faults = <<>> => ToSet(faults) = {}
  BY DEF ToSet
<1> QED BY <1>1 DEF Sound, WriteFailed

(* The program opens the file with content d. *)
LEMMA OpenStep ==
    ASSUME FileInv, NEW d \in Seq(FileBytes), Open(d), accepted' = accepted, acked' \subseteq Events,
           faults' \in Seq(Kinds),
           Sound' => Runs(disk') /\ accepted' \subseteq acked' \cup Heads(disk'),
           faults' = <<>> => Starts(disk')
    PROVE  FileInv'
<1>1. /\ disk' \in Seq(FileBytes)
      /\ fileSize' = Len(disk') /\ fileSize' \in Nat
      /\ eventCount' = Cardinality(Newlines(disk')) /\ eventCount' \in Nat
      /\ fd' = TRUE /\ streamAtEnd' = FALSE /\ finalized' = FALSE
      /\ list' = NoList /\ limit' \in Limits /\ pos' \in Nat
  BY OpenFacts
<1>2. LineInv' /\ NothingAcceptedIsLost'
  BY <1>1, LinesNext
<1>3. TypeOK'
  BY <1>1 DEF FileInv, TypeOK, Kinds
<1>4. SizeInv' /\ ListInv' /\ ExactInv'
  BY <1>1 DEF SizeInv, ListInv, ExactInv
<1> QED BY <1>1, <1>2, <1>3, <1>4 DEF FileInv

(* Nothing is trimmed from a file that ends with a newline. *)
LEMMA OpenSound ==
    ASSUME NEW d \in Seq(FileBytes), Runs(d), Open(d)
    PROVE  disk' = d
<1>1. PICK n \in 0..Len(d) : disk' = SubSeq(d, 1, n) /\ Newlines(d) \subseteq 1..n
  BY OpenFacts
<1>2. n = Len(d)
  <2>1. CASE Len(d) = 0
    BY <2>1
  <2>2. CASE Len(d) # 0
    <3>1. Len(d) \in 1..n
      BY <1>1, <2>2, RunsLast
    <3> QED BY <3>1
  <2> QED BY <2>1, <2>2
<1>3. SubSeq(d, 1, Len(d)) = d
  <2> DEFINE p == SubSeq(d, 1, Len(d))
  <2>1. p \in Seq(FileBytes) /\ Len(p) = Len(d) /\ \A i \in 1..Len(d) : p[i] = d[i]
    OBVIOUS
  <2> HIDE DEF p
  <2>2. p = d
    BY <2>1, SeqEqual
  <2> QED BY <2>2 DEF p
<1> QED BY <1>1, <1>2, <1>3

LEMMA ReopenStep ==
    ASSUME FileInv, Reopen
    PROVE  FileInv'
<1>1. Open(disk) /\ accepted' = accepted /\ acked' = acked /\ faults' = faults
  BY DEF Reopen
<1>2. disk \in Seq(FileBytes) /\ faults' \in Seq(Kinds) /\ acked' \subseteq Events
  BY <1>1, Types DEF FileInv, TypeOK
<1>3. Sound' = Sound
  BY <1>1 DEF Sound, WriteFailed
<1>4. ASSUME Sound PROVE disk' = disk /\ Runs(disk) /\ accepted \subseteq acked \cup Heads(disk)
  <2>1. Runs(disk) /\ accepted \subseteq acked \cup Heads(disk)
    BY <1>4, Types
  <2>2. disk' = disk
    BY <1>1, <1>2, <2>1, OpenSound
  <2> QED BY <2>1, <2>2
<1>5. ASSUME faults = <<>> PROVE Starts(disk')
  <2>1. Starts(disk)
    BY <1>5 DEF FileInv, LineInv
  <2> QED BY <1>4, <1>5, <2>1, NoFaultIsSound
<1>6. Sound' => Runs(disk') /\ accepted' \subseteq acked' \cup Heads(disk')
  BY <1>1, <1>3, <1>4
<1>7. faults' = <<>> => Starts(disk')
  BY <1>1, <1>5
<1> QED BY <1>1, <1>2, <1>6, <1>7, OpenStep

(* What the steps that leave the file alone keep. *)
LEMMA LinesKept ==
    ASSUME FileInv, disk' = disk, accepted' = accepted, acked' = acked, faults' = faults
    PROVE  LineInv' /\ NothingAcceptedIsLost'
BY DEF FileInv, LineInv, NothingAcceptedIsLost, Sound, WriteFailed, Runs, RunAt, Starts, Intact

LEMMA OpenFailsStep ==
    ASSUME FileInv, OpenFails
    PROVE  FileInv'
<1>1. LineInv' /\ NothingAcceptedIsLost'
  BY LinesKept DEF OpenFails
<1>2. SizeInv' /\ ListInv' /\ ExactInv'
  BY DEF OpenFails, SizeInv, ListInv, ExactInv
<1>3. TypeOK' /\ fd' \in BOOLEAN /\ streamAtEnd' \in BOOLEAN /\ finalized' \in BOOLEAN
  BY DEF FileInv, TypeOK, OpenFails
<1> QED BY <1>1, <1>2, <1>3 DEF FileInv

LEMMA SettingStep ==
    ASSUME FileInv, UNCHANGED <<disk, fd, pos, streamAtEnd, fileSize, eventCount, accepted, acked, faults>>,
           limit' \in Limits, finalized' \in BOOLEAN, list' \in {list, NoList}
    PROVE  FileInv'
<1>1. LineInv' /\ NothingAcceptedIsLost'
  BY LinesKept
<1>2. Newlines(disk)' = Newlines(disk) /\ WriteFailed' = WriteFailed
  BY DEF Newlines, WriteFailed
<1>3. SizeInv' /\ ListInv' /\ ExactInv'
  BY <1>2 DEF FileInv, SizeInv, ListInv, ExactInv
<1>4. TypeOK' /\ fd' \in BOOLEAN /\ streamAtEnd' \in BOOLEAN
  BY DEF FileInv, TypeOK
<1> QED BY <1>1, <1>3, <1>4 DEF FileInv

(* Where addEvent writes. *)
LEMMA OffsetFacts ==
    ASSUME FileInv, fd
    PROVE  /\ WriteOffset \in Nat /\ SizeBeforeWrite \in Nat
           /\ fileSize <= SizeBeforeWrite /\ SizeBeforeWrite <= Len(disk)
           /\ SizeBeforeWrite <= WriteOffset
           /\ ~WriteFailed => WriteOffset = Len(disk) /\ SizeBeforeWrite = Len(disk)
<1>1. disk \in Seq(FileBytes) /\ Len(disk) \in Nat /\ pos \in Nat /\ fileSize \in Nat
  BY Types
<1>2. fileSize <= Len(disk) /\ (streamAtEnd => fileSize <= pos)
  BY DEF FileInv, SizeInv
<1>3. ~WriteFailed => fileSize = Len(disk) /\ (streamAtEnd => pos = Len(disk))
  BY DEF FileInv, ExactInv
<1>4. CASE streamAtEnd
  <2>1. WriteOffset = pos /\ SizeBeforeWrite = fileSize
    BY <1>4 DEF WriteOffset, SizeBeforeWrite
  <2> QED BY <1>1, <1>2, <1>3, <1>4, <2>1
<1>5. CASE ~streamAtEnd
  <2>1. WriteOffset = Len(disk) /\ SizeBeforeWrite = Len(disk)
    BY <1>5 DEF WriteOffset, SizeBeforeWrite
  <2> QED BY <1>1, <1>2, <1>3, <2>1
<1> QED BY <1>4, <1>5

(* The list stays the start of a file that keeps its first n bytes. *)
LEMMA ListStays ==
    ASSUME FileInv, list # NoList, NEW c \in Seq(FileBytes), NEW n \in Nat,
           Len(list) <= n, n <= Len(c), n <= Len(disk), \A i \in 1..n : c[i] = disk[i]
    PROVE  list = SubSeq(c, 1, Len(list))
<1>1. list \in Seq(FileBytes) /\ Len(list) \in Nat /\ disk \in Seq(FileBytes) /\ Len(disk) \in Nat
  BY Types
<1>2. list = SubSeq(disk, 1, Len(list))
  BY DEF FileInv, ListInv
<1> DEFINE m == Len(list)
           p == SubSeq(c, 1, m)
<1>3. m \in 0..Len(c) /\ m \in 0..Len(disk)
  BY <1>1
<1>4. p \in Seq(FileBytes) /\ Len(p) = m /\ \A i \in 1..m : p[i] = c[i]
  BY <1>3, PrefixFacts
<1>5. \A i \in 1..m : SubSeq(disk, 1, m)[i] = disk[i]
  BY <1>1, <1>3, PrefixFacts
<1>6. \A i \in 1..m : list[i] = disk[i]
  BY <1>2, <1>5
<1> HIDE DEF p
<1>7. \A i \in 1..m : list[i] = p[i]
  <2>1. \A i \in 1..m : i \in 1..n
    BY <1>1
  <2> QED BY <1>4, <1>6, <2>1
<1>8. list = p
  <2> QED BY <1>1, <1>4, <1>7, SeqEqual
<1> QED BY <1>8 DEF p

(* The newlines after addEvent. *)
LEMMA NewlinesWritten ==
    ASSUME NEW d \in Seq(FileBytes), NEW p \in Nat, NEW e \in Events
    PROVE  LET w == WriteAt(d, p, Bytes(e))
           IN  /\ Cardinality(Newlines(w)) <= Cardinality(Newlines(d)) + 1
               /\ p = Len(d) => Cardinality(Newlines(w)) = Cardinality(Newlines(d)) + 1
<1> DEFINE w == WriteAt(d, p, Bytes(e))
           s == Size[e]
           N == Newlines(d)
           x == p + s
<1>1. s \in Nat /\ s >= 2 /\ Bytes(e) \in Seq(FileBytes) /\ Len(Bytes(e)) = s
  BY SizeFacts, BytesType
<1>2. Written(w, d, p, Bytes(e))
  <2>1. Bytes(e) # <<>>
    BY <1>1
  <2> QED BY <1>1, <2>1, WriteFacts
<1> HIDE DEF w
<1> DEFINE n == IF Len(d) <= p + s THEN p + s ELSE Len(d)
<1>3. /\ w \in Seq(FileBytes) /\ Len(w) = n
      /\ \A i \in 1..n : w[i] = IF i > p /\ i <= p + s THEN Bytes(e)[i - p]
                                ELSE IF i <= Len(d) THEN d[i] ELSE Nul
  BY <1>1, <1>2 DEF Written
<1>4. DOMAIN w = 1..n /\ DOMAIN d = 1..Len(d) /\ Len(d) \in Nat /\ n \in Nat
  BY <1>1, <1>3
<1>5. ASSUME NEW i \in 1..n, i > p, i <= p + s PROVE IsNewline(w[i]) <=> i = x
  <2>1. i - p \in 1..s
    BY <1>1, <1>5
  <2>2. w[i] = <<e, i - p>>
    BY <1>3, <1>5, <2>1, BytesType
  <2>3. IsNewline(<<e, i - p>>) <=> i - p = s
    BY <2>1, NewlineIs
  <2> QED BY <1>1, <2>2, <2>3
<1>6. ~IsNewline(Nul)
  BY DEF IsNewline
<1>7. ASSUME NEW i \in 1..n, ~(i > p /\ i <= p + s) PROVE IsNewline(w[i]) <=> i \in N
  <2>1. w[i] = IF i <= Len(d) THEN d[i] ELSE Nul
    BY <1>3, <1>7
  <2>2. CASE i <= Len(d)
    <3>1. i \in 1..Len(d)
      BY <1>4, <2>2
    <3> QED BY <1>4, <2>1, <2>2, <3>1 DEF Newlines
  <2>3. CASE ~(i <= Len(d))
    <3>1. i \notin N
      BY <1>4, <2>3 DEF Newlines
    <3> QED BY <1>6, <2>1, <2>3, <3>1
  <2> QED BY <2>2, <2>3
<1>8. Newlines(w) \subseteq N \cup {x}
  BY <1>4, <1>5, <1>7 DEF Newlines
<1>9. ASSUME p = Len(d) PROVE Newlines(w) = N \cup {x} /\ x \notin N
  <2>1. x \in 1..n /\ IsNewline(w[x])
    <3>1. x \in 1..n /\ x > p /\ x <= p + s
      BY <1>1, <1>4
    <3> QED BY <1>5, <3>1
  <2>2. ASSUME NEW i \in N PROVE i \in 1..n /\ IsNewline(w[i])
    <3>1. i \in 1..n /\ ~(i > p /\ i <= p + s)
      BY <1>1, <1>4, <1>9 DEF Newlines
    <3> QED BY <1>7, <3>1
  <2>3. x \notin N
    BY <1>1, <1>4, <1>9 DEF Newlines
  <2>4. N \cup {x} \subseteq Newlines(w)
    BY <1>4, <2>1, <2>2 DEF Newlines
  <2> QED BY <1>8, <2>3, <2>4
<1>10. IsFiniteSet(N) /\ Cardinality(N) \in Nat
  BY NewlinesFinite
<1> HIDE DEF N, x, n
<1>11. IsFiniteSet(N \cup {x}) /\ Cardinality(N \cup {x}) = IF x \in N THEN Cardinality(N) ELSE Cardinality(N) + 1
  BY <1>10, FS_AddElement
<1>12. Cardinality(Newlines(w)) \in Nat /\ Cardinality(Newlines(w)) <= Cardinality(N \cup {x})
  BY <1>3, <1>8, <1>11, FS_Subset, NewlinesFinite
<1>13. Cardinality(Newlines(w)) <= Cardinality(N) + 1
  BY <1>10, <1>11, <1>12
<1>14. p = Len(d) => Cardinality(Newlines(w)) = Cardinality(N) + 1
  BY <1>9, <1>11
<1> QED BY <1>13, <1>14 DEF w, N

LEMMA AddEventStep ==
    ASSUME FileInv, NEW e \in Events, AddEvent(e)
    PROVE  FileInv'
<1> DEFINE w == WriteAt(disk, WriteOffset, Bytes(e))
           s == Size[e]
<1>1. /\ fd /\ disk' = w /\ pos' = WriteOffset + s /\ streamAtEnd' = TRUE
      /\ fileSize' = SizeBeforeWrite + s /\ eventCount' = eventCount + 1
      /\ accepted' = accepted \cup {e}
      /\ fd' = fd /\ finalized' = finalized /\ limit' = limit /\ list' = list
      /\ acked' = acked /\ faults' = faults
  BY DEF AddEvent
<1>2. disk \in Seq(FileBytes) /\ Len(disk) \in Nat /\ eventCount \in Nat /\ fileSize \in Nat /\ faults \in Seq(Kinds)
  BY Types
<1>3. /\ WriteOffset \in Nat /\ SizeBeforeWrite \in Nat
      /\ fileSize <= SizeBeforeWrite /\ SizeBeforeWrite <= Len(disk)
      /\ SizeBeforeWrite <= WriteOffset
      /\ ~WriteFailed => WriteOffset = Len(disk) /\ SizeBeforeWrite = Len(disk)
  BY <1>1, OffsetFacts
<1>4. s \in Nat /\ s >= 2 /\ Bytes(e) \in Seq(FileBytes) /\ Len(Bytes(e)) = s /\ Bytes(e) # <<>>
  BY SizeFacts, BytesType
<1>5. Written(w, disk, WriteOffset, Bytes(e))
  BY <1>2, <1>3, <1>4, WriteFacts
<1>6. /\ Cardinality(Newlines(w)) <= Cardinality(Newlines(disk)) + 1
      /\ WriteOffset = Len(disk) => Cardinality(Newlines(w)) = Cardinality(Newlines(disk)) + 1
  BY <1>2, <1>3, NewlinesWritten
<1>7. w \in Seq(FileBytes) /\ Len(w) >= WriteOffset + s /\ Len(w) >= Len(disk)
      /\ (WriteOffset = Len(disk) => Len(w) = Len(disk) + s)
      /\ \A i \in 1..SizeBeforeWrite : w[i] = disk[i]
  <2> HIDE DEF w
  <2> DEFINE n == IF Len(disk) <= WriteOffset + s THEN WriteOffset + s ELSE Len(disk)
  <2>1. /\ w \in Seq(FileBytes) /\ Len(w) = n
        /\ \A i \in 1..n : w[i] = IF i > WriteOffset /\ i <= WriteOffset + s THEN Bytes(e)[i - WriteOffset]
                                  ELSE IF i <= Len(disk) THEN disk[i] ELSE Nul
    BY <1>4, <1>5 DEF Written
  <2>2. ASSUME NEW i \in 1..SizeBeforeWrite PROVE w[i] = disk[i]
    <3>1. i \in 1..n /\ ~(i > WriteOffset) /\ i <= Len(disk)
      BY <1>2, <1>3, <1>4
    <3> QED BY <2>1, <3>1
  <2>3. Len(w) >= WriteOffset + s /\ Len(w) >= Len(disk) /\ (WriteOffset = Len(disk) => Len(w) = Len(disk) + s)
    BY <1>2, <1>3, <1>4, <2>1
  <2> QED BY <2>1, <2>2, <2>3
<1>8. ASSUME Sound PROVE Runs(w) /\ (Starts(disk) => Starts(w)) /\ accepted' \subseteq acked' \cup Heads(w)
  <2>1. Runs(disk) /\ accepted \subseteq acked \cup Heads(disk)
    BY <1>8, Types
  <2>2. WriteOffset = Len(disk)
    BY <1>3, <1>8 DEF Sound
  <2>3. Runs(w) /\ (Starts(disk) => Starts(w)) /\ Heads(disk) \cup {e} \subseteq Heads(w)
    BY <1>2, <2>1, <2>2, RunsAppend
  <2> HIDE DEF w
  <2> QED BY <1>1, <2>1, <2>3
<1> HIDE DEF w
<1>9. Sound' = Sound /\ WriteFailed' = WriteFailed
  BY <1>1 DEF Sound, WriteFailed
<1>10. faults' = <<>> => Starts(disk')
  <2> SUFFICES ASSUME faults = <<>> PROVE Starts(w)
    BY <1>1
  <2>1. Starts(disk) /\ Sound
    BY NoFaultIsSound DEF FileInv, LineInv
  <2> QED BY <1>8, <2>1
<1>11. LineInv' /\ NothingAcceptedIsLost'
  <2>1. Sound' => Runs(disk') /\ accepted' \subseteq acked' \cup Heads(disk')
    BY <1>1, <1>8, <1>9
  <2> QED BY <1>1, <1>7, <1>10, <2>1, LinesNext
<1>12. SizeInv'
  <2>1. Cardinality(Newlines(disk)) <= eventCount
    BY <1>1 DEF FileInv, SizeInv
  <2>2. Cardinality(Newlines(disk)) \in Nat /\ Cardinality(Newlines(w)) \in Nat
    BY <1>2, <1>7, NewlinesFinite
  <2>3. Cardinality(Newlines(disk)') <= eventCount'
    BY <1>1, <1>2, <1>6, <2>1, <2>2
  <2>4. fileSize' <= Len(disk') /\ fileSize' <= pos'
    BY <1>1, <1>2, <1>3, <1>4, <1>7
  <2> QED BY <2>3, <2>4 DEF SizeInv
<1>13. ListInv' /\ (list' # NoList => Len(list') < fileSize')
  <2> SUFFICES ASSUME list # NoList PROVE ListInv' /\ Len(list) < fileSize'
    BY <1>1 DEF ListInv
  <2>1. Len(list) \in Nat /\ Len(list) <= fileSize /\ (list # <<>> => IsNewline(list[Len(list)]))
    BY Types DEF FileInv, ListInv
  <2>2. list = SubSeq(w, 1, Len(list))
    <3>1. Len(list) <= SizeBeforeWrite /\ SizeBeforeWrite <= Len(w)
      BY <1>2, <1>3, <1>7, <2>1
    <3> QED BY <1>3, <1>7, <3>1, ListStays
  <2>3. Len(list) < SizeBeforeWrite + s /\ Len(list) <= SizeBeforeWrite + s
    <3>1. \A a, b, c, z \in Nat : a <= b /\ b <= c /\ z >= 2 => a < c + z /\ a <= c + z
      OBVIOUS
    <3> HIDE DEF s
    <3> QED BY <1>2, <1>3, <1>4, <2>1, <3>1
  <2>4. Len(list) < fileSize' /\ Len(list) <= fileSize'
    BY <1>1, <2>3
  <2> QED BY <1>1, <2>1, <2>2, <2>3, <2>4 DEF ListInv
<1>14. ExactInv'
  <2> SUFFICES ASSUME ~WriteFailed
               PROVE  /\ fileSize' = Len(disk') /\ eventCount' = Cardinality(Newlines(disk'))
                      /\ pos' = Len(disk')
    BY <1>9, <1>13 DEF ExactInv
  <2>1. eventCount = Cardinality(Newlines(disk))
    BY <1>1 DEF FileInv, ExactInv
  <2> QED BY <1>1, <1>3, <1>6, <1>7, <2>1
<1>15. TypeOK' /\ fd' \in BOOLEAN /\ streamAtEnd' \in BOOLEAN /\ finalized' \in BOOLEAN
  <2>1. fileSize' \in Nat /\ pos' \in Nat /\ eventCount' \in Nat
    <3>1. \A a, b \in Nat : a + b \in Nat /\ a + 1 \in Nat
      OBVIOUS
    <3> QED BY <1>1, <1>2, <1>3, <1>4, <3>1, Zenon
  <2> QED BY <1>1, <1>7, <2>1 DEF FileInv, TypeOK
<1> QED BY <1>11, <1>12, <1>13, <1>14, <1>15 DEF FileInv

(* The first k bytes of an event. *)
LEMMA SomeBytes ==
    ASSUME NEW e \in Events, NEW k \in 0..Size[e]
    PROVE  LET b == SubSeq(Bytes(e), 1, k)
           IN  b \in Seq(FileBytes) /\ Len(b) = k /\ \A i \in 1..k : b[i] = <<e, i>>
<1>1. Bytes(e) \in Seq(FileBytes) /\ Len(Bytes(e)) = Size[e] /\ Size[e] \in Nat
  BY BytesType, SizeFacts
<1>2. SubSeq(Bytes(e), 1, k) \in Seq(FileBytes) /\ Len(SubSeq(Bytes(e), 1, k)) = k
      /\ \A i \in 1..k : SubSeq(Bytes(e), 1, k)[i] = Bytes(e)[i]
  BY <1>1, PrefixFacts
<1>3. \A i \in 1..k : Bytes(e)[i] = <<e, i>>
  <2>1. \A i \in 1..k : i \in 1..Size[e]
    BY <1>1
  <2> QED BY <2>1, BytesType
<1> QED BY <1>2, <1>3

LEMMA AddEventFailsStep ==
    ASSUME FileInv, NEW e \in Events, NEW k \in 0..(Size[e] - 1), AddEventFails(e, k)
    PROVE  FileInv'
<1> DEFINE b == SubSeq(Bytes(e), 1, k)
           w == WriteAt(disk, WriteOffset, b)
           z == SizeBeforeWrite
<1>1. /\ fd /\ disk' = (IF k = 0 THEN disk ELSE SubSeq(w, 1, z))
      /\ pos' = WriteOffset + k /\ streamAtEnd' = TRUE /\ fileSize' = z
      /\ Fault("write")
      /\ fd' = fd /\ eventCount' = eventCount /\ finalized' = finalized /\ limit' = limit
      /\ list' = list /\ accepted' = accepted /\ acked' = acked
  BY DEF AddEventFails, Truncate
<1>2. disk \in Seq(FileBytes) /\ Len(disk) \in Nat /\ eventCount \in Nat /\ fileSize \in Nat /\ faults \in Seq(Kinds)
  BY Types
<1>3. /\ WriteOffset \in Nat /\ z \in Nat /\ fileSize <= z /\ z <= Len(disk) /\ z <= WriteOffset
  BY <1>1, OffsetFacts
<1>4. faults' \in Seq(Kinds) /\ ToSet(faults') = ToSet(faults) \cup {"write"} /\ faults' # <<>>
  <2>1. "write" \in Kinds
    BY DEF Kinds
  <2> QED BY <1>1, <1>2, <2>1, FaultFacts
<1>5. k \in Nat /\ k \in 0..Size[e] /\ Size[e] \in Nat
  BY SizeFacts
<1>6. b \in Seq(FileBytes) /\ Len(b) = k
  BY <1>5, SomeBytes
<1>7. disk' \in Seq(FileBytes) /\ z <= Len(disk') /\ (\A i \in 1..z : disk'[i] = disk[i])
      /\ Newlines(disk') \subseteq Newlines(disk)
  <2>1. CASE k = 0
    BY <1>1, <1>2, <1>3, <2>1
  <2>2. CASE k # 0
    <3>1. Written(w, disk, WriteOffset, b)
      <4>1. b # <<>>
        BY <1>6, <2>2
      <4> QED BY <1>2, <1>3, <1>6, <4>1, WriteFacts
    <3> HIDE DEF w, b, z
    <3> DEFINE n == IF Len(disk) <= WriteOffset + k THEN WriteOffset + k ELSE Len(disk)
    <3>2. /\ w \in Seq(FileBytes) /\ Len(w) = n
          /\ \A i \in 1..n : w[i] = IF i > WriteOffset /\ i <= WriteOffset + k THEN b[i - WriteOffset]
                                    ELSE IF i <= Len(disk) THEN disk[i] ELSE Nul
      BY <1>6, <3>1 DEF Written
    <3>3. z \in 0..Len(w)
      BY <1>2, <1>3, <1>5, <3>2
    <3>4. \A i \in 1..z : w[i] = disk[i]
      <4> TAKE i \in 1..z
      <4>1. i \in 1..n /\ ~(i > WriteOffset) /\ i <= Len(disk)
        BY <1>2, <1>3, <1>5
      <4> QED BY <3>2, <4>1
    <3>5. disk' = SubSeq(w, 1, z)
      BY <1>1, <2>2
    <3>6. /\ disk' \in Seq(FileBytes) /\ Len(disk') = z /\ \A i \in 1..z : disk'[i] = w[i]
          /\ Newlines(disk') = {i \in Newlines(w) : i <= z}
      BY <3>2, <3>3, <3>5, PrefixFacts
    <3>7. \A i \in 1..z : disk'[i] = disk[i]
      BY <3>4, <3>6
    <3>8. DOMAIN disk' = 1..z /\ DOMAIN disk = 1..Len(disk)
      BY <1>2, <3>6
    <3>9. Newlines(disk') \subseteq Newlines(disk)
      BY <1>2, <1>3, <3>7, <3>8 DEF Newlines
    <3> QED BY <1>3, <3>6, <3>7, <3>9
  <2> QED BY <2>1, <2>2
<1> HIDE DEF w, b, z
<1>8. WriteFailed' /\ ~Sound'
  BY <1>4 DEF WriteFailed, Sound
<1>9. LineInv' /\ NothingAcceptedIsLost'
  BY <1>4, <1>7, <1>8, LinesNext
<1>10. SizeInv'
  <2>1. Cardinality(Newlines(disk')) <= eventCount'
    <3>1. Cardinality(Newlines(disk)) <= eventCount
      BY <1>1 DEF FileInv, SizeInv
    <3>2. Cardinality(Newlines(disk')) <= Cardinality(Newlines(disk))
      BY <1>2, <1>7, FewerNewlines
    <3>3. Cardinality(Newlines(disk')) \in Nat /\ Cardinality(Newlines(disk)) \in Nat
      BY <1>2, <1>7, NewlinesFinite
    <3> QED BY <1>1, <1>2, <3>1, <3>2, <3>3
  <2>2. fileSize' <= Len(disk') /\ fileSize' <= pos'
    BY <1>1, <1>3, <1>5, <1>7
  <2> QED BY <2>1, <2>2 DEF SizeInv
<1>11. ListInv'
  <2> SUFFICES ASSUME list # NoList PROVE ListInv'
    BY <1>1 DEF ListInv
  <2>1. Len(list) \in Nat /\ Len(list) <= fileSize /\ (list # <<>> => IsNewline(list[Len(list)]))
    BY Types DEF FileInv, ListInv
  <2>2. Len(list) <= z
    BY <1>2, <1>3, <2>1
  <2>3. list = SubSeq(disk', 1, Len(list))
    BY <1>3, <1>7, <2>2, ListStays
  <2> QED BY <1>1, <2>1, <2>2, <2>3 DEF ListInv
<1>12. ExactInv'
  BY <1>8 DEF ExactInv
<1>13. TypeOK' /\ fd' \in BOOLEAN /\ streamAtEnd' \in BOOLEAN /\ finalized' \in BOOLEAN
  <2>1. fileSize' \in Nat /\ pos' \in Nat /\ eventCount' \in Nat
    BY <1>1, <1>2, <1>3, <1>5
  <2> QED BY <1>1, <1>4, <1>7, <2>1 DEF FileInv, TypeOK, Kinds
<1> QED BY <1>9, <1>10, <1>11, <1>12, <1>13 DEF FileInv

LEMMA CrashInAddEventStep ==
    ASSUME FileInv, NEW e \in Events, NEW k \in 0..Size[e], CrashInAddEvent(e, k)
    PROVE  FileInv'
<1> DEFINE b == SubSeq(Bytes(e), 1, k)
           w == WriteAt(disk, WriteOffset, b)
<1>1. fd /\ Open(w) /\ Fault("crash") /\ accepted' = accepted /\ acked' = acked
  BY DEF CrashInAddEvent
<1>2. disk \in Seq(FileBytes) /\ Len(disk) \in Nat /\ faults \in Seq(Kinds)
  BY Types
<1>3. WriteOffset \in Nat /\ (~WriteFailed => WriteOffset = Len(disk))
  BY <1>1, OffsetFacts
<1>4. faults' \in Seq(Kinds) /\ ToSet(faults') = ToSet(faults) \cup {"crash"} /\ faults' # <<>>
  <2>1. "crash" \in Kinds
    BY DEF Kinds
  <2> QED BY <1>1, <1>2, <2>1, FaultFacts
<1>5. b \in Seq(FileBytes) /\ Len(b) = k /\ (\A i \in 1..k : b[i] = <<e, i>>) /\ k \in Nat
  BY SomeBytes, SizeFacts
<1>6. w \in Seq(FileBytes)
  <2>1. CASE b = <<>>
    BY <1>2, <2>1 DEF WriteAt
  <2>2. CASE b # <<>>
    <3>1. Written(w, disk, WriteOffset, b)
      BY <1>2, <1>3, <1>5, <2>2, WriteFacts
    <3> HIDE DEF w, b
    <3> QED BY <3>1 DEF Written
  <2> QED BY <2>1, <2>2
<1>7. Sound' => Sound
  BY <1>4 DEF Sound, WriteFailed
<1>8. ASSUME Sound PROVE Runs(disk') /\ accepted \subseteq acked \cup Heads(disk')
  <2>1. Runs(disk) /\ accepted \subseteq acked \cup Heads(disk)
    BY <1>8, Types
  <2>2. WriteOffset = Len(disk)
    BY <1>3, <1>8 DEF Sound
  <2>3. CASE k = Size[e]
    <3>1. b = Bytes(e)
      <4>1. Bytes(e) \in Seq(FileBytes) /\ Len(Bytes(e)) = k /\ \A i \in 1..k : Bytes(e)[i] = <<e, i>>
        BY <2>3, BytesType
      <4> HIDE DEF b
      <4>2. Len(b) = Len(Bytes(e)) /\ \A i \in 1..Len(b) : b[i] = Bytes(e)[i]
        BY <1>5, <4>1
      <4> QED BY <1>5, <4>1, <4>2, SeqEqual
    <3>2. Runs(w) /\ Heads(disk) \subseteq Heads(w)
      <4>1. w = WriteAt(disk, Len(disk), Bytes(e))
        BY <2>2, <3>1
      <4> HIDE DEF w
      <4> QED BY <1>2, <2>1, <4>1, RunsAppend
    <3>3. disk' = w
      BY <1>1, <1>6, <3>2, OpenSound
    <3> HIDE DEF w
    <3> QED BY <2>1, <3>2, <3>3
  <2>4. CASE k # Size[e]
    <3>1. /\ Len(w) = Len(disk) + k
          /\ \A i \in 1..Len(disk) : w[i] = disk[i]
          /\ \A i \in 1..k : w[Len(disk) + i] = <<e, i>>
      <4>1. w = WriteAt(disk, Len(disk), b)
        BY <2>2
      <4> HIDE DEF w, b
      <4>2. /\ Len(w) = Len(disk) + Len(b)
            /\ \A i \in 1..Len(disk) : w[i] = disk[i]
            /\ \A i \in 1..Len(b) : w[Len(disk) + i] = b[i]
        BY <1>2, <1>5, <4>1, WriteAtEnd
      <4> QED BY <1>5, <4>2
    <3> HIDE DEF w, b
    <3>2. PICK n \in 0..Len(w) : disk' = SubSeq(w, 1, n) /\ Newlines(w) \subseteq 1..n /\ (n # 0 => IsNewline(w[n]))
      BY <1>1, <1>6, OpenFacts
    <3>3. n <= Len(disk)
      <4> SUFFICES ASSUME n > Len(disk) PROVE FALSE
        BY <1>2, <3>2
      <4>1. n - Len(disk) \in 1..k /\ Len(disk) + (n - Len(disk)) = n /\ n # 0
        BY <1>2, <1>5, <3>1
      <4>2. w[n] = <<e, n - Len(disk)>>
        BY <3>1, <4>1
      <4>3. n - Len(disk) \in 1..Size[e] /\ n - Len(disk) # Size[e]
        BY <1>5, <2>4, <4>1, SizeFacts
      <4>4. ~IsNewline(<<e, n - Len(disk)>>)
        BY <4>3, NewlineIs
      <4> QED BY <3>2, <4>1, <4>2, <4>4
    <3>4. n = Len(disk)
      <4>1. CASE Len(disk) = 0
        BY <3>3, <4>1
      <4>2. CASE Len(disk) # 0
        <5>1. Len(disk) \in Newlines(disk)
          BY <1>2, <2>1, <4>2, RunsLast
        <5>2. IsNewline(w[Len(disk)]) /\ Len(disk) \in DOMAIN w
          <6>1. Len(disk) \in 1..Len(disk) /\ DOMAIN w = 1..Len(w) /\ Len(disk) \in 1..Len(w)
            BY <1>2, <1>5, <1>6, <3>1, <4>2
          <6> QED BY <3>1, <5>1, <6>1 DEF Newlines
        <5>3. Len(disk) \in 1..n
          BY <3>2, <5>2 DEF Newlines
        <5> QED BY <1>2, <3>3, <5>3
      <4> QED BY <4>1, <4>2
    <3>5. disk' = disk
      <4>1. disk' \in Seq(FileBytes) /\ Len(disk') = n /\ \A i \in 1..n : disk'[i] = w[i]
        BY <1>6, <3>2, PrefixFacts
      <4>2. Len(disk') = Len(disk) /\ \A i \in 1..Len(disk') : disk'[i] = disk[i]
        BY <3>1, <3>4, <4>1
      <4> QED BY <1>2, <4>1, <4>2, SeqEqual
    <3> QED BY <2>1, <3>5
  <2> QED BY <2>3, <2>4
<1> HIDE DEF w, b
<1>9. Sound' => Runs(disk') /\ accepted' \subseteq acked' \cup Heads(disk')
  BY <1>1, <1>7, <1>8
<1>10. acked' \subseteq Events
  BY <1>1 DEF FileInv, TypeOK
<1> QED BY <1>1, <1>4, <1>6, <1>9, <1>10, OpenStep

(* The list handed out is the start of the file up to a newline. *)
LEMMA LinesUpToFacts ==
    ASSUME NEW d \in Seq(FileBytes), NEW c, NEW n \in Nat
    PROVE  \E m \in 0..Len(d) : /\ LinesUpTo(d, c, n) = SubSeq(d, 1, m)
                                /\ m <= n
                                /\ m # 0 => IsNewline(d[m])
<1> DEFINE Line(i) == Cardinality({j \in Newlines(d) : j <= i})
           S == {i \in Newlines(d) : i <= n /\ Line(i) <= c} \cup {0}
           m == Max(S)
<1>1. S \in SUBSET (0..Len(d)) /\ S # {} /\ Len(d) \in Nat
  BY NewlinesFinite
<1>2. m \in S
  <2> HIDE DEF S
  <2> QED BY <1>1, MaxOfBounded
<1>3. LinesUpTo(d, c, n) = SubSeq(d, 1, m)
  BY Zenon DEF LinesUpTo
<1>4. m <= n /\ (m # 0 => m \in Newlines(d))
  <2> HIDE DEF m, Line
  <2> QED BY <1>2
<1>5. m # 0 => IsNewline(d[m])
  BY <1>4 DEF Newlines
<1>6. m \in 0..Len(d)
  <2> HIDE DEF m, S
  <2> QED BY <1>1, <1>2
<1> HIDE DEF m, S
<1> QED BY <1>3, <1>4, <1>5, <1>6

LEMMA GetStep ==
    ASSUME FileInv, NEW maxCount \in Nat, NEW maxSize \in Nat, GetEventsForUpload(maxCount, maxSize)
    PROVE  FileInv'
<1>1. /\ fd /\ list = NoList
      /\ pos' = Min({maxSize, fileSize, Len(disk)}) /\ streamAtEnd' = FALSE
      /\ list' = LinesUpTo(disk, maxCount, pos')
      /\ UNCHANGED <<disk, fd, fileSize, eventCount, finalized, limit, accepted, acked, faults>>
  BY DEF GetEventsForUpload
<1>2. disk \in Seq(FileBytes) /\ Len(disk) \in Nat /\ fileSize \in Nat
  BY Types
<1>3. pos' \in Nat /\ pos' <= fileSize
  BY <1>1, <1>2, MinOfThree
<1>4. PICK m \in 0..Len(disk) : list' = SubSeq(disk, 1, m) /\ m <= pos' /\ (m # 0 => IsNewline(disk[m]))
  BY <1>1, <1>2, <1>3, LinesUpToFacts
<1>5. list' \in Seq(FileBytes) /\ Len(list') = m /\ \A i \in 1..m : list'[i] = disk[i]
  BY <1>2, <1>4, PrefixFacts
<1>6. LineInv' /\ NothingAcceptedIsLost'
  BY <1>1, LinesKept
<1>7. ListInv'
  <2>1. Len(list') <= fileSize' /\ list' = SubSeq(disk', 1, Len(list'))
    <3>1. m <= fileSize
      BY <1>2, <1>3, <1>4
    <3>2. Len(list') <= fileSize'
      BY <1>1, <1>5, <3>1
    <3>3. list' = SubSeq(disk', 1, Len(list'))
      BY <1>1, <1>4, <1>5
    <3> QED BY <3>2, <3>3
  <2>2. ASSUME list' # <<>> PROVE IsNewline(list'[Len(list')])
    <3>1. m # 0 /\ m \in 1..m
      BY <1>5, <2>2
    <3> QED BY <1>4, <1>5, <3>1
  <2> QED BY <1>1, <2>1, <2>2 DEF ListInv
<1>8. SizeInv' /\ ExactInv'
  <2>1. Newlines(disk)' = Newlines(disk) /\ WriteFailed' = WriteFailed
    BY <1>1 DEF Newlines, WriteFailed
  <2> QED BY <1>1, <2>1 DEF FileInv, SizeInv, ExactInv
<1>9. TypeOK' /\ fd' \in BOOLEAN /\ streamAtEnd' \in BOOLEAN /\ finalized' \in BOOLEAN
  BY <1>1, <1>3, <1>5 DEF FileInv, TypeOK
<1> QED BY <1>6, <1>7, <1>8, <1>9 DEF FileInv

(* The list and what follows it in the file. *)
LEMMA RestOfFile ==
    ASSUME FileInv, list # NoList
    PROVE  /\ list \in Seq(FileBytes) /\ Len(list) \in 0..Len(disk) /\ Len(disk) \in Nat
           /\ list = SubSeq(disk, 1, Len(list))
           /\ Rest = SubSeq(disk, Len(list) + 1, Len(disk))
           /\ Rest \in Seq(FileBytes) /\ Len(Rest) = Len(disk) - Len(list)
           /\ Sound => /\ Runs(Rest) /\ Runs(list)
                       /\ accepted \subseteq (acked \cup Intact(list)) \cup Heads(Rest)
           /\ faults = <<>> => Starts(Rest)
<1> DEFINE m == Len(list)
<1>1. list \in Seq(FileBytes) /\ m \in 0..Len(disk) /\ disk \in Seq(FileBytes) /\ Len(disk) \in Nat
  BY Types
<1>2. list = SubSeq(disk, 1, m) /\ (list # <<>> => IsNewline(list[m]))
  BY DEF FileInv, ListInv
<1>3. Rest = SubSeq(disk, m + 1, Len(disk))
  BY DEF Rest
<1>4. Rest \in Seq(FileBytes) /\ Len(Rest) = Len(disk) - m
  BY <1>1, <1>3, RestFacts
<1>5. m # 0 => IsNewline(disk[m])
  <2> SUFFICES ASSUME m # 0 PROVE IsNewline(disk[m])
    OBVIOUS
  <2>1. m \in 1..m /\ list # <<>>
    BY <1>1
  <2>2. \A i \in 1..m : SubSeq(disk, 1, m)[i] = disk[i]
    BY <1>1, PrefixFacts
  <2>3. list[m] = disk[m]
    BY <1>2, <2>1, <2>2
  <2> QED BY <1>2, <2>1, <2>3
<1>6. ASSUME Sound
      PROVE  Runs(Rest) /\ Runs(list) /\ accepted \subseteq (acked \cup Intact(list)) \cup Heads(Rest)
  <2>1. Runs(disk) /\ accepted \subseteq acked \cup Heads(disk)
    BY <1>6, Types
  <2>2. Runs(Rest)
    BY <1>1, <1>3, <2>1, RunsRest
  <2>3. Runs(list)
    <3>1. Runs(SubSeq(disk, 1, m))
      BY <1>1, <1>5, <2>1, RunsPrefix
    <3> QED BY <1>2, <3>1
  <2>4. Intact(list) = Heads(list)
    BY <1>1, <2>3, IntactIsHeads
  <2>5. Heads(disk) \subseteq Heads(list) \cup Heads(Rest)
    <3>1. Heads(disk) \subseteq Heads(SubSeq(disk, 1, m)) \cup Heads(SubSeq(disk, m + 1, Len(disk)))
      BY <1>1, HeadsSplit
    <3> QED BY <1>2, <1>3, <3>1
  <2> QED BY <2>1, <2>2, <2>3, <2>4, <2>5
<1>7. ASSUME faults = <<>> PROVE Starts(Rest)
  <2>1. Starts(disk) /\ Sound
    BY <1>7, NoFaultIsSound DEF FileInv, LineInv
  <2>2. Runs(disk)
    BY <2>1, Types
  <2> QED BY <1>1, <1>3, <1>5, <2>1, <2>2, RunsRest
<1> QED BY <1>1, <1>2, <1>3, <1>4, <1>6, <1>7

LEMMA AckedType ==
    ASSUME FileInv, acked' = acked \cup Intact(list)
    PROVE  acked' \subseteq Events
BY DEF FileInv, TypeOK, Intact

LEMMA UploadedAllStep ==
    ASSUME FileInv, UploadedAll
    PROVE  FileInv'
<1>1. /\ list # NoList /\ fd /\ fileSize = Len(list)
      /\ fileSize' = 0 /\ eventCount' = 0 /\ disk' = <<>> /\ fd' = ~finalized
      /\ list' = NoList /\ acked' = acked \cup Intact(list)
      /\ UNCHANGED <<finalized, limit, accepted, pos, streamAtEnd, faults>>
  BY DEF UploadedAll, Acknowledge
<1>2. disk' \in Seq(FileBytes) /\ Len(disk') = 0 /\ Newlines(disk') = {} /\ Cardinality(Newlines(disk')) = 0
  <2>1. disk' \in Seq(FileBytes) /\ Len(disk') = 0 /\ DOMAIN disk' = {}
    BY <1>1
  <2>2. Newlines(disk') = {}
    BY <2>1 DEF Newlines
  <2> QED BY <2>1, <2>2, FS_EmptySet
<1>3. Runs(disk') /\ Starts(disk')
  BY <1>2 DEF Runs, Starts
<1>4. Sound' = Sound /\ WriteFailed' = WriteFailed
  BY <1>1 DEF Sound, WriteFailed
<1>5. ASSUME ~WriteFailed PROVE fileSize = Len(disk) /\ ~streamAtEnd
  <2>1. fileSize = Len(disk) /\ (streamAtEnd => Len(list) < fileSize) /\ Len(list) \in Nat
    BY <1>1, <1>5, Types DEF FileInv, ExactInv
  <2> QED BY <1>1, <2>1
<1>6. ASSUME Sound PROVE accepted' \subseteq acked' \cup Heads(disk')
  <2>1. accepted \subseteq (acked \cup Intact(list)) \cup Heads(Rest)
    BY <1>1, <1>6, RestOfFile
  <2>2. Len(Rest) = 0
    <3>1. Len(Rest) = Len(disk) - Len(list) /\ Len(disk) \in Nat /\ Len(disk) = Len(list)
      BY <1>1, <1>5, <1>6, RestOfFile DEF Sound
    <3> QED BY <3>1
  <2>3. Heads(Rest) = {}
    BY <2>2 DEF Heads
  <2> QED BY <1>1, <2>1, <2>3
<1>7. LineInv' /\ NothingAcceptedIsLost'
  BY <1>2, <1>3, <1>4, <1>6, LinesNext
<1>8. SizeInv' /\ ListInv'
  <2>1. pos \in Nat
    BY Types
  <2> QED BY <1>1, <1>2, <2>1 DEF SizeInv, ListInv
<1>9. ExactInv'
  BY <1>1, <1>2, <1>4, <1>5 DEF ExactInv
<1>10. TypeOK'
  BY <1>1, <1>2, AckedType DEF FileInv, TypeOK
<1>11. fd' \in BOOLEAN /\ streamAtEnd' \in BOOLEAN /\ finalized' \in BOOLEAN
  BY <1>1 DEF FileInv
<1> QED BY <1>7, <1>8, <1>9, <1>10, <1>11 DEF FileInv

LEMMA UploadedPartStep ==
    ASSUME FileInv, NEW n \in 0..Len(disk), UploadedPart(n)
    PROVE  FileInv'
<1>1. /\ list # NoList /\ fd /\ fileSize # Len(list)
      /\ disk' = SubSeq(Rest, 1, n) /\ pos' = n /\ fileSize' = n
      /\ eventCount' = eventCount - Cardinality(Newlines(list))
      /\ list' = NoList /\ acked' = acked \cup Intact(list)
      /\ UNCHANGED <<finalized, limit, accepted, fd, streamAtEnd>>
  BY DEF UploadedPart, Acknowledge
<1>2. \/ n = Len(Rest) /\ faults' = faults
      \/ n < Len(Rest) /\ Fault("write")
  BY DEF UploadedPart
<1>3. /\ list \in Seq(FileBytes) /\ Len(list) \in 0..Len(disk) /\ Len(disk) \in Nat
      /\ list = SubSeq(disk, 1, Len(list))
      /\ Rest = SubSeq(disk, Len(list) + 1, Len(disk))
      /\ Rest \in Seq(FileBytes) /\ Len(Rest) = Len(disk) - Len(list)
      /\ Sound => /\ Runs(Rest)
                  /\ accepted \subseteq (acked \cup Intact(list)) \cup Heads(Rest)
      /\ faults = <<>> => Starts(Rest)
  BY <1>1, RestOfFile
<1>4. disk \in Seq(FileBytes) /\ faults \in Seq(Kinds) /\ eventCount \in Nat
  BY Types
<1>5. n \in 0..Len(Rest)
  BY <1>2, <1>3
<1>6. disk' \in Seq(FileBytes) /\ Len(disk') = n /\ Newlines(disk') = {i \in Newlines(Rest) : i <= n}
  BY <1>1, <1>3, <1>5, PrefixFacts
<1>7. ASSUME n = Len(Rest) PROVE disk' = Rest
  <2>1. \A i \in 1..n : SubSeq(Rest, 1, n)[i] = Rest[i]
    BY <1>3, <1>5, PrefixFacts
  <2> QED BY <1>1, <1>3, <1>6, <1>7, <2>1, SeqEqual
<1> DEFINE D == Cardinality(Newlines(disk))
           L == Cardinality(Newlines(list))
           R == Cardinality(Newlines(Rest))
           E == Cardinality(Newlines(disk'))
<1>8. D = L + R /\ D \in Nat /\ L \in Nat /\ R \in Nat /\ E \in Nat /\ E <= R
  <2>1. Cardinality(Newlines(disk)) = Cardinality(Newlines(SubSeq(disk, 1, Len(list))))
                                      + Cardinality(Newlines(SubSeq(disk, Len(list) + 1, Len(disk))))
    BY <1>3, <1>4, SplitNewlines
  <2>2. D = L + R
    BY <1>3, <2>1
  <2>3. Newlines(disk') \subseteq Newlines(Rest)
    BY <1>6
  <2>4. E <= R
    BY <1>3, <1>6, <2>3, FewerNewlines
  <2> QED BY <1>3, <1>4, <1>6, <2>2, <2>4, NewlinesFinite
<1>9. D <= eventCount /\ (~WriteFailed => eventCount = D)
  BY <1>1 DEF FileInv, SizeInv, ExactInv
<1> HIDE DEF D, L, R, E
<1>10. eventCount' = eventCount - L /\ eventCount' \in Nat /\ E <= eventCount'
  <2>1. eventCount' = eventCount - L
    BY <1>1 DEF L
  <2> QED BY <1>4, <1>8, <1>9, <2>1
<1>11. faults' \in Seq(Kinds) /\ (n # Len(Rest) => WriteFailed' /\ faults' # <<>>)
  <2>1. CASE n = Len(Rest) /\ faults' = faults
    BY <1>4, <2>1
  <2>2. CASE n < Len(Rest) /\ Fault("write")
    <3>1. "write" \in Kinds
      BY DEF Kinds
    <3>2. faults' \in Seq(Kinds) /\ ToSet(faults') = ToSet(faults) \cup {"write"} /\ faults' # <<>>
      BY <1>4, <2>2, <3>1, FaultFacts
    <3> QED BY <3>2 DEF WriteFailed
  <2> QED BY <1>2, <2>1, <2>2
<1>12. ASSUME n = Len(Rest) PROVE faults' = faults /\ Sound' = Sound /\ WriteFailed' = WriteFailed
  <2>1. faults' = faults
    BY <1>2, <1>3, <1>12
  <2> QED BY <2>1 DEF Sound, WriteFailed
<1>13. ASSUME n # Len(Rest) PROVE ~Sound'
  BY <1>11, <1>13 DEF Sound
<1>14. LineInv' /\ NothingAcceptedIsLost'
  <2>1. Sound' => Runs(disk') /\ accepted' \subseteq acked' \cup Heads(disk')
    BY <1>1, <1>3, <1>7, <1>12, <1>13
  <2>2. faults' = <<>> => Starts(disk')
    BY <1>3, <1>7, <1>11, <1>12
  <2> QED BY <1>6, <2>1, <2>2, LinesNext
<1>15. SizeInv' /\ ListInv'
  <2>1. fileSize' <= Len(disk') /\ fileSize' <= pos'
    BY <1>1, <1>6
  <2> QED BY <1>1, <1>10, <2>1 DEF SizeInv, ListInv, E
<1>16. ExactInv'
  <2> SUFFICES ASSUME ~WriteFailed' PROVE eventCount' = Cardinality(Newlines(disk'))
    BY <1>1, <1>6 DEF ExactInv
  <2>1. n = Len(Rest) /\ ~WriteFailed
    BY <1>11, <1>12
  <2>2. E = R
    BY <1>7, <2>1 DEF E, R
  <2>3. eventCount' = R
    BY <1>8, <1>9, <1>10, <2>1
  <2> QED BY <2>2, <2>3 DEF E
<1>17. TypeOK' /\ fd' \in BOOLEAN /\ streamAtEnd' \in BOOLEAN /\ finalized' \in BOOLEAN
  BY <1>1, <1>6, <1>10, <1>11, AckedType DEF FileInv, TypeOK, Kinds
<1> QED BY <1>14, <1>15, <1>16, <1>17 DEF FileInv

(* The rest of the file copied over its start, the end of the file still there. *)
LEMMA RunsCopied ==
    ASSUME NEW d \in Seq(FileBytes), Runs(d), NEW r \in Seq(FileBytes), Runs(r), Len(r) <= Len(d)
    PROVE  LET w == WriteAt(d, 0, r) IN w \in Seq(FileBytes) /\ Runs(w) /\ Heads(r) \subseteq Heads(w)
<1> DEFINE w == WriteAt(d, 0, r)
           n == Len(d)
           m == Len(r)
<1>1. n \in Nat /\ m \in Nat /\ m <= n
  OBVIOUS
<1>2. CASE r = <<>>
  <2>1. w = d
    BY <1>2 DEF WriteAt
  <2>2. Heads(r) = {}
    BY <1>2 DEF Heads
  <2> HIDE DEF w
  <2>3. w \in Seq(FileBytes) /\ Runs(w) /\ Heads(r) \subseteq Heads(w)
    BY <2>1, <2>2
  <2> QED BY <2>3 DEF w
<1>3. CASE r # <<>>
  <2>1. Written(w, d, 0, r)
    BY <1>3, WriteFacts
  <2> HIDE DEF w
  <2>2. /\ w \in Seq(FileBytes) /\ Len(w) = n
        /\ \A i \in 1..n : w[i] = IF i > 0 /\ i <= 0 + m THEN r[i - 0]
                                  ELSE IF i <= n THEN d[i] ELSE Nul
    <3>1. (IF Len(d) <= 0 + Len(r) THEN 0 + Len(r) ELSE Len(d)) = n
      BY <1>1
    <3> QED BY <2>1, <3>1 DEF Written
  <2>3. \A i \in 1..m : i \in 1..n /\ w[i] = r[i]
    <3> TAKE i \in 1..m
    <3>1. i \in 1..n /\ i > 0 /\ i <= 0 + m /\ i - 0 = i
      BY <1>1
    <3> QED BY <2>2, <3>1
  <2>4. \A i \in 1..n : i > m => w[i] = d[i]
    <3> TAKE i \in 1..n
    <3> HAVE i > m
    <3>1. ~(i <= 0 + m) /\ i <= n
      BY <1>1
    <3> QED BY <2>2, <3>1
  <2>5. Runs(w)
    <3> SUFFICES ASSUME NEW i \in 1..n PROVE RunAt(w, i)
      BY <2>2 DEF Runs
    <3>1. CASE i < m
      <4>1. i \in 1..m /\ i + 1 \in 1..m /\ i < n
        BY <1>1, <3>1
      <4>2. RunAt(r, i) /\ w[i] = r[i] /\ w[i + 1] = r[i + 1]
        BY <2>3, <4>1 DEF Runs
      <4> QED BY <2>2, <4>1, <4>2, RunAtMoves
    <3>2. CASE i = m
      <4>1. m # 0 /\ i \in 1..m
        BY <1>1, <3>2
      <4>2. RunAt(r, i) /\ w[i] = r[i]
        BY <2>3, <4>1 DEF Runs
      <4>3. IsNewline(r[i])
        <5>1. m \in Newlines(r)
          BY <4>1, RunsLast
        <5> QED BY <3>2, <5>1 DEF Newlines
      <4> QED BY <4>2, <4>3, RunAtNewline
    <3>3. CASE i > m
      <4>1. RunAt(d, i) /\ w[i] = d[i]
        BY <2>4, <3>3 DEF Runs
      <4>2. ASSUME i < n PROVE w[i + 1] = d[i + 1]
        <5>1. i + 1 \in 1..n /\ i + 1 > m
          BY <1>1, <3>3, <4>2
        <5> QED BY <2>4, <5>1
      <4> QED BY <2>2, <4>1, <4>2, RunAtMoves
    <3> QED BY <1>1, <3>1, <3>2, <3>3
  <2>6. Heads(r) \subseteq Heads(w)
    BY <2>2, <2>3 DEF Heads
  <2> QED BY <2>2, <2>5, <2>6 DEF w
<1> QED BY <1>2, <1>3

LEMMA CrashInUploadedStep ==
    ASSUME FileInv, NEW n \in 0..Len(disk), CrashInUploaded(n)
    PROVE  FileInv'
<1> DEFINE b == SubSeq(Rest, 1, n)
           w == WriteAt(disk, 0, b)
           kind == IF n = Len(Rest) THEN "crash" ELSE "copy"
<1>1. /\ list # NoList /\ fd /\ n <= Len(Rest) /\ Open(w) /\ Fault(kind)
      /\ accepted' = accepted /\ acked' = acked \cup Intact(list)
  BY DEF CrashInUploaded
<1>2. disk \in Seq(FileBytes) /\ Len(disk) \in Nat /\ faults \in Seq(Kinds)
  BY Types
<1>3. /\ Rest \in Seq(FileBytes) /\ Len(Rest) <= Len(disk)
      /\ Sound => /\ Runs(Rest)
                  /\ accepted \subseteq (acked \cup Intact(list)) \cup Heads(Rest)
  <2>1. /\ Rest \in Seq(FileBytes) /\ Len(Rest) = Len(disk) - Len(list) /\ Len(list) \in 0..Len(disk)
        /\ Sound => /\ Runs(Rest)
                    /\ accepted \subseteq (acked \cup Intact(list)) \cup Heads(Rest)
    BY <1>1, RestOfFile
  <2>2. Len(Rest) <= Len(disk)
    BY <1>2, <2>1
  <2> QED BY <2>1, <2>2
<1>4. n \in 0..Len(Rest)
  BY <1>1, <1>3
<1>5. b \in Seq(FileBytes) /\ Len(b) = n /\ \A i \in 1..n : b[i] = Rest[i]
  BY <1>3, <1>4, PrefixFacts
<1>6. w \in Seq(FileBytes)
  <2>1. CASE b = <<>>
    BY <1>2, <2>1 DEF WriteAt
  <2>2. CASE b # <<>>
    <3>1. Written(w, disk, 0, b)
      BY <1>2, <1>5, <2>2, WriteFacts
    <3> HIDE DEF w, b
    <3> QED BY <3>1 DEF Written
  <2> QED BY <2>1, <2>2
<1>7. faults' \in Seq(Kinds) /\ ToSet(faults') = ToSet(faults) \cup {kind} /\ faults' # <<>>
  <2>1. kind \in Kinds
    BY DEF Kinds
  <2> HIDE DEF kind
  <2> QED BY <1>1, <1>2, <2>1, FaultFacts
<1>8. ASSUME Sound' PROVE Sound /\ n = Len(Rest)
  BY <1>7, <1>8 DEF Sound, WriteFailed
<1>9. ASSUME Sound' PROVE Runs(disk') /\ accepted' \subseteq acked' \cup Heads(disk')
  <2>1. Runs(disk) /\ Sound /\ n = Len(Rest)
    BY <1>8, <1>9, Types
  <2>2. b = Rest
    <3> HIDE DEF b
    <3>1. Len(b) = Len(Rest) /\ \A i \in 1..Len(b) : b[i] = Rest[i]
      BY <1>5, <2>1
    <3> QED BY <1>3, <1>5, <3>1, SeqEqual
  <2>3. Runs(w) /\ Heads(Rest) \subseteq Heads(w)
    <3>1. w = WriteAt(disk, 0, Rest)
      BY <2>2
    <3> HIDE DEF w
    <3> QED BY <1>2, <1>3, <2>1, <3>1, RunsCopied
  <2>4. disk' = w
    BY <1>1, <1>6, <2>3, OpenSound
  <2> HIDE DEF w
  <2> QED BY <1>1, <1>3, <2>1, <2>3, <2>4
<1> HIDE DEF w, b, kind
<1>10. acked' \subseteq Events
  BY <1>1, AckedType
<1> QED BY <1>1, <1>6, <1>7, <1>9, <1>10, OpenStep

LEMMA InitFileInv == Init => FileInv
<1> SUFFICES ASSUME Init PROVE FileInv
  OBVIOUS
<1>1. /\ disk = <<>> /\ fd = TRUE /\ pos = 0 /\ streamAtEnd = FALSE /\ fileSize = 0
      /\ eventCount = 0 /\ finalized = FALSE /\ limit \in Limits /\ list = NoList
      /\ accepted = {} /\ acked = {} /\ faults = <<>>
  BY DEF Init
<1>2. disk \in Seq(FileBytes) /\ Len(disk) = 0 /\ DOMAIN disk = {}
  BY <1>1
<1>3. Newlines(disk) = {} /\ Cardinality(Newlines(disk)) = 0
  BY <1>2, FS_EmptySet DEF Newlines
<1>4. TypeOK
  BY <1>1, <1>2 DEF TypeOK
<1>5. SizeInv /\ ListInv /\ ExactInv
  BY <1>1, <1>2, <1>3 DEF SizeInv, ListInv, ExactInv
<1>6. LineInv /\ NothingAcceptedIsLost
  BY <1>1, <1>2 DEF LineInv, Runs, Starts, NothingAcceptedIsLost
<1> QED BY <1>1, <1>4, <1>5, <1>6 DEF FileInv

LEMMA FileStep == FileInv /\ [Next]_vars => FileInv'
<1> SUFFICES ASSUME FileInv, [Next]_vars PROVE FileInv'
  OBVIOUS
<1>1. limit \in Limits /\ finalized \in BOOLEAN
  BY DEF FileInv, TypeOK
<1>2. ASSUME UNCHANGED vars PROVE FileInv'
  BY <1>1, <1>2, SettingStep DEF vars
<1>3. ASSUME SetLimit \/ SetFinalized \/ DropList PROVE FileInv'
  BY <1>1, <1>3, SettingStep DEF SetLimit, SetFinalized, DropList
<1>4. ASSUME NEW a \in UploadArgs, GetEventsForUpload(a[1], a[2]) PROVE FileInv'
  <2>1. a[1] \in Nat /\ a[2] \in Nat
    BY SizeAssumption
  <2> QED BY <1>4, <2>1, GetStep
<1> QED BY <1>2, <1>3, <1>4, ReopenStep, OpenFailsStep, AddEventStep, AddEventFailsStep,
           CrashInAddEventStep, UploadedAllStep, UploadedPartStep, CrashInUploadedStep DEF Next

LEMMA FileAlways == Spec => []FileInv
BY InitFileInv, FileStep, PTL DEF Spec

(* The size, the count and the offset the object keeps are those of the file
   while no write has failed, and the size never goes beyond the file: over all
   runs of the program, its crashes and what is added while a list is out. *)
THEOREM RecordsMatch == Spec => []RecordsMatchFile
<1>1. FileInv => RecordsMatchFile
  BY DEF FileInv, SizeInv, ExactInv, RecordsMatchFile
<1> QED BY <1>1, FileAlways, PTL

(* While no write fails and no copy is cut short, every event addEvent accepted
   is a whole line of the file or was acknowledged. *)
THEOREM NothingLost == Spec => []NothingAcceptedIsLost
<1>1. FileInv => NothingAcceptedIsLost
  BY DEF FileInv
<1> QED BY <1>1, FileAlways, PTL

-----------------------------------------------------------------------------
(* The events of the lines.  What EventsIn computes is shown by induction on the
   length of its argument, in the form of a least counterexample. *)

(* What the recursive function of EventsIn is at n, given what it is before n. *)
ReadStep(d, f, n) ==
    IF n = 0 THEN <<>>
    ELSE IF IsNewline(d[n]) THEN Append(f[n - 1], d[n][1]) ELSE f[n - 1]

Reads(f, d, m) == f = [n \in 0..m |-> ReadStep(d, f, n)]

LEMMA ReadAt ==
    ASSUME NEW d, NEW f, NEW m, Reads(f, d, m), NEW n \in 0..m
    PROVE  f[n] = ReadStep(d, f, n)
BY DEF Reads

LEMMA ReadExists ==
    ASSUME NEW d, NEW m \in Nat
    PROVE  \E f : Reads(f, d, m)
<1> DEFINE B == {k \in Nat : ~\E f : Reads(f, d, k)}
<1> SUFFICES ASSUME B # {} PROVE FALSE
  OBVIOUS
<1>1. PICK k \in B : \A j \in B : k <= j
  <2>1. B \in SUBSET Nat
    OBVIOUS
  <2> HIDE DEF B
  <2> QED BY <2>1, LeastNumber
<1>2. CASE k = 0
  <2> DEFINE f == [i \in 0..0 |-> <<>>]
  <2>1. Reads(f, d, 0)
    BY DEF Reads, ReadStep
  <2> QED BY <1>2, <2>1
<1>3. CASE k # 0
  <2>1. k - 1 \in Nat /\ k - 1 \notin B
    BY <1>1, <1>3
  <2>2. PICK f : Reads(f, d, k - 1)
    BY <2>1
  <2> DEFINE g == [i \in 0..k |-> IF i = k THEN ReadStep(d, f, k) ELSE f[i]]
  <2>3. \A i \in 0..k : ReadStep(d, g, i) = ReadStep(d, f, i)
    BY <1>3 DEF ReadStep
  <2>4. \A i \in 0..(k - 1) : f[i] = ReadStep(d, f, i)
    BY <2>2 DEF Reads
  <2>5. \A i \in 0..k : g[i] = ReadStep(d, g, i)
    BY <2>3, <2>4
  <2>6. Reads(g, d, k)
    <3> HIDE DEF g
    <3>1. g = [i \in 0..k |-> g[i]]
      BY DEF g
    <3> QED BY <2>5, <3>1 DEF Reads
  <2> QED BY <2>6
<1> QED BY <1>2, <1>3

LEMMA EventsInIs ==
    ASSUME NEW d, Len(d) \in Nat
    PROVE  \E f : Reads(f, d, Len(d)) /\ EventsIn(d) = f[Len(d)]
<1> DEFINE f == CHOOSE g : g = [n \in 0..Len(d) |-> ReadStep(d, g, n)]
<1>1. f = [n \in 0..Len(d) |-> ReadStep(d, f, n)]
  BY ReadExists, Zenon DEF Reads
<1>2. EventsIn(d) = f[Len(d)]
  BY Zenon DEF EventsIn, ReadStep
<1> QED BY <1>1, <1>2, Zenon DEF Reads

(* What is read up to k depends on the bytes up to k only. *)
LEMMA ReadsAgree ==
    ASSUME NEW c, NEW d, NEW f, NEW g, NEW m \in Nat, NEW n \in Nat, NEW k \in Nat, k <= m, k <= n,
           Reads(f, c, m), Reads(g, d, n), \A i \in 1..k : c[i] = d[i]
    PROVE  f[k] = g[k]
<1> DEFINE B == {j \in 0..k : f[j] # g[j]}
<1> SUFFICES ASSUME B # {} PROVE FALSE
  OBVIOUS
<1>1. PICK j \in B : \A i \in B : j <= i
  <2>1. B \in SUBSET Nat
    OBVIOUS
  <2> HIDE DEF B
  <2> QED BY <2>1, LeastNumber
<1>2. f[j] = ReadStep(c, f, j) /\ g[j] = ReadStep(d, g, j)
  <2>1. j \in 0..m /\ j \in 0..n
    OBVIOUS
  <2> QED BY <2>1, ReadAt
<1>3. j # 0
  BY <1>2 DEF ReadStep
<1>4. f[j - 1] = g[j - 1] /\ c[j] = d[j]
  BY <1>1, <1>3
<1>5. ReadStep(c, f, j) = ReadStep(d, g, j)
  BY <1>3, <1>4 DEF ReadStep
<1> QED BY <1>2, <1>5

LEMMA NoEvents == EventsIn(<<>>) = <<>>
<1>1. PICK f : Reads(f, <<>>, 0) /\ EventsIn(<<>>) = f[0]
  BY EventsInIs
<1> QED BY <1>1 DEF Reads, ReadStep

LEMMA EventsInAppend ==
    ASSUME NEW d \in Seq(FileBytes), NEW b \in FileBytes
    PROVE  EventsIn(Append(d, b)) = IF IsNewline(b) THEN Append(EventsIn(d), b[1]) ELSE EventsIn(d)
<1> DEFINE t == Append(d, b)
           n == Len(d)
<1>1. n \in Nat /\ Len(t) = n + 1 /\ t[n + 1] = b /\ \A i \in 1..n : t[i] = d[i]
  OBVIOUS
<1> HIDE DEF t, n
<1>2. PICK f : Reads(f, d, n) /\ EventsIn(d) = f[n]
  BY <1>1, EventsInIs DEF n
<1>3. PICK g : Reads(g, t, n + 1) /\ EventsIn(t) = g[n + 1]
  BY <1>1, EventsInIs
<1>4. g[n] = f[n]
  BY <1>1, <1>2, <1>3, ReadsAgree
<1>5. g[n + 1] = ReadStep(t, g, n + 1)
  <2>1. n + 1 \in 0..(n + 1)
    BY <1>1
  <2> QED BY <1>3, <2>1, ReadAt
<1> QED BY <1>1, <1>2, <1>3, <1>4, <1>5 DEF ReadStep, t

LEMMA LastByte ==
    ASSUME NEW S, NEW t \in Seq(S), t # <<>>
    PROVE  \E u \in Seq(S), e \in S : t = Append(u, e) /\ Len(u) = Len(t) - 1
<1>1. PICK u \in Seq(S), e \in S : t = Append(u, e)
  BY SequenceEmptyOrAppend
<1>2. Len(u) \in Nat /\ Len(t) = Len(u) + 1
  BY <1>1
<1> QED BY <1>1, <1>2

LEMMA ConcatOfAppend ==
    ASSUME NEW S, NEW a \in Seq(S), NEW b \in Seq(S), NEW x \in S
    PROVE  a \o Append(b, x) = Append(a \o b, x) /\ a \o b \in Seq(S)
<1>1. a \o b \in Seq(S) /\ Append(b, x) \in Seq(S) /\ <<x>> \in Seq(S)
  OBVIOUS
<1>2. Append(b, x) = b \o <<x>> /\ Append(a \o b, x) = (a \o b) \o <<x>>
  BY <1>1, AppendIsConcat
<1>3. (a \o b) \o <<x>> = a \o (b \o <<x>>)
  BY <1>1, ConcatAssociative
<1> QED BY <1>1, <1>2, <1>3

LEMMA NewlineOfEvent ==
    ASSUME NEW b \in FileBytes, IsNewline(b)
    PROVE  b[1] \in Events
BY DEF FileBytes, IsNewline

LEMMA NewlinesAppend ==
    ASSUME NEW d \in Seq(FileBytes), NEW b \in FileBytes
    PROVE  Cardinality(Newlines(Append(d, b)))
               = Cardinality(Newlines(d)) + (IF IsNewline(b) THEN 1 ELSE 0)
<1> DEFINE t == Append(d, b)
           n == Len(d)
<1>1. /\ n \in Nat /\ Len(t) = n + 1 /\ t[n + 1] = b /\ \A i \in 1..n : t[i] = d[i]
      /\ DOMAIN t = 1..(n + 1) /\ DOMAIN d = 1..n
  OBVIOUS
<1> HIDE DEF t, n
<1>2. Newlines(d) \subseteq 1..n /\ IsFiniteSet(Newlines(d)) /\ Cardinality(Newlines(d)) \in Nat
  BY NewlinesFinite DEF n
<1>3. CASE IsNewline(b)
  <2>1. Newlines(t) = Newlines(d) \cup {n + 1}
    BY <1>1, <1>3 DEF Newlines
  <2>2. n + 1 \notin Newlines(d)
    BY <1>1, <1>2
  <2>3. Cardinality(Newlines(d) \cup {n + 1}) = Cardinality(Newlines(d)) + 1
    BY <1>2, <2>2, FS_AddElement
  <2> QED BY <1>3, <2>1, <2>3 DEF t
<1>4. CASE ~IsNewline(b)
  <2>1. Newlines(t) = Newlines(d)
    BY <1>1, <1>4 DEF Newlines
  <2> QED BY <1>2, <1>4, <2>1 DEF t
<1> QED BY <1>3, <1>4

(* One event per newline. *)
LEMMA EventsInType ==
    ASSUME NEW d \in Seq(FileBytes)
    PROVE  EventsIn(d) \in Seq(Events) /\ Len(EventsIn(d)) = Cardinality(Newlines(d))
<1> DEFINE Good(t) == EventsIn(t) \in Seq(Events) /\ Len(EventsIn(t)) = Cardinality(Newlines(t))
           B == {n \in Nat : \E t \in Seq(FileBytes) : Len(t) = n /\ ~Good(t)}
<1> SUFFICES ASSUME B # {} PROVE FALSE
  OBVIOUS
<1>1. PICK n \in B : \A k \in B : n <= k
  <2>1. B \in SUBSET Nat
    OBVIOUS
  <2> HIDE DEF B
  <2> QED BY <2>1, LeastNumber
<1>2. PICK t \in Seq(FileBytes) : Len(t) = n /\ ~Good(t)
  OBVIOUS
<1>3. t # <<>>
  <2>1. Newlines(<<>>) = {} /\ Cardinality({}) = 0
    BY FS_EmptySet DEF Newlines
  <2>2. Good(<<>>)
    <3>1. <<>> \in Seq(Events) /\ Len(<<>>) = 0
      OBVIOUS
    <3>2. EventsIn(<<>>) \in Seq(Events) /\ Len(EventsIn(<<>>)) = 0
      BY NoEvents, <3>1, Zenon
    <3> QED BY <2>1, <3>2, Zenon
  <2> HIDE DEF Good
  <2> QED BY <1>2, <2>2
<1>4. PICK u \in Seq(FileBytes), b \in FileBytes : t = Append(u, b) /\ Len(u) = n - 1
  <2>1. PICK u \in Seq(FileBytes), b \in FileBytes : t = Append(u, b) /\ Len(u) = Len(t) - 1
    BY <1>3, LastByte
  <2> QED BY <1>2, <2>1
<1>5. Good(u)
  <2>1. n - 1 \in Nat /\ n - 1 \notin B
    <3>1. n \in Nat /\ Len(u) \in Nat
      OBVIOUS
    <3> HIDE DEF B
    <3> QED BY <1>1, <1>4, <3>1
  <2> HIDE DEF Good
  <2> QED BY <1>4, <2>1
<1>6. EventsIn(t) = IF IsNewline(b) THEN Append(EventsIn(u), b[1]) ELSE EventsIn(u)
  BY <1>4, EventsInAppend
<1>7. Cardinality(Newlines(t)) = Cardinality(Newlines(u)) + (IF IsNewline(b) THEN 1 ELSE 0)
  BY <1>4, NewlinesAppend
<1>8. IsNewline(b) => b[1] \in Events
  BY NewlineOfEvent
<1>9. Good(t)
  <2> HIDE DEF B
  <2> QED BY <1>5, <1>6, <1>7, <1>8
<1> QED BY <1>2, <1>9

LEMMA EventsInConcat ==
    ASSUME NEW c \in Seq(FileBytes), NEW d \in Seq(FileBytes)
    PROVE  EventsIn(c \o d) = EventsIn(c) \o EventsIn(d)
<1> DEFINE Good(t) == EventsIn(c \o t) = EventsIn(c) \o EventsIn(t)
           B == {n \in Nat : \E t \in Seq(FileBytes) : Len(t) = n /\ ~Good(t)}
<1> SUFFICES ASSUME B # {} PROVE FALSE
  OBVIOUS
<1>1. PICK n \in B : \A k \in B : n <= k
  <2>1. B \in SUBSET Nat
    OBVIOUS
  <2> HIDE DEF B
  <2> QED BY <2>1, LeastNumber
<1>2. PICK t \in Seq(FileBytes) : Len(t) = n /\ ~Good(t)
  OBVIOUS
<1>3. t # <<>>
  <2>1. c \o <<>> = c /\ EventsIn(c) \o <<>> = EventsIn(c)
    BY EventsInType, ConcatEmptySeq
  <2>2. Good(<<>>)
    BY <2>1, NoEvents
  <2> HIDE DEF Good
  <2> QED BY <1>2, <2>2
<1>4. PICK u \in Seq(FileBytes), b \in FileBytes : t = Append(u, b) /\ Len(u) = n - 1
  <2>1. PICK u \in Seq(FileBytes), b \in FileBytes : t = Append(u, b) /\ Len(u) = Len(t) - 1
    BY <1>3, LastByte
  <2> QED BY <1>2, <2>1
<1>5. Good(u)
  <2>1. n - 1 \in Nat /\ n - 1 \notin B
    <3>1. n \in Nat /\ Len(u) \in Nat
      OBVIOUS
    <3> HIDE DEF B
    <3> QED BY <1>1, <1>4, <3>1
  <2> HIDE DEF Good
  <2> QED BY <1>4, <2>1
<1> HIDE DEF B
<1>6. EventsIn(t) = IF IsNewline(b) THEN Append(EventsIn(u), b[1]) ELSE EventsIn(u)
  BY <1>4, EventsInAppend
<1>7. c \o t = Append(c \o u, b) /\ c \o u \in Seq(FileBytes)
  BY <1>4, ConcatOfAppend
<1>8. EventsIn(c \o t) = IF IsNewline(b) THEN Append(EventsIn(c \o u), b[1]) ELSE EventsIn(c \o u)
  BY <1>7, EventsInAppend
<1>9. CASE IsNewline(b)
  <2>1. b[1] \in Events /\ EventsIn(c) \in Seq(Events) /\ EventsIn(u) \in Seq(Events)
    BY <1>9, NewlineOfEvent, EventsInType
  <2>2. EventsIn(c) \o Append(EventsIn(u), b[1]) = Append(EventsIn(c) \o EventsIn(u), b[1])
    BY <2>1, ConcatOfAppend
  <2> QED BY <1>2, <1>5, <1>6, <1>8, <1>9, <2>2
<1>10. CASE ~IsNewline(b)
  BY <1>2, <1>5, <1>6, <1>8, <1>10
<1> QED BY <1>9, <1>10

-----------------------------------------------------------------------------
(* The lines of a sequence of events, put together by FlattenSeq. *)
LinesOf(q) == FlattenSeq([i \in DOMAIN q |-> Bytes(q[i])])

JoinStep(s, f, i) == IF i = 1 THEN s[i] ELSE f[i - 1] \o s[i]

Joins(f, s, m) == f = [i \in 1..m |-> JoinStep(s, f, i)]

LEMMA JoinAt ==
    ASSUME NEW s, NEW f, NEW m, Joins(f, s, m), NEW i \in 1..m
    PROVE  f[i] = JoinStep(s, f, i)
BY DEF Joins

LEMMA JoinExists ==
    ASSUME NEW s, NEW m \in Nat
    PROVE  \E f : Joins(f, s, m)
<1> DEFINE B == {k \in Nat : ~\E f : Joins(f, s, k)}
<1> SUFFICES ASSUME B # {} PROVE FALSE
  OBVIOUS
<1>1. PICK k \in B : \A j \in B : k <= j
  <2>1. B \in SUBSET Nat
    OBVIOUS
  <2> HIDE DEF B
  <2> QED BY <2>1, LeastNumber
<1>2. CASE k = 0
  <2> DEFINE f == [i \in 1..0 |-> <<>>]
  <2>1. Joins(f, s, 0)
    BY DEF Joins
  <2> QED BY <1>2, <2>1
<1>3. CASE k # 0
  <2>1. k - 1 \in Nat /\ k - 1 \notin B
    BY <1>1, <1>3
  <2>2. PICK f : Joins(f, s, k - 1)
    BY <2>1
  <2> DEFINE g == [i \in 1..k |-> IF i = k THEN JoinStep(s, f, k) ELSE f[i]]
  <2>3. \A i \in 1..k : JoinStep(s, g, i) = JoinStep(s, f, i)
    BY <1>3 DEF JoinStep
  <2>4. \A i \in 1..(k - 1) : f[i] = JoinStep(s, f, i)
    BY <2>2 DEF Joins
  <2>5. \A i \in 1..k : g[i] = JoinStep(s, g, i)
    BY <2>3, <2>4
  <2>6. Joins(g, s, k)
    <3> HIDE DEF g
    <3>1. g = [i \in 1..k |-> g[i]]
      BY DEF g
    <3> QED BY <2>5, <3>1 DEF Joins
  <2> QED BY <2>6
<1> QED BY <1>2, <1>3

LEMMA FlattenIs ==
    ASSUME NEW s, Len(s) \in Nat, Len(s) # 0
    PROVE  \E f : Joins(f, s, Len(s)) /\ FlattenSeq(s) = f[Len(s)]
<1> DEFINE f == CHOOSE g : g = [i \in 1..Len(s) |-> JoinStep(s, g, i)]
<1>1. f = [i \in 1..Len(s) |-> JoinStep(s, f, i)]
  BY JoinExists, Zenon DEF Joins
<1>2. FlattenSeq(s) = f[Len(s)]
  BY Zenon DEF FlattenSeq, JoinStep
<1> QED BY <1>1, <1>2, Zenon DEF Joins

LEMMA JoinsAgree ==
    ASSUME NEW s, NEW t, NEW f, NEW g, NEW m \in Nat, NEW n \in Nat, NEW k \in Nat, k # 0, k <= m, k <= n,
           Joins(f, s, m), Joins(g, t, n), \A i \in 1..k : s[i] = t[i]
    PROVE  f[k] = g[k]
<1> DEFINE B == {j \in 1..k : f[j] # g[j]}
<1> SUFFICES ASSUME B # {} PROVE FALSE
  OBVIOUS
<1>1. PICK j \in B : \A i \in B : j <= i
  <2>1. B \in SUBSET Nat
    OBVIOUS
  <2> HIDE DEF B
  <2> QED BY <2>1, LeastNumber
<1>2. f[j] = JoinStep(s, f, j) /\ g[j] = JoinStep(t, g, j)
  <2>1. j \in 1..m /\ j \in 1..n
    OBVIOUS
  <2> QED BY <2>1, JoinAt
<1>3. s[j] = t[j]
  OBVIOUS
<1>4. j # 1
  BY <1>2, <1>3 DEF JoinStep
<1>5. f[j - 1] = g[j - 1]
  BY <1>1, <1>4
<1>6. JoinStep(s, f, j) = JoinStep(t, g, j)
  BY <1>3, <1>4, <1>5 DEF JoinStep
<1> QED BY <1>2, <1>6

LEMMA NoLines == LinesOf(<<>>) = <<>>
<1> DEFINE s == [i \in DOMAIN <<>> |-> Bytes(<<>>[i])]
<1>1. s = <<>>
  OBVIOUS
<1>2. FlattenSeq(<<>>) = <<>>
  BY DEF FlattenSeq
<1> QED BY <1>1, <1>2 DEF LinesOf

LEMMA LineSeq ==
    ASSUME NEW q \in Seq(Events)
    PROVE  LET s == [i \in DOMAIN q |-> Bytes(q[i])]
           IN  Len(s) = Len(q) /\ \A i \in 1..Len(q) : s[i] = Bytes(q[i])
<1> DEFINE s == [i \in DOMAIN q |-> Bytes(q[i])]
<1>1. DOMAIN q = 1..Len(q) /\ Len(q) \in Nat
  OBVIOUS
<1>2. Len(s) = Len(q)
  BY <1>1
<1>3. \A i \in 1..Len(q) : s[i] = Bytes(q[i])
  BY <1>1
<1> QED BY <1>2, <1>3

LEMMA OneLine ==
    ASSUME NEW e \in Events
    PROVE  LinesOf(<<e>>) = Bytes(e)
<1> DEFINE q == <<e>>
           s == [i \in DOMAIN q |-> Bytes(q[i])]
<1>1. q \in Seq(Events) /\ Len(q) = 1 /\ q[1] = e
  OBVIOUS
<1>2. Len(s) = 1 /\ s[1] = Bytes(e)
  <2> HIDE DEF q
  <2>1. Len(s) = Len(q) /\ \A i \in 1..Len(q) : s[i] = Bytes(q[i])
    BY <1>1, LineSeq
  <2> QED BY <1>1, <2>1
<1> HIDE DEF s
<1>3. PICK f : Joins(f, s, 1) /\ FlattenSeq(s) = f[1]
  <2>1. Len(s) \in Nat /\ Len(s) # 0
    BY <1>2
  <2>2. PICK f : Joins(f, s, Len(s)) /\ FlattenSeq(s) = f[Len(s)]
    BY <2>1, FlattenIs
  <2> QED BY <1>2, <2>2
<1>4. f[1] = JoinStep(s, f, 1)
  BY <1>3, JoinAt
<1> QED BY <1>2, <1>3, <1>4 DEF JoinStep, LinesOf, s

LEMMA LinesOfAppend ==
    ASSUME NEW q \in Seq(Events), NEW e \in Events
    PROVE  LinesOf(Append(q, e)) = LinesOf(q) \o Bytes(e)
<1> DEFINE t == Append(q, e)
           n == Len(q)
           a == [i \in DOMAIN q |-> Bytes(q[i])]
           b == [i \in DOMAIN t |-> Bytes(t[i])]
<1>1. CASE q = <<>>
  <2>1. t = <<e>>
    BY <1>1
  <2>2. LinesOf(t) = Bytes(e)
    BY <2>1, OneLine
  <2>3. <<>> \o Bytes(e) = Bytes(e)
    BY BytesType, ConcatEmptySeq
  <2>4. LinesOf(q) = <<>>
    BY <1>1, NoLines
  <2> QED BY <2>2, <2>3, <2>4
<1>2. CASE q # <<>>
  <2>1. n \in Nat /\ n # 0 /\ t \in Seq(Events) /\ Len(t) = n + 1 /\ t[n + 1] = e /\ \A i \in 1..n : t[i] = q[i]
    BY <1>2
  <2>2. Len(a) = n /\ \A i \in 1..n : a[i] = Bytes(q[i])
    BY LineSeq
  <2>3. Len(b) = n + 1 /\ \A i \in 1..(n + 1) : b[i] = Bytes(t[i])
    <3> HIDE DEF t
    <3> QED BY <2>1, LineSeq
  <2>4. LinesOf(q) = FlattenSeq(a) /\ LinesOf(t) = FlattenSeq(b)
    BY Zenon DEF LinesOf
  <2> HIDE DEF t, n, a, b
  <2>5. PICK f : Joins(f, a, n) /\ FlattenSeq(a) = f[n]
    BY <2>1, <2>2, FlattenIs
  <2>6. PICK g : Joins(g, b, n + 1) /\ FlattenSeq(b) = g[n + 1]
    BY <2>1, <2>3, FlattenIs
  <2>7. \A i \in 1..n : a[i] = b[i]
    BY <2>1, <2>2, <2>3
  <2>8. f[n] = g[n]
    BY <2>1, <2>5, <2>6, <2>7, JoinsAgree
  <2>9. g[n + 1] = JoinStep(b, g, n + 1)
    <3>1. n + 1 \in 1..(n + 1)
      BY <2>1
    <3> QED BY <2>6, <3>1, JoinAt
  <2>10. n + 1 # 1 /\ (n + 1) - 1 = n /\ b[n + 1] = Bytes(e)
    BY <2>1, <2>3
  <2>11. g[n + 1] = g[n] \o Bytes(e)
    BY <2>9, <2>10 DEF JoinStep
  <2>12. LinesOf(t) = LinesOf(q) \o Bytes(e)
    BY <2>4, <2>5, <2>6, <2>8, <2>11
  <2> QED BY <2>12 DEF t
<1> QED BY <1>1, <1>2

LEMMA LinesOfType ==
    ASSUME NEW q \in Seq(Events)
    PROVE  LinesOf(q) \in Seq(FileBytes)
<1> DEFINE Good(t) == LinesOf(t) \in Seq(FileBytes)
           B == {n \in Nat : \E t \in Seq(Events) : Len(t) = n /\ ~Good(t)}
<1> SUFFICES ASSUME B # {} PROVE FALSE
  OBVIOUS
<1>1. PICK n \in B : \A k \in B : n <= k
  <2>1. B \in SUBSET Nat
    OBVIOUS
  <2> HIDE DEF B
  <2> QED BY <2>1, LeastNumber
<1>2. PICK t \in Seq(Events) : Len(t) = n /\ ~Good(t)
  OBVIOUS
<1>3. t # <<>>
  BY <1>2, NoLines
<1>4. PICK u \in Seq(Events), e \in Events : t = Append(u, e) /\ Len(u) = n - 1
  <2>1. PICK u \in Seq(Events), e \in Events : t = Append(u, e) /\ Len(u) = Len(t) - 1
    BY <1>3, LastByte
  <2> QED BY <1>2, <2>1
<1>5. Good(u)
  <2>1. n - 1 \in Nat /\ n - 1 \notin B
    <3>1. n \in Nat /\ Len(u) \in Nat
      OBVIOUS
    <3> HIDE DEF B
    <3> QED BY <1>1, <1>4, <3>1
  <2> HIDE DEF Good
  <2> QED BY <1>4, <2>1
<1> HIDE DEF B
<1>6. LinesOf(t) = LinesOf(u) \o Bytes(e)
  BY <1>4, LinesOfAppend
<1>7. LinesOf(u) \o Bytes(e) \in Seq(FileBytes)
  BY <1>5, BytesType, ConcatProperties
<1> QED BY <1>2, <1>6, <1>7

LEMMA LinesOfFront ==
    ASSUME NEW e \in Events, NEW q \in Seq(Events)
    PROVE  LinesOf(<<e>> \o q) = Bytes(e) \o LinesOf(q)
<1> DEFINE Good(t) == LinesOf(<<e>> \o t) = Bytes(e) \o LinesOf(t)
           B == {n \in Nat : \E t \in Seq(Events) : Len(t) = n /\ ~Good(t)}
<1> SUFFICES ASSUME B # {} PROVE FALSE
  OBVIOUS
<1>1. PICK n \in B : \A k \in B : n <= k
  <2>1. B \in SUBSET Nat
    OBVIOUS
  <2> HIDE DEF B
  <2> QED BY <2>1, LeastNumber
<1>2. PICK t \in Seq(Events) : Len(t) = n /\ ~Good(t)
  OBVIOUS
<1>3. t # <<>>
  <2>1. <<e>> \in Seq(Events)
    OBVIOUS
  <2>2. <<e>> \o <<>> = <<e>> /\ Bytes(e) \o <<>> = Bytes(e)
    BY <2>1, BytesType, ConcatEmptySeq
  <2>3. Good(<<>>)
    BY <2>2, NoLines, OneLine
  <2> HIDE DEF Good
  <2> QED BY <1>2, <2>3
<1>4. PICK u \in Seq(Events), x \in Events : t = Append(u, x) /\ Len(u) = n - 1
  <2>1. PICK u \in Seq(Events), x \in Events : t = Append(u, x) /\ Len(u) = Len(t) - 1
    BY <1>3, LastByte
  <2> QED BY <1>2, <2>1
<1>5. Good(u)
  <2>1. n - 1 \in Nat /\ n - 1 \notin B
    <3>1. n \in Nat /\ Len(u) \in Nat
      OBVIOUS
    <3> HIDE DEF B
    <3> QED BY <1>1, <1>4, <3>1
  <2> HIDE DEF Good
  <2> QED BY <1>4, <2>1
<1> HIDE DEF B
<1>6. <<e>> \o t = Append(<<e>> \o u, x) /\ <<e>> \o u \in Seq(Events)
  <2>1. <<e>> \in Seq(Events)
    OBVIOUS
  <2> QED BY <1>4, <2>1, ConcatOfAppend
<1>7. LinesOf(<<e>> \o t) = LinesOf(<<e>> \o u) \o Bytes(x)
  BY <1>6, LinesOfAppend
<1>8. LinesOf(t) = LinesOf(u) \o Bytes(x)
  BY <1>4, LinesOfAppend
<1>9. (Bytes(e) \o LinesOf(u)) \o Bytes(x) = Bytes(e) \o (LinesOf(u) \o Bytes(x))
  <2>1. Bytes(e) \in Seq(FileBytes) /\ LinesOf(u) \in Seq(FileBytes) /\ Bytes(x) \in Seq(FileBytes)
    <3>1. Bytes(e) \in Seq(FileBytes)
      BY BytesType
    <3>2. Bytes(x) \in Seq(FileBytes)
      BY BytesType
    <3>3. LinesOf(u) \in Seq(FileBytes)
      BY LinesOfType
    <3> QED BY <3>1, <3>2, <3>3, Zenon
  <2>2. ASSUME NEW a \in Seq(FileBytes), NEW b \in Seq(FileBytes), NEW c \in Seq(FileBytes)
        PROVE  (a \o b) \o c = a \o (b \o c)
    BY ConcatAssociative
  <2> QED BY <2>1, <2>2, Zenon
<1> QED BY <1>2, <1>5, <1>7, <1>8, <1>9

(* A line is read as its event. *)
LEMMA EventsInBytes ==
    ASSUME NEW e \in Events
    PROVE  EventsIn(Bytes(e)) = <<e>>
<1> DEFINE n == Size[e] - 1
           u == SubSeq(Bytes(e), 1, n)
           b == <<e, Size[e]>>
<1>1. Size[e] \in Nat /\ n \in 0..Size[e] /\ n + 1 = Size[e] /\ Size[e] \in 1..Size[e]
  BY SizeFacts
<1>2. u \in Seq(FileBytes) /\ Len(u) = n /\ \A i \in 1..n : u[i] = <<e, i>>
  BY <1>1, SomeBytes
<1>3. b \in FileBytes /\ IsNewline(b) /\ b[1] = e
  <2>1. b \in FileBytes /\ b[1] = e
    BY <1>1 DEF FileBytes
  <2>2. IsNewline(b)
    BY <1>1, NewlineIs
  <2> QED BY <2>1, <2>2
<1>4. Bytes(e) \in Seq(FileBytes) /\ Len(Bytes(e)) = Size[e] /\ \A k \in 1..Size[e] : Bytes(e)[k] = <<e, k>>
  BY BytesType
<1> HIDE DEF u, n
<1>5. Bytes(e) = Append(u, b)
  <2>1. /\ Append(u, b) \in Seq(FileBytes) /\ Len(Append(u, b)) = n + 1
        /\ \A i \in 1..n : Append(u, b)[i] = u[i]
        /\ Append(u, b)[n + 1] = b
    <3> HIDE DEF b
    <3> QED BY <1>2, <1>3
  <2>2. \A i \in 1..Size[e] : i \in 1..n \/ i = n + 1
    BY <1>1
  <2>3. \A i \in 1..Size[e] : Append(u, b)[i] = Bytes(e)[i]
    BY <1>1, <1>2, <1>4, <2>1, <2>2
  <2> QED BY <1>1, <1>4, <2>1, <2>3, SeqEqual
<1>6. EventsIn(u) = <<>>
  <2>1. Newlines(u) = {}
    <3> SUFFICES ASSUME NEW i \in 1..n PROVE ~IsNewline(u[i])
      BY <1>2 DEF Newlines
    <3>1. i \in 1..Size[e] /\ i # Size[e]
      BY <1>1
    <3>2. ~IsNewline(<<e, i>>)
      BY <3>1, NewlineIs
    <3>3. u[i] = <<e, i>>
      BY <1>2
    <3> QED BY <3>2, <3>3, Zenon
  <2>2. EventsIn(u) \in Seq(Events) /\ Len(EventsIn(u)) = 0
    <3>1. Cardinality(Newlines(u)) = 0
      BY <2>1, FS_EmptySet
    <3> QED BY <1>2, <3>1, EventsInType
  <2> QED BY <2>2
<1>7. EventsIn(Append(u, b)) = Append(EventsIn(u), b[1])
  BY <1>2, <1>3, EventsInAppend
<1>8. Append(<<>>, e) = <<e>>
  OBVIOUS
<1> QED BY <1>3, <1>5, <1>6, <1>7, <1>8

(* A file of whole events begins with one and goes on with whole events. *)
LEMMA FirstLine ==
    ASSUME NEW d \in Seq(FileBytes), Runs(d), Starts(d), d # <<>>
    PROVE  \E e \in Events : \E r \in Seq(FileBytes) :
               d = Bytes(e) \o r /\ Runs(r) /\ Starts(r) /\ Len(r) < Len(d)
<1>1. Len(d) \in Nat /\ 1 \in 1..Len(d)
  OBVIOUS
<1>2. PICK e \in Events : d[1] = <<e, 1>>
  BY <1>1 DEF Starts
<1> DEFINE s == Size[e]
           r == SubSeq(d, s + 1, Len(d))
           w == Bytes(e) \o r
<1>3. s \in Nat /\ s >= 2 /\ s \in 1..s
  BY SizeFacts
<1>4. \A k \in 1..s : k <= Len(d) /\ d[k] = <<e, k>>
  <2>1. \A k \in 1..s : 1 + k - 1 <= Len(d) /\ d[1 + k - 1] = <<e, k>>
    BY <1>1, <1>2, RunOn
  <2>2. \A k \in 1..s : 1 + k - 1 = k
    OBVIOUS
  <2> QED BY <2>1, <2>2
<1>5. s \in 0..Len(d) /\ IsNewline(d[s])
  <2>1. s <= Len(d) /\ d[s] = <<e, s>>
    BY <1>3, <1>4
  <2>2. IsNewline(<<e, s>>)
    BY <1>3, NewlineIs
  <2> QED BY <1>1, <1>3, <2>1, <2>2
<1>6. Runs(r) /\ Starts(r)
  BY <1>5, RunsRest
<1>7. r \in Seq(FileBytes) /\ Len(r) = Len(d) - s /\ \A i \in 1..(Len(d) - s) : r[i] = d[s + i]
  BY <1>5, RestFacts
<1>8. Bytes(e) \in Seq(FileBytes) /\ Len(Bytes(e)) = s /\ \A k \in 1..s : Bytes(e)[k] = <<e, k>>
  BY BytesType
<1> HIDE DEF r
<1>9. /\ w \in Seq(FileBytes) /\ Len(w) = s + (Len(d) - s)
      /\ \A i \in 1..(s + (Len(d) - s)) : w[i] = IF i <= s THEN Bytes(e)[i] ELSE r[i - s]
  <2>1. /\ w \in Seq(FileBytes) /\ Len(w) = Len(Bytes(e)) + Len(r)
        /\ \A i \in 1..(Len(Bytes(e)) + Len(r)) :
               w[i] = IF i <= Len(Bytes(e)) THEN Bytes(e)[i] ELSE r[i - Len(Bytes(e))]
    BY <1>7, <1>8, ConcatProperties
  <2> HIDE DEF w, s
  <2> QED BY <1>7, <1>8, <2>1
<1> HIDE DEF w, s
<1>10. s + (Len(d) - s) = Len(d) /\ Len(d) - s < Len(d)
  BY <1>1, <1>3
<1>11. \A i \in 1..Len(d) : w[i] = d[i]
  <2> TAKE i \in 1..Len(d)
  <2>1. CASE i <= s
    <3>1. i \in 1..s
      BY <1>3, <2>1
    <3> QED BY <1>4, <1>8, <1>9, <1>10, <2>1, <3>1
  <2>2. CASE ~(i <= s)
    <3>1. i - s \in 1..(Len(d) - s) /\ s + (i - s) = i
      BY <1>1, <1>3, <2>2
    <3>2. r[i - s] = d[i]
      BY <1>7, <3>1
    <3> QED BY <1>9, <1>10, <2>2, <3>2
  <2> QED BY <2>1, <2>2
<1>12. d = w
  BY <1>9, <1>10, <1>11, SeqEqual
<1> QED BY <1>6, <1>7, <1>10, <1>12 DEF w

LEMMA WholeLines ==
    ASSUME NEW d \in Seq(FileBytes), Runs(d), Starts(d)
    PROVE  d = LinesOf(EventsIn(d))
<1> DEFINE Good(t) == t = LinesOf(EventsIn(t))
           B == {n \in Nat : \E t \in Seq(FileBytes) : Len(t) = n /\ Runs(t) /\ Starts(t) /\ ~Good(t)}
<1> SUFFICES ASSUME B # {} PROVE FALSE
  <2> HIDE DEF Good
  <2>1. Len(d) \in Nat
    OBVIOUS
  <2>2. Good(d)
    BY <2>1
  <2> QED BY <2>2 DEF Good
<1>1. PICK n \in B : \A k \in B : n <= k
  <2>1. B \in SUBSET Nat
    OBVIOUS
  <2> HIDE DEF B
  <2> QED BY <2>1, LeastNumber
<1>2. PICK t \in Seq(FileBytes) : Len(t) = n /\ Runs(t) /\ Starts(t) /\ ~Good(t)
  OBVIOUS
<1>3. t # <<>>
  <2>1. Good(<<>>)
    BY NoEvents, NoLines
  <2> HIDE DEF Good
  <2> QED BY <1>2, <2>1
<1>4. PICK e \in Events : \E r \in Seq(FileBytes) :
           t = Bytes(e) \o r /\ Runs(r) /\ Starts(r) /\ Len(r) < Len(t)
  BY <1>2, <1>3, FirstLine
<1>5. PICK r \in Seq(FileBytes) : t = Bytes(e) \o r /\ Runs(r) /\ Starts(r) /\ Len(r) < Len(t)
  BY <1>4
<1>6. Good(r)
  <2>1. Len(r) \in Nat /\ Len(r) \notin B
    <3>1. n \in Nat /\ Len(r) \in Nat
      OBVIOUS
    <3> HIDE DEF B
    <3> QED BY <1>1, <1>2, <1>5, <3>1
  <2> HIDE DEF Good
  <2> QED BY <1>5, <2>1
<1> HIDE DEF B
<1>7. EventsIn(t) = <<e>> \o EventsIn(r)
  <2>1. Bytes(e) \in Seq(FileBytes)
    BY BytesType
  <2>2. EventsIn(Bytes(e) \o r) = EventsIn(Bytes(e)) \o EventsIn(r)
    BY <2>1, EventsInConcat
  <2> QED BY <1>5, <2>2, EventsInBytes
<1>8. LinesOf(<<e>> \o EventsIn(r)) = Bytes(e) \o LinesOf(EventsIn(r))
  BY EventsInType, LinesOfFront
<1> QED BY <1>2, <1>5, <1>6, <1>7, <1>8

LEMMA ListIsPrefix ==
    ASSUME FileInv, list # NoList
    PROVE  IsPrefix(list, disk) /\ (list # <<>> => IsNewline(Last(list)))
<1>1. list \in Seq(FileBytes) /\ Len(list) \in 0..Len(disk) /\ list = SubSeq(disk, 1, Len(list))
  BY RestOfFile
<1>2. list # <<>> => IsNewline(list[Len(list)])
  BY DEF FileInv, ListInv
<1>3. SubSeq(list, 1, Len(list)) = list
  <2> DEFINE p == SubSeq(list, 1, Len(list))
  <2>1. p \in Seq(FileBytes) /\ Len(p) = Len(list) /\ \A i \in 1..Len(list) : p[i] = list[i]
    BY <1>1
  <2> HIDE DEF p
  <2>2. p = list
    BY <1>1, <2>1, SeqEqual
  <2> QED BY <2>2 DEF p
<1>4. Len(list) <= Len(disk)
  BY <1>1, Types
<1>5. SubSeq(list, 1, Len(list)) = SubSeq(disk, 1, Len(list))
  BY <1>1, <1>3
<1> QED BY <1>2, <1>4, <1>5 DEF IsPrefix, Last

(* Until the first crash or failed write the file is the lines of its events and
   nothing else, and whatever fails, a list is a prefix of the file that ends
   with a line. *)
THEOREM LinesWhole == Spec => []LinesAreWhole
<1>1. ASSUME FileInv PROVE LinesAreWhole
  <2>1. ASSUME faults = <<>> PROVE disk = LinesOf(EventsIn(disk))
    <3>1. disk \in Seq(FileBytes) /\ Runs(disk) /\ Starts(disk)
      BY <1>1, <2>1, Types, NoFaultIsSound DEF FileInv, LineInv
    <3> QED BY <3>1, WholeLines
  <2>2. ASSUME list # NoList PROVE IsPrefix(list, disk) /\ (list # <<>> => IsNewline(Last(list)))
    BY <1>1, <2>2, ListIsPrefix
  <2> QED BY <2>1, <2>2, Zenon DEF LinesAreWhole, LinesOf
<1>2. FileInv => LinesAreWhole
  BY <1>1
<1> QED BY <1>2, FileAlways, PTL

-----------------------------------------------------------------------------
(* The refinement of EventBatch. *)
Handed == IF list = NoList THEN 0 ELSE Cardinality(Newlines(list))

(* The events behind those of the list. *)
LEMMA QueueOfRest ==
    ASSUME FileInv, list # NoList
    PROVE  /\ EventsIn(Rest) = SubSeq(EventsIn(disk), Handed + 1, Len(EventsIn(disk)))
           /\ Handed \in 0..Len(EventsIn(disk))
<1>1. /\ list \in Seq(FileBytes) /\ Len(list) \in 0..Len(disk) /\ Len(disk) \in Nat
      /\ list = SubSeq(disk, 1, Len(list))
      /\ Rest = SubSeq(disk, Len(list) + 1, Len(disk)) /\ Rest \in Seq(FileBytes)
  BY RestOfFile
<1>2. disk \in Seq(FileBytes)
  BY Types
<1>3. disk = list \o Rest
  <2>1. SubSeq(disk, 1, Len(list)) \o SubSeq(disk, Len(list) + 1, Len(disk)) = SubSeq(disk, 1, Len(disk))
    <3>1. 1 \in 1..Len(disk) + 1 /\ Len(list) \in 1 - 1..Len(disk) /\ Len(disk) \in Len(list)..Len(disk)
      BY <1>1
    <3> QED BY <1>2, <3>1, ConcatAdjacentSubSeq
  <2>2. SubSeq(disk, 1, Len(disk)) = disk
    <3> DEFINE p == SubSeq(disk, 1, Len(disk))
    <3>1. p \in Seq(FileBytes) /\ Len(p) = Len(disk) /\ \A i \in 1..Len(disk) : p[i] = disk[i]
      BY <1>2
    <3> HIDE DEF p
    <3>2. p = disk
      BY <1>2, <3>1, SeqEqual
    <3> QED BY <3>2 DEF p
  <2> QED BY <1>1, <2>1, <2>2
<1> DEFINE a == EventsIn(list)
           b == EventsIn(Rest)
           q == EventsIn(disk)
<1>4. q = a \o b
  BY <1>1, <1>3, EventsInConcat
<1>5. a \in Seq(Events) /\ b \in Seq(Events) /\ Len(a) = Handed
  <2>1. a \in Seq(Events) /\ Len(a) = Cardinality(Newlines(list)) /\ b \in Seq(Events)
    BY <1>1, EventsInType
  <2> QED BY <2>1 DEF Handed
<1> HIDE DEF a, b, q
<1>6. q \in Seq(Events) /\ Len(q) = Handed + Len(b) /\ Handed \in Nat /\ Len(b) \in Nat
  <2>1. q \in Seq(Events) /\ Len(q) = Len(a) + Len(b) /\ Len(a) \in Nat /\ Len(b) \in Nat
    <3>1. a \o b \in Seq(Events) /\ Len(a \o b) = Len(a) + Len(b)
      BY <1>5, ConcatProperties
    <3>2. Len(a) \in Nat /\ Len(b) \in Nat
      BY <1>5
    <3> QED BY <1>4, <3>1, <3>2, Zenon
  <2> QED BY <1>5, <2>1
<1>7. \A i \in 1..Len(b) : q[Handed + i] = b[i]
  <2> TAKE i \in 1..Len(b)
  <2>1. \A j \in 1..(Len(a) + Len(b)) : q[j] = IF j <= Len(a) THEN a[j] ELSE b[j - Len(a)]
    BY <1>4, <1>5, ConcatProperties
  <2>2. Handed + i \in 1..(Len(a) + Len(b)) /\ ~(Handed + i <= Len(a)) /\ (Handed + i) - Len(a) = i
    BY <1>5, <1>6
  <2> QED BY <2>1, <2>2
<1> DEFINE s == SubSeq(q, Handed + 1, Len(q))
<1>8. s \in Seq(Events) /\ Len(s) = Len(b) /\ \A i \in 1..Len(b) : s[i] = q[Handed + i]
  <2>1. Handed + 1 \in 1..Len(q) + 1
    BY <1>6
  <2>2. Len(s) = Len(b)
    BY <1>6
  <2>3. s \in Seq(Events)
    BY <1>6
  <2>4. ASSUME NEW i \in 1..Len(b) PROVE s[i] = q[Handed + i]
    <3>1. (Handed + 1) + i - 1 = Handed + i /\ i \in 1..(Len(q) - (Handed + 1) + 1)
      BY <1>6
    <3> QED BY <1>6, <3>1
  <2> QED BY <2>2, <2>3, <2>4
<1> HIDE DEF s
<1>9. s = b
  BY <1>5, <1>7, <1>8, SeqEqual
<1>10. Handed \in 0..Len(q)
  BY <1>6
<1> QED BY <1>9, <1>10 DEF s, q, b

LEMMA QueueAfterAdd ==
    ASSUME FileInv, ~WriteFailed, NEW e \in Events, AddEvent(e)
    PROVE  EventsIn(disk') = Append(EventsIn(disk), e)
<1> DEFINE w == WriteAt(disk, Len(disk), Bytes(e))
           c == disk \o Bytes(e)
           n == Len(disk)
           s == Size[e]
<1>1. disk \in Seq(FileBytes) /\ n \in Nat
  BY Types
<1>2. disk' = w
  <2>1. fd /\ disk' = WriteAt(disk, WriteOffset, Bytes(e))
    BY DEF AddEvent
  <2>2. WriteOffset = Len(disk)
    BY <2>1, OffsetFacts
  <2> QED BY <2>1, <2>2
<1>3. Bytes(e) \in Seq(FileBytes) /\ Len(Bytes(e)) = s /\ s \in Nat
  BY BytesType, SizeFacts
<1>4. /\ w \in Seq(FileBytes) /\ Len(w) = n + s
      /\ \A i \in 1..n : w[i] = disk[i]
      /\ \A i \in 1..s : w[n + i] = Bytes(e)[i]
  <2>1. /\ w \in Seq(FileBytes) /\ Len(w) = Len(disk) + Len(Bytes(e))
        /\ \A i \in 1..Len(disk) : w[i] = disk[i]
        /\ \A i \in 1..Len(Bytes(e)) : w[Len(disk) + i] = Bytes(e)[i]
    BY <1>1, <1>3, WriteAtEnd
  <2> HIDE DEF w
  <2> QED BY <1>3, <2>1
<1>5. /\ c \in Seq(FileBytes) /\ Len(c) = n + s
      /\ \A i \in 1..(n + s) : c[i] = IF i <= n THEN disk[i] ELSE Bytes(e)[i - n]
  <2>1. /\ c \in Seq(FileBytes) /\ Len(c) = Len(disk) + Len(Bytes(e))
        /\ \A i \in 1..(Len(disk) + Len(Bytes(e))) :
               c[i] = IF i <= Len(disk) THEN disk[i] ELSE Bytes(e)[i - Len(disk)]
    BY <1>1, <1>3, ConcatProperties
  <2> HIDE DEF c
  <2> QED BY <1>3, <2>1
<1> HIDE DEF w, c, n, s
<1>6. \A i \in 1..(n + s) : w[i] = c[i]
  <2> TAKE i \in 1..(n + s)
  <2>1. CASE i <= n
    <3>1. i \in 1..n
      BY <1>1, <2>1
    <3> QED BY <1>4, <1>5, <2>1, <3>1
  <2>2. CASE ~(i <= n)
    <3>1. i - n \in 1..s /\ n + (i - n) = i
      BY <1>1, <1>3, <2>2
    <3>2. w[n + (i - n)] = Bytes(e)[i - n]
      BY <1>4, <3>1
    <3> QED BY <1>5, <2>2, <3>1, <3>2
  <2> QED BY <2>1, <2>2
<1>7. w = c
  BY <1>4, <1>5, <1>6, SeqEqual
<1>8. EventsIn(c) = EventsIn(disk) \o EventsIn(Bytes(e))
  BY <1>1, <1>3, EventsInConcat DEF c
<1>9. EventsIn(disk) \in Seq(Events)
  BY <1>1, EventsInType
<1>10. \A q \in Seq(Events) : q \o <<e>> = Append(q, e)
  BY AppendIsConcat
<1> QED BY <1>2, <1>7, <1>8, <1>9, <1>10, EventsInBytes

(* A list is handed out of a file that stays as it is. *)
LEMMA HandedType ==
    ASSUME FileInv
    PROVE  Handed \in 0..Len(EventsIn(disk))
<1>1. CASE list = NoList
  <2>1. Len(EventsIn(disk)) \in Nat
    BY Types, EventsInType
  <2> QED BY <1>1, <2>1 DEF Handed
<1>2. CASE list # NoList
  BY <1>2, QueueOfRest
<1> QED BY <1>1, <1>2

LEMMA HandedTypeNext == FileInv' => Handed' \in 0..Len(EventsIn(disk'))
<1>1. FileInv => Handed \in 0..Len(EventsIn(disk))
  BY HandedType
<1>2. FileInv' => (Handed \in 0..Len(EventsIn(disk)))'
  BY <1>1, PTL
<1> QED BY <1>2

LEMMA DropsList ==
    ASSUME disk' = disk, list' = NoList
    PROVE  Batch!Next
<1>1. EventsIn(disk') = EventsIn(disk) /\ Handed' = 0
  BY DEF Handed
<1>2. Batch!DropList
  BY <1>1 DEF Batch!DropList, Handed
<1> QED BY <1>2 DEF Batch!Next

LEMMA UploadsList ==
    ASSUME FileInv, list # NoList, disk' = Rest, list' = NoList
    PROVE  Batch!Next
<1>1. EventsIn(disk') = SubSeq(EventsIn(disk), Handed + 1, Len(EventsIn(disk))) /\ Handed' = 0
  <2>1. EventsIn(disk') = EventsIn(Rest)
    OBVIOUS
  <2>2. Handed' = 0
    BY DEF Handed
  <2> QED BY <2>1, <2>2, QueueOfRest
<1>2. Batch!OnEventsUploaded
  BY <1>1 DEF Batch!OnEventsUploaded, Handed
<1> QED BY <1>2 DEF Batch!Next

LEMMA FileRefines ==
    ASSUME FileInv, Next, faults' = <<>>
    PROVE  Batch!Next \/ UNCHANGED <<EventsIn(disk), list>>
<1>1. faults \in Seq(Kinds) /\ disk \in Seq(FileBytes)
  BY Types
<1>2. \A kind \in Kinds : ~Fault(kind)
  BY <1>1, FaultFacts
<1>3. ~Fault("crash") /\ ~Fault("copy") /\ ~Fault("write")
  BY <1>2 DEF Kinds
<1>4. ASSUME faults' = faults PROVE Sound /\ ~WriteFailed /\ Runs(disk)
  <2>1. Sound
    BY <1>4, NoFaultIsSound
  <2> QED BY <2>1, Types DEF Sound
<1>5. CASE Reopen
  <2>1. Open(disk) /\ faults' = faults
    BY <1>5 DEF Reopen
  <2>2. disk' = disk /\ list' = NoList
    BY <1>1, <1>4, <2>1, OpenSound, OpenFacts
  <2> QED BY <2>2, DropsList
<1>6. CASE OpenFails \/ DropList
  BY <1>6, DropsList DEF OpenFails, DropList
<1>7. CASE SetLimit \/ SetFinalized
  BY <1>7 DEF SetLimit, SetFinalized
<1>8. ASSUME NEW e \in Events, AddEvent(e) PROVE Batch!Next
  <2>1. faults' = faults /\ list' = list
    BY <1>8 DEF AddEvent
  <2>2. EventsIn(disk') = Append(EventsIn(disk), e)
    BY <1>4, <1>8, <2>1, QueueAfterAdd
  <2>3. Batch!AddEvent(e)
    BY <2>1, <2>2 DEF Batch!AddEvent
  <2> QED BY <2>3 DEF Batch!Next
<1>9. ASSUME NEW e \in Events, NEW k, AddEventFails(e, k) \/ CrashInAddEvent(e, k) PROVE FALSE
  BY <1>3, <1>9 DEF AddEventFails, CrashInAddEvent
<1>10. ASSUME NEW a \in UploadArgs, GetEventsForUpload(a[1], a[2]) PROVE Batch!Next
  <2>1. a[1] \in Nat /\ a[2] \in Nat
    BY SizeAssumption
  <2>2. FileInv' /\ disk' = disk
    BY <1>10, <2>1, GetStep DEF GetEventsForUpload
  <2>3. Handed' \in 0..Len(EventsIn(disk)) /\ EventsIn(disk') = EventsIn(disk)
    BY <2>2, HandedTypeNext
  <2>4. Batch!GetEventsForUpload(Handed')
    BY <2>3 DEF Batch!GetEventsForUpload, Handed
  <2>5. \E n \in 0..Len(EventsIn(disk)) : Batch!GetEventsForUpload(n)
    BY <2>3, <2>4
  <2> QED BY <2>5 DEF Batch!Next
<1>11. CASE UploadedAll
  <2>1. list # NoList /\ fd /\ fileSize = Len(list) /\ disk' = <<>> /\ list' = NoList /\ faults' = faults
    BY <1>11 DEF UploadedAll, Acknowledge
  <2>2. fileSize = Len(disk)
    BY <1>4, <2>1 DEF FileInv, ExactInv
  <2>3. Rest \in Seq(FileBytes) /\ Len(Rest) = Len(disk) - Len(list) /\ Len(disk) \in Nat
    BY <2>1, RestOfFile
  <2>4. Rest = <<>>
    BY <2>1, <2>2, <2>3
  <2> QED BY <2>1, <2>4, UploadsList
<1>12. ASSUME NEW n \in 0..Len(disk), UploadedPart(n) PROVE Batch!Next
  <2>1. list # NoList /\ list' = NoList /\ disk' = SubSeq(Rest, 1, n) /\ n = Len(Rest)
    BY <1>3, <1>12 DEF UploadedPart, Acknowledge
  <2>2. Rest \in Seq(FileBytes)
    BY <2>1, RestOfFile
  <2>3. SubSeq(Rest, 1, Len(Rest)) = Rest
    <3> DEFINE p == SubSeq(Rest, 1, Len(Rest))
    <3>1. p \in Seq(FileBytes) /\ Len(p) = Len(Rest) /\ \A i \in 1..Len(Rest) : p[i] = Rest[i]
      BY <2>2
    <3> HIDE DEF p
    <3>2. p = Rest
      BY <2>2, <3>1, SeqEqual
    <3> QED BY <3>2 DEF p
  <2> QED BY <2>1, <2>3, UploadsList
<1>13. ASSUME NEW n, CrashInUploaded(n) PROVE FALSE
  BY <1>3, <1>13 DEF CrashInUploaded
<1> QED BY <1>5, <1>6, <1>7, <1>8, <1>9, <1>10, <1>11, <1>12, <1>13 DEF Next

(* Until the first crash or failed write the bytes are the FIFO batch of
   EventBatch: every step of addEvent, getEventsForUpload and onEventsUploaded,
   and the reopening of the file, is a step of EventBatch or leaves the lines
   and the list as they are. *)
THEOREM RefinesEventBatch == Spec => ImplementsEventBatch
<1>1. ASSUME Init PROVE Batch!Init
  <2>1. disk = <<>> /\ list = NoList
    BY <1>1 DEF Init
  <2> QED BY <2>1, NoEvents DEF Batch!Init
<1>2. Init => Batch!Init
  BY <1>1
<1>3. FileInv /\ [Next]_vars
      => [faults' = <<>> => Batch!Next \/ UNCHANGED <<EventsIn(disk), list>>]_vars
  BY FileRefines
<1> QED BY <1>2, <1>3, FileAlways, PTL DEF Spec, ImplementsEventBatch

-----------------------------------------------------------------------------
(***************************************************************************)
(* TaskWithDelayThread: the type invariant, the safety invariants and the  *)
(* safety part of the refinement of CoalescingTask, which is what          *)
(* EventManager takes its workers to be.                                   *)
(***************************************************************************)
(* Who holds what: a worker that exists is the one `thread' holds, and the
   mutex is kept across steps exactly by a caller that replaces the worker. *)
HandleInv ==
    /\ \A w \in Workers : pc[w] # "none" => thread = w
    /\ thread # NoThread => pc[thread] # "none"
    /\ \A c \in Callers : pc[c] \in {"join", "spawn"} <=> mutex = c
    /\ \A c \in Callers : pc[c] = "join" => thread # NoThread
    /\ \A c \in Callers : pc[c] = "spawn" => thread = NoThread

(* `running' is true from the moment a caller decides to start a worker until
   that worker leaves its loop. *)
RunningInv ==
    /\ mutex # NoThread =>
           /\ running /\ hasPendingTask /\ ~stopping
           /\ \A w \in Workers : pc[w] \notin WorkerLive
    /\ mutex = NoThread => (running <=> thread # NoThread /\ pc[thread] \in WorkerLive)
    /\ hasPendingTask => running

(* A worker that has not taken a task has one to take. *)
PendingInv ==
    \A w \in Workers :
        pc[w] \in {"start", "wait", "timedout", "notified"} => hasPendingTask

StoppingInv ==
    /\ pc[Owner] # "idle" <=> stopping
    /\ pc[Owner] = "terminated" => thread = NoThread /\ ~running

(* The thread_local pointer is set while the function runs. *)
PointerInv ==
    \A w \in Workers :
        /\ pc[w] \in WorkerLive \ {"start"} => currentIsStopping[w]
        /\ pc[w] # "nap"

(* The inductive invariant of the task. *)
TaskInv ==
    /\ TaskTypeOK /\ HandleInv /\ RunningInv /\ PendingInv /\ StoppingInv
    /\ NoLostWakeup /\ PointerInv

USE DEF Threads, WorkerLive, CallerPc, OwnerPc

LEMMA InitTaskInv == TaskInit => TaskInv
  BY ThreadsDisjoint DEF TaskInit, TaskInv, TaskTypeOK, HandleInv,
     RunningInv, PendingInv,
     StoppingInv, NoLostWakeup, PointerInv

LEMMA RequestRunTaskInv ==
  ASSUME TaskInv, NEW c \in Callers, NEW immediate \in BOOLEAN, RequestRun(c, immediate)
  PROVE  TaskInv'
<1> USE ThreadsDisjoint DEF Goto, flags
<1>1. TaskTypeOK'
  BY DEF TaskInv, TaskTypeOK, RequestRun
<1>2. HandleInv'
  BY DEF TaskInv, TaskTypeOK, HandleInv, RunningInv, RequestRun
<1>3. RunningInv'
  BY DEF TaskInv, TaskTypeOK, HandleInv, RunningInv, PendingInv, StoppingInv,
     RequestRun
<1>4. PendingInv'
  BY DEF TaskInv, TaskTypeOK, HandleInv, RunningInv, PendingInv, RequestRun
<1>5. StoppingInv'
  BY DEF TaskInv, TaskTypeOK, HandleInv, RunningInv, StoppingInv, RequestRun
<1>6. NoLostWakeup'
  BY DEF TaskInv, TaskTypeOK, HandleInv, RunningInv, StoppingInv, NoLostWakeup,
     RequestRun
<1>7. PointerInv'
  BY DEF TaskInv, TaskTypeOK, HandleInv, RunningInv, PendingInv, PointerInv,
     RequestRun
<1>8. QED
  BY <1>1, <1>2, <1>3, <1>4, <1>5, <1>6, <1>7 DEF TaskInv

LEMMA JoinOldTaskInv ==
  ASSUME TaskInv, NEW c \in Callers, JoinOld(c)
  PROVE  TaskInv'
<1> USE ThreadsDisjoint DEF Goto, flags
<1>1. TaskTypeOK'
  BY DEF TaskInv, TaskTypeOK, JoinOld
<1>2. HandleInv'
  BY DEF TaskInv, TaskTypeOK, HandleInv, RunningInv, JoinOld
<1>3. RunningInv'
  BY DEF TaskInv, TaskTypeOK, HandleInv, RunningInv, PendingInv, StoppingInv, JoinOld
<1>4. PendingInv'
  BY DEF TaskInv, TaskTypeOK, HandleInv, RunningInv, PendingInv, JoinOld
<1>5. StoppingInv'
  BY DEF TaskInv, TaskTypeOK, HandleInv, RunningInv, StoppingInv, JoinOld
<1>6. NoLostWakeup'
  BY DEF TaskInv, TaskTypeOK, HandleInv, RunningInv, StoppingInv, NoLostWakeup,
     JoinOld
<1>7. PointerInv'
  BY DEF TaskInv, TaskTypeOK, HandleInv, RunningInv, PendingInv, PointerInv, JoinOld
<1>8. QED
  BY <1>1, <1>2, <1>3, <1>4, <1>5, <1>6, <1>7 DEF TaskInv

LEMMA SpawnTaskInv ==
  ASSUME TaskInv, NEW c \in Callers, NEW w \in Workers, Spawn(c, w)
  PROVE  TaskInv'
<1> USE ThreadsDisjoint DEF Goto, flags
<1>1. TaskTypeOK'
  BY DEF TaskInv, TaskTypeOK, Spawn
<1>2. HandleInv'
  BY DEF TaskInv, TaskTypeOK, HandleInv, RunningInv, Spawn
<1>3. RunningInv'
  BY DEF TaskInv, TaskTypeOK, HandleInv, RunningInv, PendingInv, StoppingInv, Spawn
<1>4. PendingInv'
  BY DEF TaskInv, TaskTypeOK, HandleInv, RunningInv, PendingInv, Spawn
<1>5. StoppingInv'
  BY DEF TaskInv, TaskTypeOK, HandleInv, RunningInv, StoppingInv, Spawn
<1>6. NoLostWakeup'
  BY DEF TaskInv, TaskTypeOK, HandleInv, RunningInv, StoppingInv, NoLostWakeup,
     Spawn
<1>7. PointerInv'
  BY DEF TaskInv, TaskTypeOK, HandleInv, RunningInv, PendingInv, PointerInv, Spawn
<1>8. QED
  BY <1>1, <1>2, <1>3, <1>4, <1>5, <1>6, <1>7 DEF TaskInv

LEMMA NotifyImmediateTaskInv ==
  ASSUME TaskInv, NEW c \in Callers, NotifyImmediate(c)
  PROVE  TaskInv'
<1> USE ThreadsDisjoint DEF Goto, flags
<1>1. TaskTypeOK'
  BY DEF TaskInv, TaskTypeOK, NotifyImmediate, NotifyAll
<1>2. HandleInv'
  BY DEF TaskInv, TaskTypeOK, HandleInv, RunningInv, NotifyImmediate, NotifyAll
<1>3. RunningInv'
  BY DEF TaskInv, TaskTypeOK, HandleInv, RunningInv, PendingInv, StoppingInv,
     NotifyImmediate, NotifyAll
<1>4. PendingInv'
  BY DEF TaskInv, TaskTypeOK, HandleInv, RunningInv, PendingInv, NotifyImmediate,
     NotifyAll
<1>5. StoppingInv'
  BY DEF TaskInv, TaskTypeOK, HandleInv, RunningInv, StoppingInv, NotifyImmediate,
     NotifyAll
<1>6. NoLostWakeup'
  BY DEF TaskInv, TaskTypeOK, HandleInv, RunningInv, StoppingInv, NoLostWakeup,
     NotifyImmediate, NotifyAll
<1>7. PointerInv'
  BY DEF TaskInv, TaskTypeOK, HandleInv, RunningInv, PendingInv, PointerInv,
     NotifyImmediate, NotifyAll
<1>8. QED
  BY <1>1, <1>2, <1>3, <1>4, <1>5, <1>6, <1>7 DEF TaskInv

LEMMA TerminateTaskInv ==
  ASSUME TaskInv, Terminate
  PROVE  TaskInv'
<1> USE ThreadsDisjoint DEF Goto, flags
<1>1. TaskTypeOK'
  BY DEF TaskInv, TaskTypeOK, Terminate
<1>2. HandleInv'
  BY DEF TaskInv, TaskTypeOK, HandleInv, RunningInv, Terminate
<1>3. RunningInv'
  BY DEF TaskInv, TaskTypeOK, HandleInv, RunningInv, PendingInv, StoppingInv,
     Terminate
<1>4. PendingInv'
  BY DEF TaskInv, TaskTypeOK, HandleInv, RunningInv, PendingInv, Terminate
<1>5. StoppingInv'
  BY DEF TaskInv, TaskTypeOK, HandleInv, RunningInv, StoppingInv, Terminate
<1>6. NoLostWakeup'
  BY DEF TaskInv, TaskTypeOK, HandleInv, RunningInv, StoppingInv, NoLostWakeup,
     Terminate
<1>7. PointerInv'
  BY DEF TaskInv, TaskTypeOK, HandleInv, RunningInv, PendingInv, PointerInv,
     Terminate
<1>8. QED
  BY <1>1, <1>2, <1>3, <1>4, <1>5, <1>6, <1>7 DEF TaskInv

LEMMA NotifyStoppingTaskInv ==
  ASSUME TaskInv, NotifyStopping
  PROVE  TaskInv'
<1> USE ThreadsDisjoint DEF Goto, flags
<1>1. TaskTypeOK'
  BY DEF TaskInv, TaskTypeOK, NotifyStopping, NotifyAll
<1>2. HandleInv'
  BY DEF TaskInv, TaskTypeOK, HandleInv, RunningInv, NotifyStopping, NotifyAll
<1>3. RunningInv'
  BY DEF TaskInv, TaskTypeOK, HandleInv, RunningInv, PendingInv, StoppingInv,
     NotifyStopping, NotifyAll
<1>4. PendingInv'
  BY DEF TaskInv, TaskTypeOK, HandleInv, RunningInv, PendingInv, NotifyStopping,
     NotifyAll
<1>5. StoppingInv'
  BY DEF TaskInv, TaskTypeOK, HandleInv, RunningInv, StoppingInv, NotifyStopping,
     NotifyAll
<1>6. NoLostWakeup'
  BY DEF TaskInv, TaskTypeOK, HandleInv, RunningInv, StoppingInv, NoLostWakeup,
     NotifyStopping, NotifyAll
<1>7. PointerInv'
  BY DEF TaskInv, TaskTypeOK, HandleInv, RunningInv, PendingInv, PointerInv,
     NotifyStopping, NotifyAll
<1>8. QED
  BY <1>1, <1>2, <1>3, <1>4, <1>5, <1>6, <1>7 DEF TaskInv

LEMMA TerminateJoinTaskInv ==
  ASSUME TaskInv, TerminateJoin
  PROVE  TaskInv'
<1> USE ThreadsDisjoint DEF Goto, flags
<1>1. TaskTypeOK'
  BY DEF TaskInv, TaskTypeOK, TerminateJoin
<1>2. HandleInv'
  BY DEF TaskInv, TaskTypeOK, HandleInv, RunningInv, StoppingInv, TerminateJoin
<1>3. RunningInv'
  BY DEF TaskInv, TaskTypeOK, HandleInv, RunningInv, PendingInv, StoppingInv,
     TerminateJoin
<1>4. PendingInv'
  BY DEF TaskInv, TaskTypeOK, HandleInv, RunningInv, PendingInv, TerminateJoin
<1>5. StoppingInv'
  BY DEF TaskInv, TaskTypeOK, HandleInv, RunningInv, StoppingInv, TerminateJoin
<1>6. NoLostWakeup'
  BY DEF TaskInv, TaskTypeOK, HandleInv, RunningInv, StoppingInv, NoLostWakeup,
     TerminateJoin
<1>7. PointerInv'
  BY DEF TaskInv, TaskTypeOK, HandleInv, RunningInv, PendingInv, PointerInv,
     TerminateJoin
<1>8. QED
  BY <1>1, <1>2, <1>3, <1>4, <1>5, <1>6, <1>7 DEF TaskInv

LEMMA LoopTaskInv ==
  ASSUME TaskInv, NEW w \in Workers, Loop(w)
  PROVE  TaskInv'
<1> USE ThreadsDisjoint DEF Goto, flags
<1>1. TaskTypeOK'
  BY DEF TaskInv, TaskTypeOK, Loop, LoopTest, TakeTask
<1>2. HandleInv'
  BY DEF TaskInv, TaskTypeOK, HandleInv, RunningInv, Loop, LoopTest,
     TakeTask
<1>3. RunningInv'
  BY DEF TaskInv, TaskTypeOK, HandleInv, RunningInv, PendingInv, StoppingInv,
     Loop, LoopTest, TakeTask
<1>4. PendingInv'
  BY DEF TaskInv, TaskTypeOK, HandleInv, RunningInv, PendingInv, Loop,
     LoopTest, TakeTask
<1>5. StoppingInv'
  BY DEF TaskInv, TaskTypeOK, HandleInv, RunningInv, StoppingInv, Loop,
     LoopTest, TakeTask
<1>6. NoLostWakeup'
  BY DEF TaskInv, TaskTypeOK, HandleInv, RunningInv, StoppingInv, NoLostWakeup,
     Loop, LoopTest, TakeTask
<1>7. PointerInv'
  BY DEF TaskInv, TaskTypeOK, HandleInv, RunningInv, PendingInv, PointerInv, Loop,
     LoopTest, TakeTask
<1>8. QED
  BY <1>1, <1>2, <1>3, <1>4, <1>5, <1>6, <1>7 DEF TaskInv

LEMMA WaitTimesOutTaskInv ==
  ASSUME TaskInv, NEW w \in Workers, WaitTimesOut(w)
  PROVE  TaskInv'
<1> USE ThreadsDisjoint DEF Goto, flags
<1>1. TaskTypeOK'
  BY DEF TaskInv, TaskTypeOK, WaitTimesOut
<1>2. HandleInv'
  BY DEF TaskInv, TaskTypeOK, HandleInv, RunningInv, WaitTimesOut
<1>3. RunningInv'
  BY DEF TaskInv, TaskTypeOK, HandleInv, RunningInv, PendingInv, StoppingInv,
     WaitTimesOut
<1>4. PendingInv'
  BY DEF TaskInv, TaskTypeOK, HandleInv, RunningInv, PendingInv, WaitTimesOut
<1>5. StoppingInv'
  BY DEF TaskInv, TaskTypeOK, HandleInv, RunningInv, StoppingInv, WaitTimesOut
<1>6. NoLostWakeup'
  BY DEF TaskInv, TaskTypeOK, HandleInv, RunningInv, StoppingInv, NoLostWakeup,
     WaitTimesOut
<1>7. PointerInv'
  BY DEF TaskInv, TaskTypeOK, HandleInv, RunningInv, PendingInv, PointerInv,
     WaitTimesOut
<1>8. QED
  BY <1>1, <1>2, <1>3, <1>4, <1>5, <1>6, <1>7 DEF TaskInv

LEMMA AfterWaitTaskInv ==
  ASSUME TaskInv, NEW w \in Workers, AfterWait(w)
  PROVE  TaskInv'
<1> USE ThreadsDisjoint DEF Goto, flags
<1>1. TaskTypeOK'
  BY DEF TaskInv, TaskTypeOK, AfterWait, TakeTask
<1>2. HandleInv'
  BY DEF TaskInv, TaskTypeOK, HandleInv, RunningInv, AfterWait, TakeTask
<1>3. RunningInv'
  BY DEF TaskInv, TaskTypeOK, HandleInv, RunningInv, PendingInv, StoppingInv,
     AfterWait, TakeTask
<1>4. PendingInv'
  BY DEF TaskInv, TaskTypeOK, HandleInv, RunningInv, PendingInv, AfterWait,
     TakeTask
<1>5. StoppingInv'
  BY DEF TaskInv, TaskTypeOK, HandleInv, RunningInv, StoppingInv, AfterWait,
     TakeTask
<1>6. NoLostWakeup'
  BY DEF TaskInv, TaskTypeOK, HandleInv, RunningInv, StoppingInv, NoLostWakeup,
     AfterWait, TakeTask
<1>7. PointerInv'
  BY DEF TaskInv, TaskTypeOK, HandleInv, RunningInv, PendingInv, PointerInv,
     AfterWait, TakeTask
<1>8. QED
  BY <1>1, <1>2, <1>3, <1>4, <1>5, <1>6, <1>7 DEF TaskInv

LEMMA FunctionReturnsTaskInv ==
  ASSUME TaskInv, NEW w \in Workers, FunctionReturns(w)
  PROVE  TaskInv'
<1> USE ThreadsDisjoint DEF Goto, flags
<1>1. TaskTypeOK'
  BY DEF TaskInv, TaskTypeOK, FunctionReturns
<1>2. HandleInv'
  BY DEF TaskInv, TaskTypeOK, HandleInv, RunningInv, FunctionReturns
<1>3. RunningInv'
  BY DEF TaskInv, TaskTypeOK, HandleInv, RunningInv, PendingInv, StoppingInv,
     FunctionReturns
<1>4. PendingInv'
  BY DEF TaskInv, TaskTypeOK, HandleInv, RunningInv, PendingInv, FunctionReturns
<1>5. StoppingInv'
  BY DEF TaskInv, TaskTypeOK, HandleInv, RunningInv, StoppingInv, FunctionReturns
<1>6. NoLostWakeup'
  BY DEF TaskInv, TaskTypeOK, HandleInv, RunningInv, StoppingInv, NoLostWakeup,
     FunctionReturns
<1>7. PointerInv'
  BY DEF TaskInv, TaskTypeOK, HandleInv, RunningInv, PendingInv, PointerInv,
     FunctionReturns
<1>8. QED
  BY <1>1, <1>2, <1>3, <1>4, <1>5, <1>6, <1>7 DEF TaskInv

LEMMA SleepCallTaskInv ==
  ASSUME TaskInv, NEW w \in Workers, SleepCall(w)
  PROVE  TaskInv'
<1> USE ThreadsDisjoint DEF Goto, flags
<1>1. TaskTypeOK'
  BY DEF TaskInv, TaskTypeOK, SleepCall
<1>2. HandleInv'
  BY DEF TaskInv, TaskTypeOK, HandleInv, RunningInv, SleepCall
<1>3. RunningInv'
  BY DEF TaskInv, TaskTypeOK, HandleInv, RunningInv, PendingInv, StoppingInv,
     SleepCall
<1>4. PendingInv'
  BY DEF TaskInv, TaskTypeOK, HandleInv, RunningInv, PendingInv, SleepCall
<1>5. StoppingInv'
  BY DEF TaskInv, TaskTypeOK, HandleInv, RunningInv, StoppingInv, SleepCall
<1>6. NoLostWakeup'
  BY DEF TaskInv, TaskTypeOK, HandleInv, RunningInv, StoppingInv, NoLostWakeup,
     SleepCall
<1>7. PointerInv'
  BY DEF TaskInv, TaskTypeOK, HandleInv, RunningInv, PendingInv, PointerInv,
     SleepCall
<1>8. QED
  BY <1>1, <1>2, <1>3, <1>4, <1>5, <1>6, <1>7 DEF TaskInv

LEMMA SleepBodyTaskInv ==
  ASSUME TaskInv, NEW w \in Workers, SleepBody(w)
  PROVE  TaskInv'
<1> USE ThreadsDisjoint DEF Goto, flags
<1>1. TaskTypeOK'
  BY DEF TaskInv, TaskTypeOK, SleepBody
<1>2. HandleInv'
  BY DEF TaskInv, TaskTypeOK, HandleInv, RunningInv, SleepBody
<1>3. RunningInv'
  BY DEF TaskInv, TaskTypeOK, HandleInv, RunningInv, PendingInv, StoppingInv,
     SleepBody
<1>4. PendingInv'
  BY DEF TaskInv, TaskTypeOK, HandleInv, RunningInv, PendingInv, SleepBody
<1>5. StoppingInv'
  BY DEF TaskInv, TaskTypeOK, HandleInv, RunningInv, StoppingInv, SleepBody
<1>6. NoLostWakeup'
  BY DEF TaskInv, TaskTypeOK, HandleInv, RunningInv, StoppingInv, NoLostWakeup,
     SleepBody
<1>7. PointerInv'
  BY DEF TaskInv, TaskTypeOK, HandleInv, RunningInv, PendingInv, PointerInv,
     SleepBody
<1>8. QED
  BY <1>1, <1>2, <1>3, <1>4, <1>5, <1>6, <1>7 DEF TaskInv

LEMMA NextTaskInv == TaskInv /\ [TaskNext]_taskVars => TaskInv'
<1> SUFFICES ASSUME TaskInv, [TaskNext]_taskVars PROVE TaskInv'
  OBVIOUS
<1>1. ASSUME NEW c \in Callers, CallerStep(c) PROVE TaskInv'
  BY <1>1, RequestRunTaskInv, JoinOldTaskInv, SpawnTaskInv, NotifyImmediateTaskInv
     DEF CallerStep
<1>2. ASSUME OwnerStep PROVE TaskInv'
  BY <1>2, TerminateTaskInv, NotifyStoppingTaskInv, TerminateJoinTaskInv DEF OwnerStep
<1>3. ASSUME NEW w \in Workers, WorkerStep(w) PROVE TaskInv'
  BY <1>3, LoopTaskInv, WaitTimesOutTaskInv, AfterWaitTaskInv, FunctionReturnsTaskInv,
     SleepCallTaskInv, SleepBodyTaskInv DEF WorkerStep
<1>4. CASE UNCHANGED taskVars
  BY <1>4 DEF taskVars, TaskInv, TaskTypeOK, HandleInv, RunningInv, PendingInv,
     StoppingInv, NoLostWakeup, PointerInv
<1>5. QED
  BY <1>1, <1>2, <1>3, <1>4 DEF TaskNext

LEMMA SpecTaskInv == TaskSpec => []TaskInv
  BY InitTaskInv, NextTaskInv, PTL DEF TaskSpec

(* The variables keep their types in every reachable state. *)
THEOREM TaskTypeCorrect == TaskSpec => []TaskTypeOK
  BY SpecTaskInv, PTL DEF TaskInv

(* No request recorded by requestRun is left without a worker. *)
THEOREM RequestsAreKept == TaskSpec => []RequestHasWorker
<1>1. TaskInv => RequestHasWorker
  BY ThreadsDisjoint DEF TaskInv, TaskTypeOK, HandleInv, RunningInv, RequestHasWorker
<1>2. QED
  BY <1>1, SpecTaskInv, PTL

(* requestRun(true) and terminate() never leave a worker asleep. *)
THEOREM WakeupsAreKept == TaskSpec => []NoLostWakeup
  BY SpecTaskInv, PTL DEF TaskInv

(* requestRun never overwrites a joinable std::thread. *)
THEOREM HandlesAreKept == TaskSpec => []EveryWorkerIsHeld
<1>1. TaskInv => EveryWorkerIsHeld
  BY DEF TaskInv, HandleInv, EveryWorkerIsHeld
<1>2. QED
  BY <1>1, SpecTaskInv, PTL

(* When terminate() has returned, no worker and no request is left. *)
THEOREM TerminationIsClean == TaskSpec => []TerminateQuiesces
<1>1. TaskInv => TerminateQuiesces
  BY ThreadsDisjoint DEF TaskInv, TaskTypeOK, HandleInv, RunningInv, StoppingInv, TerminateQuiesces
<1>2. QED
  BY <1>1, SpecTaskInv, PTL

(* Safety of the refinement: whatever the clients do, runs of the function
   do not overlap and each of them takes a request. *)
THEOREM RefinesCoalescingTask == TaskSpec => Coalescing!Spec
<1> USE DEF InFunction
<1>1. TaskInit => Coalescing!Init
  BY ThreadsDisjoint DEF TaskInit, Coalescing!Init
<1>2. ASSUME TaskInv, [TaskNext]_taskVars
      PROVE  [Coalescing!Next]_(Coalescing!vars)
  <2> USE ThreadsDisjoint DEF Coalescing!vars, Coalescing!Next,
          Coalescing!Request, Coalescing!Begin, Coalescing!End,
          flags, Goto
  <2>1. ASSUME NEW c \in Callers, CallerStep(c)
        PROVE  [Coalescing!Next]_(Coalescing!vars)
    <3>1. (\E w \in Workers : InFunction(w))' = \E w \in Workers : InFunction(w)
      BY <2>1, <1>2 DEF CallerStep, TaskInv, TaskTypeOK, RequestRun,
         JoinOld, Spawn,
         NotifyImmediate, NotifyAll
    <3>2. hasPendingTask' = TRUE \/ UNCHANGED hasPendingTask
      BY <2>1 DEF CallerStep, RequestRun, JoinOld, Spawn,
         NotifyImmediate,
         NotifyAll
    <3>3. QED
      BY <3>1, <3>2
  <2>2. ASSUME OwnerStep
        PROVE  [Coalescing!Next]_(Coalescing!vars)
    BY <2>2, <1>2 DEF OwnerStep, TaskInv, TaskTypeOK, Terminate,
       NotifyStopping,
       NotifyAll, TerminateJoin
  <2>3. ASSUME NEW w \in Workers, WorkerStep(w)
        PROVE  [Coalescing!Next]_(Coalescing!vars)
    <3>1. \A u \in Workers : u # w => ~InFunction(u) /\ pc'[u] = pc[u]
      BY <2>3, <1>2 DEF TaskInv, TaskTypeOK, HandleInv, WorkerStep, Loop,
         LoopTest,
         TakeTask, WaitTimesOut, AfterWait, FunctionReturns,
         SleepCall,
         SleepBody
    <3>2. CASE Loop(w) \/ AfterWait(w)
      BY <3>1, <3>2, <1>2 DEF TaskInv, TaskTypeOK, PendingInv, Loop, LoopTest,
         TakeTask, AfterWait
    <3>3. CASE \/ WaitTimesOut(w) \/ FunctionReturns(w)
               \/ SleepCall(w) \/ SleepBody(w)
      BY <3>1, <3>3, <1>2 DEF TaskInv, TaskTypeOK, WaitTimesOut,
         FunctionReturns,
         SleepCall, SleepBody
    <3>4. QED
      BY <2>3, <3>2, <3>3 DEF WorkerStep
  <2>4. CASE UNCHANGED taskVars
    BY <2>4 DEF taskVars
  <2>5. QED
    BY <1>2, <2>1, <2>2, <2>3, <2>4 DEF TaskNext
<1>3. QED
  BY <1>1, <1>2, SpecTaskInv, PTL DEF TaskSpec, Coalescing!Spec
===============================================================================
