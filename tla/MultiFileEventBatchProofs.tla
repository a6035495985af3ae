---------------------- MODULE MultiFileEventBatchProofs ----------------------
(***************************************************************************)
(* Proofs about MultiFileEventBatch for any events, sizes, limits and any  *)
(* number of files: the pointers to the files and the files in the         *)
(* directory agree, the uploader's list stays the start of the file that   *)
(* onEventsUploaded will pick, and, as long as no event was too large for  *)
(* an empty file, the file held as the oldest one has events to upload.    *)
(* The files together are one FIFO batch, over restarts.                   *)
(***************************************************************************)
EXTENDS MultiFileEventBatch, FiniteSetTheorems, SequenceTheorems, WellFoundedInduction, TLAPS

(* The newest file is the one with the highest number, and a file that is not
   in the directory is not remembered by the model. *)
FilesInv ==
    /\ newestBatchId \in exist
    /\ \A i \in exist : i <= newestBatchId
    /\ \A i \in Ids : i \notin exist => files[i] = <<>>

(* The other files of the directory are, each once, the oldest file and the
   ones in the list of old files. *)
OldInv ==
    /\ \A k \in 1..Len(oldBatches) :
           /\ oldBatches[k] \in exist
           /\ oldBatches[k] # newestBatchId
           /\ oldBatches[k] # oldestBatch
    /\ \A j, k \in 1..Len(oldBatches) : oldBatches[j] = oldBatches[k] => j = k
    /\ oldestBatch # NoBatch => oldestBatch \in exist /\ oldestBatch # newestBatchId
    /\ \A i \in exist : \/ i = newestBatchId \/ i = oldestBatch
                        \/ \E k \in 1..Len(oldBatches) : oldBatches[k] = i

(* While a list is out there is no file between the one it came from and the
   newest one unless it came from the oldest. *)
ListInv ==
    list # NoList => /\ source = Target
                     /\ IsPrefix(list, files[Target])
                     /\ oldestBatch = NoBatch => oldBatches = <<>>

(* Only the newest file can be empty, until an event is refused. *)
FitInv == refused = {} => \A i \in exist : i # newestBatchId => files[i] # <<>>

Inv == TypeOK /\ FilesInv /\ OldInv /\ ListInv /\ FitInv

-----------------------------------------------------------------------------
(* A prefix of a sequence is a prefix of what the sequence grows to. *)
LEMMA PrefixOfAppend ==
    ASSUME NEW S, NEW p \in Seq(S), NEW s \in Seq(S), NEW e \in S, IsPrefix(p, s)
    PROVE  IsPrefix(p, Append(s, e))
BY DEF IsPrefix

(* The first n elements of a sequence are a prefix of it. *)
LEMMA PrefixOfSubSeq ==
    ASSUME NEW S, NEW s \in Seq(S), NEW n \in 0..Len(s)
    PROVE  SubSeq(s, 1, n) \in Seq(S) /\ IsPrefix(SubSeq(s, 1, n), s)
BY DEF IsPrefix

(* What follows the first n elements is a sequence. *)
LEMMA RestIsSeq ==
    ASSUME NEW S, NEW s \in Seq(S), NEW n \in Nat
    PROVE  SubSeq(s, n + 1, Len(s)) \in Seq(S)
OBVIOUS

(* The numbers of a finite set in ascending order: every one of them, once. *)
LEMMA AscendingEnumerates ==
    ASSUME NEW S \in SUBSET Ids, NEW s \in Ascending(S)
    PROVE  /\ s \in Seq(S)
           /\ \A j, k \in 1..Len(s) : s[j] = s[k] => j = k
           /\ \A i \in S : \E k \in 1..Len(s) : s[k] = i
<1> DEFINE n == Cardinality(S)
<1>1. IsFiniteSet(S)
  <2>1. 0 \in Int /\ MaxBatchId \in Int
    BY BatchAssumption
  <2>2. IsFiniteSet(Ids)
    BY <2>1, FS_Interval DEF Ids
  <2> QED BY <2>2, FS_Subset
<1>2. n \in Nat
  BY <1>1, FS_CardinalityType
<1>3. s \in [1..n -> S] /\ \A j, k \in 1..n : j < k => s[j] < s[k]
  BY DEF Ascending
<1> HIDE DEF n
<1>4. s \in Seq(S) /\ Len(s) = n
  BY <1>2, <1>3
<1>5. \A j, k \in 1..n : s[j] = s[k] => j = k
  <2> SUFFICES ASSUME NEW j \in 1..n, NEW k \in 1..n, s[j] = s[k], j # k
               PROVE  FALSE
    OBVIOUS
  <2>1. j \in Int /\ k \in Int /\ s[j] \in Int /\ s[k] \in Int
    <3>1. s[j] \in Ids /\ s[k] \in Ids
      BY <1>3
    <3> QED BY <1>2, <3>1, BatchAssumption DEF Ids
  <2>2. j < k \/ k < j
    BY <2>1
  <2> QED BY <1>3, <2>1, <2>2
<1>6. s \in Injection(1..n, S)
  BY <1>3, <1>5 DEF Injection, IsInjective
<1>7. Cardinality(1..n) = Cardinality(S)
  BY <1>2, FS_Interval DEF n
<1>8. s \in Surjection(1..n, S)
  BY <1>1, <1>6, <1>7, FS_Injection
<1> QED BY <1>4, <1>5, <1>8 DEF Surjection

-----------------------------------------------------------------------------
LEMMA InitInv == Init => Inv
<1> SUFFICES ASSUME Init PROVE Inv
  OBVIOUS
<1> USE BatchAssumption DEF Init, Ids
<1>1. TypeOK
  BY DEF TypeOK
<1>2. FilesInv
  BY DEF FilesInv
<1>3. OldInv
  BY DEF OldInv
<1>4. ListInv /\ FitInv
  BY DEF ListInv, FitInv
<1> QED BY <1>1, <1>2, <1>3, <1>4 DEF Inv

LEMMA AddEventInv ==
    ASSUME Inv, NEW e \in Events, AddEvent(e)
    PROVE  Inv'
<1> USE BatchAssumption
<1>1. TypeOK'
  BY DEF AddEvent, Inv, TypeOK
<1>2. FilesInv'
  BY DEF AddEvent, Inv, TypeOK, FilesInv
<1>3. OldInv'
  BY DEF AddEvent, Inv, TypeOK, OldInv
<1>4. ListInv'
  <2> SUFFICES ASSUME list # NoList
               PROVE  source = Target /\ Target' = Target /\ IsPrefix(list, files'[Target])
    BY DEF AddEvent, Inv, ListInv
  <2>1. source = Target /\ Target' = Target /\ Target \in Ids /\ IsPrefix(list, files[Target])
    BY DEF AddEvent, Inv, ListInv, TypeOK, Target
  <2>2. files[Target] \in Seq(Events) /\ list \in Seq(Events)
    BY <2>1 DEF Inv, TypeOK
  <2>3. files'[Target] \in {files[Target], Append(files[Target], e)}
    BY <2>1 DEF AddEvent, Inv, TypeOK
  <2>4. IsPrefix(list, Append(files[Target], e))
    BY <2>1, <2>2, PrefixOfAppend
  <2> QED BY <2>1, <2>3, <2>4
<1>5. FitInv'
  BY DEF AddEvent, Inv, TypeOK, FitInv
<1> QED BY <1>1, <1>2, <1>3, <1>4, <1>5 DEF Inv

(* The full file has events when the event fits an empty one; the list that
   is out was taken from it only if it now becomes the oldest file. *)
LEMMA AddEventToNextFileInv ==
    ASSUME Inv, NEW e \in Events, AddEventToNextFile(e)
    PROVE  Inv'
<1> DEFINE next == newestBatchId + 1
<1> USE BatchAssumption
<1>0. /\ next \in Ids /\ next \notin exist /\ next # newestBatchId
      /\ files[next] = <<>> /\ newestBatchId \in Ids
      /\ \A i \in exist : i \in Ids /\ i # next
      /\ \A i \in exist : i <= next
  <2>1. next \in Ids /\ newestBatchId \in Ids /\ \A i \in exist : i \in Ids /\ i <= newestBatchId
    BY DEF AddEventToNextFile, Inv, TypeOK, FilesInv
  <2>2. \A i \in exist : i # next /\ i <= next
    BY <2>1 DEF Ids
  <2> QED BY <2>1, <2>2 DEF Inv, FilesInv, Ids
<1>1. TypeOK'
  BY <1>0 DEF AddEventToNextFile, Inv, TypeOK
<1>3. \A i \in Ids : i # next => files'[i] = files[i]
  BY <1>0 DEF AddEventToNextFile, Inv, TypeOK
<1>2. FilesInv'
  <2>1. newestBatchId' = next /\ exist' = exist \cup {next} /\ next <= next
    BY <1>0 DEF AddEventToNextFile, Ids
  <2> QED BY <1>0, <1>3, <2>1 DEF Inv, FilesInv
<1>4. OldInv'
  <2> DEFINE onlyFile == oldestBatch = NoBatch /\ oldBatches = <<>>
  <2>0. oldBatches \in Seq(Ids) /\ newestBatchId \in exist
    BY DEF Inv, TypeOK, FilesInv
  <2>1. CASE onlyFile
    BY <1>0, <2>0, <2>1 DEF AddEventToNextFile, Inv, OldInv
  <2>2. CASE ~onlyFile
    <3>1. /\ oldestBatch' = oldestBatch /\ exist' = exist \cup {next}
          /\ newestBatchId' = next /\ oldBatches' = Append(oldBatches, newestBatchId)
      BY <2>2 DEF AddEventToNextFile
    <3>2. /\ Len(oldBatches') = Len(oldBatches) + 1
          /\ \A k \in 1..Len(oldBatches) : oldBatches'[k] = oldBatches[k]
          /\ oldBatches'[Len(oldBatches) + 1] = newestBatchId
      BY <2>0, <3>1
    <3>3. \A k \in 1..Len(oldBatches') :
              k \in 1..Len(oldBatches) \/ k = Len(oldBatches) + 1
      BY <2>0, <3>2
    <3>4. oldestBatch # newestBatchId
      BY <1>0 DEF Inv, OldInv
    <3>5. \A k \in 1..Len(oldBatches') :
              oldBatches'[k] \in exist' /\ oldBatches'[k] # next /\ oldBatches'[k] # oldestBatch
      BY <1>0, <2>0, <3>1, <3>2, <3>3, <3>4 DEF Inv, OldInv
    <3>6. \A j, k \in 1..Len(oldBatches') : oldBatches'[j] = oldBatches'[k] => j = k
      BY <3>2, <3>3 DEF Inv, OldInv
    <3>7. oldestBatch # NoBatch => oldestBatch \in exist' /\ oldestBatch # next
      BY <1>0, <3>1 DEF Inv, OldInv
    <3>8. ASSUME NEW i \in exist', i # next, i # oldestBatch
          PROVE  \E k \in 1..Len(oldBatches') : oldBatches'[k] = i
      <4>1. i \in exist
        BY <3>1, <3>8
      <4>2. CASE i = newestBatchId
        BY <2>0, <3>2, <4>2
      <4>3. CASE \E k \in 1..Len(oldBatches) : oldBatches[k] = i
        BY <2>0, <3>2, <4>3
      <4> QED BY <3>8, <4>1, <4>2, <4>3 DEF Inv, OldInv
    <3> QED BY <3>1, <3>5, <3>6, <3>7, <3>8 DEF OldInv
  <2> QED BY <2>1, <2>2
<1>5. ListInv'
  <2> SUFFICES ASSUME list # NoList
               PROVE  /\ source = Target' /\ IsPrefix(list, files'[Target'])
                      /\ oldestBatch' = NoBatch => oldBatches' = <<>>
    BY DEF AddEventToNextFile, ListInv
  <2>1. Target' = Target /\ Target \in Ids /\ Target # next /\ oldestBatch' # NoBatch
    BY <1>0 DEF AddEventToNextFile, Inv, ListInv, OldInv, TypeOK, Target
  <2> QED BY <1>3, <2>1 DEF Inv, ListInv
<1>6. FitInv'
  <2> SUFFICES ASSUME refused' = {}, NEW i \in exist', i # newestBatchId'
               PROVE  files'[i] # <<>>
    BY DEF FitInv
  <2>0. refused = {} /\ CanAddEvent(files[next], e)
    BY DEF AddEventToNextFile
  <2>1. i \in exist /\ files'[i] = files[i]
    BY <1>0, <1>3 DEF AddEventToNextFile
  <2>2. CASE i # newestBatchId
    BY <2>0, <2>1, <2>2 DEF Inv, FitInv
  <2>3. CASE i = newestBatchId
    <3>1. files[newestBatchId] # <<>>
      BY <1>0, <2>0 DEF AddEventToNextFile
    <3> QED BY <2>1, <2>3, <3>1
  <2> QED BY <2>2, <2>3
<1> QED BY <1>1, <1>2, <1>4, <1>5, <1>6 DEF Inv

(* checkOldestBatch keeps everything but the list's invariant, and leaves no
   old file without an oldest one. *)
LEMMA CheckOldestBatchInv ==
    ASSUME Inv, CheckOldestBatch, UNCHANGED <<files, newestBatchId, limit, refused>>
    PROVE  /\ exist' \subseteq Ids
           /\ oldestBatch' \in Ids \cup {NoBatch}
           /\ oldBatches' \in Seq(Ids)
           /\ FilesInv' /\ OldInv' /\ FitInv'
           /\ oldestBatch' = NoBatch => oldBatches' = <<>>
           /\ Target' \in Ids
<1> USE BatchAssumption
<1>0. /\ oldBatches \in Seq(Ids) /\ oldestBatch \in Ids \cup {NoBatch}
      /\ exist \subseteq Ids /\ newestBatchId \in Ids
  BY DEF Inv, TypeOK
<1>1. CASE oldestBatch # NoBatch
  <2>1. UNCHANGED <<oldestBatch, oldBatches, exist>>
    BY <1>1 DEF CheckOldestBatch
  <2> QED BY <1>0, <1>1, <2>1 DEF Inv, FilesInv, OldInv, FitInv, Target
<1>2. CASE oldestBatch = NoBatch
  <2> DEFINE n == Len(oldBatches)
  <2>1. PICK k \in 0..n :
            /\ \A i \in 1..k : files[oldBatches[i]] = <<>>
            /\ oldestBatch' = IF k < n THEN oldBatches[k + 1] ELSE NoBatch
            /\ oldBatches' = IF k < n THEN SubSeq(oldBatches, k + 2, n) ELSE <<>>
            /\ exist' = exist \ {oldBatches[i] : i \in 1..k}
    BY <1>2 DEF CheckOldestBatch
  <2>2. n \in Nat /\ k \in Nat /\ k <= n
    BY <1>0
  <2>3. exist' \subseteq exist /\ newestBatchId \in exist'
    BY <1>0, <2>1, <2>2 DEF Inv, FilesInv, OldInv
  <2>4. FilesInv'
    <3> SUFFICES ASSUME NEW i \in Ids, i \notin exist' PROVE files[i] = <<>>
      BY <2>3 DEF Inv, FilesInv
    <3> QED BY <2>1 DEF Inv, FilesInv
  <2>5. FitInv'
    BY <2>3 DEF Inv, FitInv
  <2>6. CASE k = n
    <3>1. oldestBatch' = NoBatch /\ oldBatches' = <<>>
      BY <2>1, <2>2, <2>6
    <3>2. ASSUME NEW i \in exist', i # newestBatchId
          PROVE  FALSE
      <4>1. i \in exist /\ i # NoBatch
        BY <1>0, <2>3
      <4>2. PICK j \in 1..n : oldBatches[j] = i
        BY <1>2, <3>2, <4>1 DEF Inv, OldInv
      <4> QED BY <2>1, <2>6, <4>2
    <3>3. OldInv'
      BY <3>1, <3>2 DEF OldInv
    <3> QED BY <1>0, <2>3, <2>4, <2>5, <3>1, <3>3 DEF Target
  <2>7. CASE k < n
    <3>1. oldestBatch' = oldBatches[k + 1] /\ oldBatches' = SubSeq(oldBatches, k + 2, n)
      BY <2>1, <2>7
    <3>2. k + 1 \in 1..n /\ oldBatches[k + 1] \in Ids /\ oldBatches[k + 1] # NoBatch
      BY <1>0, <2>2, <2>7
    <3>3. /\ oldBatches' \in Seq(Ids) /\ Len(oldBatches') = n - k - 1
          /\ \A j \in 1..Len(oldBatches') :
                 oldBatches'[j] = oldBatches[j + k + 1] /\ j + k + 1 \in 1..n
      BY <1>0, <2>2, <2>7, <3>1
    <3>4. ASSUME NEW j \in 1..n, j > k
          PROVE  oldBatches[j] \in exist'
      <4>1. oldBatches[j] \in exist
        BY DEF Inv, OldInv
      <4>2. ASSUME NEW i \in 1..k PROVE oldBatches[j] # oldBatches[i]
        <5>1. i \in 1..n /\ i # j
          BY <2>2, <3>4
        <5> QED BY <5>1 DEF Inv, OldInv
      <4> QED BY <2>1, <4>1, <4>2
    <3>5. OldInv'
      <4>1. ASSUME NEW j \in 1..Len(oldBatches')
            PROVE  /\ oldBatches'[j] \in exist'
                   /\ oldBatches'[j] # newestBatchId /\ oldBatches'[j] # oldestBatch'
        <5>1. j + k + 1 \in 1..n /\ j + k + 1 > k /\ j + k + 1 # k + 1
          BY <2>2, <3>3
        <5> QED BY <3>1, <3>2, <3>3, <3>4, <5>1 DEF Inv, OldInv
      <4>2. ASSUME NEW i \in 1..Len(oldBatches'), NEW j \in 1..Len(oldBatches'),
                   oldBatches'[i] = oldBatches'[j]
            PROVE  i = j
        <5>1. i + k + 1 \in 1..n /\ j + k + 1 \in 1..n
                 /\ oldBatches[i + k + 1] = oldBatches[j + k + 1]
          BY <3>3, <4>2
        <5>2. i + k + 1 = j + k + 1
          BY <5>1 DEF Inv, OldInv
        <5> QED BY <2>2, <3>3, <5>2
      <4>3. oldestBatch' \in exist' /\ oldestBatch' # newestBatchId
        <5>1. k + 1 > k
          BY <2>2
        <5> QED BY <3>1, <3>2, <3>4, <5>1 DEF Inv, OldInv
      <4>4. ASSUME NEW i \in exist', i # newestBatchId, i # oldestBatch'
            PROVE  \E j \in 1..Len(oldBatches') : oldBatches'[j] = i
        <5>0. i \in exist /\ i # NoBatch
          BY <1>0, <2>3
        <5>1. PICK m \in 1..n : oldBatches[m] = i
          BY <1>2, <4>4, <5>0 DEF Inv, OldInv
        <5>2. m > k + 1
          BY <2>1, <2>2, <3>1, <4>4, <5>1
        <5>3. m - k - 1 \in 1..Len(oldBatches') /\ m = (m - k - 1) + k + 1
          BY <2>2, <3>3, <5>2
        <5> QED BY <3>3, <5>1, <5>3
      <4> QED BY <4>1, <4>2, <4>3, <4>4 DEF OldInv
    <3> QED BY <1>0, <2>3, <2>4, <2>5, <3>1, <3>2, <3>3, <3>5 DEF Target
  <2> QED BY <2>2, <2>6, <2>7
<1> QED BY <1>1, <1>2

LEMMA GetEventsForUploadInv ==
    ASSUME Inv, NEW a \in UploadArgs, GetEventsForUpload(a)
    PROVE  Inv'
<1> USE BatchAssumption
<1>1. CheckOldestBatch /\ UNCHANGED <<files, newestBatchId, limit, refused>> /\ list = NoList
  BY DEF GetEventsForUpload
<1>2. /\ exist' \subseteq Ids
      /\ oldestBatch' \in Ids \cup {NoBatch}
      /\ oldBatches' \in Seq(Ids)
      /\ FilesInv' /\ OldInv' /\ FitInv'
      /\ oldestBatch' = NoBatch => oldBatches' = <<>>
      /\ Target' \in Ids
  BY <1>1, CheckOldestBatchInv
<1>3. CASE UNCHANGED <<list, source>>
  BY <1>1, <1>2, <1>3 DEF Inv, TypeOK, ListInv
<1>4. CASE \E n \in 0..Len(files[Target']) :
               list' = SubSeq(files[Target'], 1, n) /\ source' = Target'
  <2>1. files[Target'] \in Seq(Events)
    BY <1>2 DEF Inv, TypeOK
  <2>2. list' \in Seq(Events) /\ IsPrefix(list', files[Target']) /\ source' = Target'
    BY <1>4, <2>1, PrefixOfSubSeq
  <2> QED BY <1>1, <1>2, <2>2 DEF Inv, TypeOK, ListInv
<1> QED BY <1>3, <1>4 DEF GetEventsForUpload

LEMMA OnEventsUploadedInv ==
    ASSUME Inv, OnEventsUploaded
    PROVE  Inv'
<1> USE BatchAssumption
<1> DEFINE rest == SubSeq(files[Target], Len(list) + 1, Len(files[Target]))
<1>0. /\ Target \in Ids /\ files[Target] \in Seq(Events) /\ list \in Seq(Events)
      /\ files \in [Ids -> Seq(Events)] /\ Len(list) \in Nat
  BY DEF OnEventsUploaded, Inv, TypeOK, Target
<1>1. rest \in Seq(Events)
  BY <1>0, RestIsSeq
<1> HIDE DEF rest
<1>2. /\ files' = [files EXCEPT ![Target] = rest]
      /\ list' = NoList /\ source' = NoBatch
      /\ UNCHANGED <<oldBatches, newestBatchId, limit, refused>>
  BY DEF OnEventsUploaded, rest
<1>3. /\ files' \in [Ids -> Seq(Events)] /\ files'[Target] = rest
      /\ \A i \in Ids : i # Target => files'[i] = files[i]
  BY <1>0, <1>1, <1>2
<1>4. CASE oldestBatch # NoBatch /\ rest = <<>>
  <2>1. oldestBatch' = NoBatch /\ exist' = exist \ {oldestBatch} /\ Target = oldestBatch
    BY <1>4 DEF OnEventsUploaded, rest, Target
  <2>2. TypeOK'
    BY <1>2, <1>3, <2>1 DEF Inv, TypeOK
  <2>3. FilesInv'
    BY <1>2, <1>3, <1>4, <2>1 DEF Inv, TypeOK, FilesInv, OldInv
  <2>4. OldInv'
    <3>1. \A i \in exist : i # NoBatch
      BY DEF Inv, TypeOK
    <3>2. \A k \in 1..Len(oldBatches) : oldBatches[k] \in exist' /\ oldBatches[k] # NoBatch
      BY <2>1, <3>1 DEF Inv, OldInv
    <3> QED BY <1>2, <1>4, <2>1, <3>2 DEF Inv, OldInv
  <2>5. FitInv'
    BY <1>2, <1>3, <2>1 DEF Inv, TypeOK, FitInv
  <2> QED BY <1>2, <2>2, <2>3, <2>4, <2>5 DEF Inv, ListInv
<1>5. CASE ~(oldestBatch # NoBatch /\ rest = <<>>)
  <2>1. UNCHANGED <<oldestBatch, exist>>
    BY <1>5 DEF OnEventsUploaded, rest
  <2>2. TypeOK'
    BY <1>2, <1>3, <2>1 DEF Inv, TypeOK
  <2>3. Target \in exist
    BY DEF Inv, FilesInv, OldInv, Target
  <2>4. FilesInv'
    BY <1>2, <1>3, <2>1, <2>3 DEF Inv, FilesInv
  <2>5. OldInv'
    BY <1>2, <2>1 DEF Inv, OldInv
  <2>6. FitInv'
    <3> SUFFICES ASSUME refused = {}, NEW i \in exist, i # newestBatchId
                 PROVE  files'[i] # <<>>
      BY <1>2, <2>1 DEF FitInv
    <3>1. CASE i # Target
      BY <1>3, <3>1 DEF Inv, TypeOK, FitInv
    <3>2. CASE i = Target
      BY <1>3, <1>5, <3>2 DEF Target
    <3> QED BY <3>1, <3>2
  <2> QED BY <1>2, <2>2, <2>4, <2>5, <2>6 DEF Inv, ListInv
<1> QED BY <1>4, <1>5

LEMMA RestartInv ==
    ASSUME Inv, Restart
    PROVE  Inv'
<1> USE BatchAssumption
<1>0. /\ newestBatchId' = newestBatchId /\ newestBatchId \in exist
      /\ exist \subseteq Ids
  <2>1. /\ newestBatchId' \in exist /\ newestBatchId \in exist /\ exist \subseteq Ids
        /\ newestBatchId' <= newestBatchId /\ newestBatchId <= newestBatchId'
    BY DEF Restart, Inv, TypeOK, FilesInv
  <2> QED BY <2>1 DEF Ids
<1> DEFINE S == exist \ {newestBatchId}
<1>1. S \in SUBSET Ids /\ oldBatches' \in Ascending(S)
  BY <1>0 DEF Restart
<1> HIDE DEF S
<1>2. /\ oldBatches' \in Seq(S)
      /\ \A j, k \in 1..Len(oldBatches') : oldBatches'[j] = oldBatches'[k] => j = k
      /\ \A i \in S : \E k \in 1..Len(oldBatches') : oldBatches'[k] = i
  BY <1>1, AscendingEnumerates
<1>3. \A k \in 1..Len(oldBatches') : oldBatches'[k] \in S
  BY <1>2
<1>4. oldBatches' \in Seq(Ids)
  BY <1>1, <1>2, <1>3
<1>5. /\ oldestBatch' = NoBatch /\ limit' \in Limits /\ list' = NoList
      /\ source' = NoBatch /\ files' = files /\ exist' = exist
      /\ refused' = refused
  BY DEF Restart
<1>6. TypeOK'
  BY <1>0, <1>4, <1>5 DEF Inv, TypeOK
<1>7. FilesInv' /\ FitInv' /\ ListInv'
  BY <1>0, <1>5 DEF Inv, FilesInv, FitInv, ListInv
<1>8. OldInv'
  BY <1>0, <1>2, <1>3, <1>5 DEF OldInv, S, Ids
<1> QED BY <1>6, <1>7, <1>8 DEF Inv

LEMMA NextInv == Inv /\ [Next]_vars => Inv'
<1> SUFFICES ASSUME Inv, [Next]_vars PROVE Inv'
  OBVIOUS
<1>1. ASSUME NEW e \in Events, AddEvent(e) PROVE Inv'
  BY <1>1, AddEventInv
<1>2. ASSUME NEW e \in Events, AddEventToNextFile(e) PROVE Inv'
  BY <1>2, AddEventToNextFileInv
<1>3. ASSUME NEW a \in UploadArgs, GetEventsForUpload(a) PROVE Inv'
  BY <1>3, GetEventsForUploadInv
<1>4. CASE OnEventsUploaded
  BY <1>4, OnEventsUploadedInv
<1>5. CASE DropList
  BY <1>5 DEF DropList, Inv, TypeOK, FilesInv, OldInv, ListInv, FitInv
<1>6. CASE SetFileLimits
  BY <1>6 DEF SetFileLimits, Inv, TypeOK, FilesInv, OldInv, ListInv, FitInv, Target
<1>7. CASE Restart
  BY <1>7, RestartInv
<1>8. CASE UNCHANGED vars
  BY <1>8 DEF vars, Inv, TypeOK, FilesInv, OldInv, ListInv, FitInv, Target
<1> QED BY <1>1, <1>2, <1>3, <1>4, <1>5, <1>6, <1>7, <1>8 DEF Next

LEMMA InvAlways == Spec => []Inv
BY InitInv, NextInv, PTL DEF Spec

-----------------------------------------------------------------------------
(* Every variable of MultiFileEventBatch keeps its type. *)
THEOREM TypeCorrect == Spec => []TypeOK
<1>1. Inv => TypeOK
  BY DEF Inv
<1> QED BY <1>1, InvAlways, PTL

(* onEventsUploaded always removes from the file its list was taken from, and
   the list is still the start of that file, whatever addEvent did to the
   files while the upload was under way. *)
THEOREM ListsMatchTheirFile == Spec => []ListComesFromTarget
<1>1. Inv => ListComesFromTarget
  BY DEF Inv, ListInv, ListComesFromTarget
<1> QED BY <1>1, InvAlways, PTL

(* hasEvents() is true as long as some file of the directory has an event, so
   the upload loop does not stop with events on disk. *)
THEOREM NoEventIsOverlooked == Spec => []HasEventsIsComplete
<1>1. Inv => HasEventsIsComplete
  <2> SUFFICES ASSUME Inv, NEW i \in exist, files[i] # <<>> PROVE HasEvents
    BY DEF HasEventsIsComplete
  <2>1. CASE i = newestBatchId
    BY <2>1 DEF HasEvents
  <2>2. CASE i = oldestBatch
    BY <2>2, BatchAssumption DEF Inv, TypeOK, HasEvents
  <2>3. CASE \E k \in 1..Len(oldBatches) : oldBatches[k] = i
    <3>1. oldBatches # <<>>
      BY <2>3
    <3> QED BY <3>1 DEF HasEvents
  <2> QED BY <2>1, <2>2, <2>3 DEF Inv, OldInv
<1> QED BY <1>1, InvAlways, PTL

(* As long as no event was too large for an empty file, an empty file is never
   held as the oldest batch, so uploads never stop on one. *)
THEOREM OldestIsNeverEmpty == Spec => []OldestHasEvents
<1>1. Inv => OldestHasEvents
  BY DEF Inv, FitInv, OldInv, OldestHasEvents
<1> QED BY <1>1, InvAlways, PTL
-----------------------------------------------------------------------------
(* The refinement of EventBatch.  What FlattenSeq computes is shown by induction
   on the length of its argument, in the form of a least counterexample. *)
LEMMA LeastNumber ==
    ASSUME NEW B \in SUBSET Nat, B # {}
    PROVE  \E n \in B : \A k \in B : n <= k
<1> DEFINE R == {ss \in Nat \X Nat : ss[1] < ss[2]}
<1>1. IsWellFoundedOn(R, Nat)
  BY NatLessThanWellFounded, Zenon DEF OpToRel
<1>2. PICK x \in B : \A y \in B : <<y, x>> \notin R
  <2> HIDE DEF R
  <2> QED BY <1>1, WFMin
<1>3. ASSUME NEW y \in B, y < x PROVE FALSE
  <2>1. <<y, x>> \in R
    BY <1>3
  <2> QED BY <1>2, <2>1
<1> QED BY <1>3

(* What the recursive function of FlattenSeq is at i, given what it is before. *)
Turn(t, f, i) == IF i = 1 THEN t[i] ELSE f[i - 1] \o t[i]

Joins(f, t, n) == f = [i \in 1..n |-> Turn(t, f, i)]

LEMMA JoinAt ==
    ASSUME NEW t, NEW f, NEW n, Joins(f, t, n), NEW i \in 1..n
    PROVE  f[i] = Turn(t, f, i)
BY DEF Joins

LEMMA JoinExists ==
    ASSUME NEW t, NEW n \in Nat
    PROVE  \E f : Joins(f, t, n)
<1> DEFINE B == {k \in Nat : ~\E f : Joins(f, t, k)}
<1> SUFFICES ASSUME B # {} PROVE FALSE
  OBVIOUS
<1>1. PICK k \in B : \A j \in B : k <= j
  <2>1. B \in SUBSET Nat
    OBVIOUS
  <2> HIDE DEF B
  <2> QED BY <2>1, LeastNumber
<1>2. CASE k = 0
  <2> DEFINE f == [i \in 1..0 |-> <<>>]
  <2>1. Joins(f, t, 0)
    BY DEF Joins
  <2> QED BY <1>2, <2>1
<1>3. CASE k # 0
  <2>1. k - 1 \in Nat /\ k - 1 \notin B
    BY <1>1, <1>3
  <2>2. PICK f : Joins(f, t, k - 1)
    BY <2>1
  <2> DEFINE g == [i \in 1..k |-> IF i = k THEN Turn(t, f, k) ELSE f[i]]
  <2>3. \A i \in 1..k : Turn(t, g, i) = Turn(t, f, i)
    <3> SUFFICES ASSUME NEW i \in 1..k, i # 1 PROVE g[i - 1] = f[i - 1]
      BY DEF Turn
    <3> QED BY <1>3
  <2>4. \A i \in 1..(k - 1) : f[i] = Turn(t, f, i)
    BY <2>2 DEF Joins
  <2>5. \A i \in 1..k : g[i] = Turn(t, g, i)
    BY <2>3, <2>4
  <2>6. Joins(g, t, k)
    <3> HIDE DEF g
    <3>1. g = [i \in 1..k |-> g[i]]
      BY DEF g
    <3> QED BY <2>5, <3>1 DEF Joins
  <2> QED BY <2>6
<1> QED BY <1>2, <1>3

(* FlattenSeq is one of these functions, at its last argument. *)
LEMMA FlattenIs ==
    ASSUME NEW t, Len(t) \in Nat \ {0}
    PROVE  \E f : Joins(f, t, Len(t)) /\ FlattenSeq(t) = f[Len(t)]
<1> DEFINE f == CHOOSE g : g = [i \in 1..Len(t) |-> Turn(t, g, i)]
<1>1. f = [i \in 1..Len(t) |-> Turn(t, f, i)]
  BY JoinExists, Zenon DEF Joins
<1>2. Len(t) # 0
  OBVIOUS
<1>3. FlattenSeq(t) = f[Len(t)]
  BY <1>2, Zenon DEF FlattenSeq, Turn
<1> QED BY <1>1, <1>3, Zenon DEF Joins

LEMMA JoinsAgree ==
    ASSUME NEW s, NEW t, NEW f, NEW g, NEW m \in Nat, NEW n \in Nat, NEW k \in Nat \ {0}, k <= m, k <= n,
           Joins(f, s, m), Joins(g, t, n), \A i \in 1..k : s[i] = t[i]
    PROVE  f[k] = g[k]
<1> DEFINE B == {j \in 1..k : f[j] # g[j]}
<1> SUFFICES ASSUME B # {} PROVE FALSE
  OBVIOUS
<1>1. PICK j \in B : \A i \in B : j <= i
  <2>1. B \in SUBSET Nat
    OBVIOUS
  <2> HIDE DEF B
  <2> QED BY <2>1, LeastNumber
<1>2. f[j] = Turn(s, f, j) /\ g[j] = Turn(t, g, j)
  <2>1. j \in 1..m /\ j \in 1..n
    OBVIOUS
  <2> QED BY <2>1, JoinAt
<1>3. j # 1
  BY <1>2 DEF Turn
<1>4. f[j - 1] = g[j - 1] /\ s[j] = t[j]
  BY <1>1, <1>3
<1>5. Turn(s, f, j) = Turn(t, g, j)
  BY <1>3, <1>4 DEF Turn
<1> QED BY <1>2, <1>5

LEMMA FlattenEmpty == FlattenSeq(<<>>) = <<>>
BY DEF FlattenSeq

LEMMA FlattenAppend ==
    ASSUME NEW S, NEW t \in Seq(Seq(S)), NEW x \in Seq(S)
    PROVE  FlattenSeq(Append(t, x)) = FlattenSeq(t) \o x
<1> DEFINE u == Append(t, x)
           n == Len(t)
<1>1. /\ n \in Nat /\ u \in Seq(Seq(S)) /\ Len(u) = n + 1 /\ u[n + 1] = x
      /\ \A i \in 1..n : u[i] = t[i]
  OBVIOUS
<1>2. t # <<>> => n # 0
  OBVIOUS
<1> HIDE DEF u, n
<1>3. PICK g : Joins(g, u, n + 1) /\ FlattenSeq(u) = g[n + 1]
  <2>1. Len(u) \in Nat \ {0}
    BY <1>1
  <2>2. PICK g : Joins(g, u, Len(u)) /\ FlattenSeq(u) = g[Len(u)]
    BY <2>1, FlattenIs
  <2> QED BY <1>1, <2>2
<1>4. g[n + 1] = Turn(u, g, n + 1)
  BY <1>1, <1>3, JoinAt
<1>5. CASE t = <<>>
  <2>1. n = 0 /\ FlattenSeq(t) = <<>>
    BY <1>5, FlattenEmpty DEF n
  <2>2. FlattenSeq(u) = x
    BY <1>1, <1>3, <1>4, <2>1 DEF Turn
  <2>3. <<>> \o x = x
    BY ConcatEmptySeq
  <2> QED BY <2>1, <2>2, <2>3 DEF u
<1>6. CASE t # <<>>
  <2>1. PICK f : Joins(f, t, n) /\ FlattenSeq(t) = f[n]
    BY <1>1, <1>2, <1>6, FlattenIs DEF n
  <2>2. g[n] = f[n]
    BY <1>1, <1>2, <1>3, <1>6, <2>1, JoinsAgree
  <2>3. FlattenSeq(u) = g[n] \o x
    BY <1>1, <1>2, <1>3, <1>4, <1>6 DEF Turn
  <2> QED BY <2>1, <2>2, <2>3 DEF u
<1> QED BY <1>5, <1>6

LEMMA LastIsAppended ==
    ASSUME NEW S, NEW t \in Seq(S), t # <<>>
    PROVE  \E u \in Seq(S), e \in S : t = Append(u, e) /\ Len(u) = Len(t) - 1
<1>1. PICK u \in Seq(S), e \in S : t = Append(u, e)
  BY SequenceEmptyOrAppend
<1>2. Len(u) \in Nat /\ Len(t) = Len(u) + 1
  BY <1>1
<1> QED BY <1>1, <1>2

LEMMA FlattenType ==
    ASSUME NEW S, NEW s \in Seq(Seq(S))
    PROVE  FlattenSeq(s) \in Seq(S)
<1> DEFINE B == {n \in Nat : \E t \in Seq(Seq(S)) : Len(t) = n /\ FlattenSeq(t) \notin Seq(S)}
<1> SUFFICES ASSUME B # {} PROVE FALSE
  OBVIOUS
<1>1. PICK n \in B : \A k \in B : n <= k
  <2>1. B \in SUBSET Nat
    OBVIOUS
  <2> HIDE DEF B
  <2> QED BY <2>1, LeastNumber
<1>2. PICK t \in Seq(Seq(S)) : Len(t) = n /\ FlattenSeq(t) \notin Seq(S)
  OBVIOUS
<1>3. t # <<>>
  BY <1>2, FlattenEmpty
<1>4. PICK u \in Seq(Seq(S)), x \in Seq(S) : t = Append(u, x) /\ Len(u) = n - 1
  <2>1. PICK u \in Seq(Seq(S)), x \in Seq(S) : t = Append(u, x) /\ Len(u) = Len(t) - 1
    BY <1>3, LastIsAppended
  <2> QED BY <1>2, <2>1
<1>5. FlattenSeq(u) \in Seq(S)
  <2>1. n - 1 \in Nat /\ n - 1 \notin B
    BY <1>1, <1>4
  <2> QED BY <1>4, <2>1
<1>6. FlattenSeq(t) = FlattenSeq(u) \o x
  BY <1>4, FlattenAppend
<1>7. FlattenSeq(u) \o x \in Seq(S)
  <2> HIDE DEF B
  <2> QED BY <1>5, ConcatProperties
<1> QED BY <1>2, <1>6, <1>7

Associates(a, b, c) == (a \o b) \o c = a \o (b \o c)

LEMMA ConcatAssociates ==
    ASSUME NEW S, NEW a \in Seq(S), NEW b \in Seq(S), NEW c \in Seq(S)
    PROVE  Associates(a, b, c)
BY ConcatAssociative DEF Associates

LEMMA ConcatOfAppend ==
    ASSUME NEW S, NEW a \in Seq(S), NEW b \in Seq(S), NEW x \in S
    PROVE  a \o Append(b, x) = Append(a \o b, x) /\ a \o b \in Seq(S)
<1>1. a \o b \in Seq(S) /\ Append(b, x) \in Seq(S) /\ <<x>> \in Seq(S)
  OBVIOUS
<1>2. Append(b, x) = b \o <<x>> /\ Append(a \o b, x) = (a \o b) \o <<x>>
  BY <1>1, AppendIsConcat
<1>3. (a \o b) \o <<x>> = a \o (b \o <<x>>)
  BY <1>1, ConcatAssociative
<1> QED BY <1>1, <1>2, <1>3

LEMMA FlattenConcat ==
    ASSUME NEW S, NEW s \in Seq(Seq(S)), NEW r \in Seq(Seq(S))
    PROVE  FlattenSeq(s \o r) = FlattenSeq(s) \o FlattenSeq(r)
<1> DEFINE Q == Seq(S)
           B == {n \in Nat : \E t \in Seq(Q) : Len(t) = n
                     /\ FlattenSeq(s \o t) # FlattenSeq(s) \o FlattenSeq(t)}
<1>0. s \in Seq(Q) /\ r \in Seq(Q) /\ FlattenSeq(s) \in Seq(S) /\ FlattenSeq(s) \o <<>> = FlattenSeq(s)
      /\ s \o <<>> = s /\ Len(r) \in Nat
  BY FlattenType, ConcatEmptySeq
<1> HIDE DEF Q
<1> SUFFICES ASSUME B # {} PROVE FALSE
  BY <1>0
<1>1. PICK n \in B : \A k \in B : n <= k
  <2>1. B \in SUBSET Nat
    OBVIOUS
  <2> HIDE DEF B
  <2> QED BY <2>1, LeastNumber
<1>2. PICK t \in Seq(Q) : Len(t) = n /\ FlattenSeq(s \o t) # FlattenSeq(s) \o FlattenSeq(t)
  OBVIOUS
<1>3. t # <<>>
  BY <1>0, <1>2, FlattenEmpty
<1>4. PICK u \in Seq(Q), x \in Q : t = Append(u, x) /\ Len(u) = n - 1
  <2>1. PICK u \in Seq(Q), x \in Q : t = Append(u, x) /\ Len(u) = Len(t) - 1
    BY <1>3, LastIsAppended
  <2> QED BY <1>2, <2>1
<1>5. FlattenSeq(s \o u) = FlattenSeq(s) \o FlattenSeq(u)
  <2>1. n - 1 \in Nat /\ n - 1 \notin B
    BY <1>1, <1>4
  <2> QED BY <1>4, <2>1
<1> HIDE DEF B
<1>6. s \o t = Append(s \o u, x) /\ s \o u \in Seq(Q)
  <2>1. s \o Append(u, x) = Append(s \o u, x) /\ s \o u \in Seq(Q)
    BY <1>0, ConcatOfAppend
  <2> QED BY <1>4, <2>1
<1>7. FlattenSeq(s \o t) = FlattenSeq(s \o u) \o x /\ FlattenSeq(t) = FlattenSeq(u) \o x
  BY <1>4, <1>6, FlattenAppend DEF Q
<1>8. Associates(FlattenSeq(s), FlattenSeq(u), x)
  BY <1>0, FlattenType, ConcatAssociates DEF Q
<1> QED BY <1>2, <1>5, <1>7, <1>8 DEF Associates

LEMMA FlattenNothing ==
    ASSUME NEW s \in Seq({<<>>})
    PROVE  FlattenSeq(s) = <<>>
<1> DEFINE S == {}
<1>1. ASSUME NEW q \in Seq(S) PROVE q = <<>>
  OBVIOUS
<1>2. s \in Seq(Seq(S))
  <2>1. <<>> \in Seq(S)
    OBVIOUS
  <2> QED BY <2>1, SeqMonotonic
<1> HIDE DEF S
<1> QED BY <1>1, <1>2, FlattenType

-----------------------------------------------------------------------------
(* The events of the files fs whose numbers are s, one file after the other. *)
Contents(fs, s) == [i \in DOMAIN s |-> fs[s[i]]]
Joined(fs, s) == FlattenSeq(Contents(fs, s))

LEMMA ContentsType ==
    ASSUME NEW fs \in [Ids -> Seq(Events)], NEW s \in Seq(Ids)
    PROVE  /\ Contents(fs, s) \in Seq(Seq(Events)) /\ Len(Contents(fs, s)) = Len(s)
           /\ \A i \in 1..Len(s) : Contents(fs, s)[i] = fs[s[i]]
<1>1. DOMAIN s = 1..Len(s) /\ Len(s) \in Nat /\ \A i \in 1..Len(s) : s[i] \in Ids
  OBVIOUS
<1>2. \A i \in 1..Len(s) : fs[s[i]] \in Seq(Events)
  BY <1>1
<1>3. Contents(fs, s) \in [1..Len(s) -> Seq(Events)]
  BY <1>1, <1>2 DEF Contents
<1> QED BY <1>1, <1>3 DEF Contents

LEMMA JoinedType ==
    ASSUME NEW fs \in [Ids -> Seq(Events)], NEW s \in Seq(Ids)
    PROVE  Joined(fs, s) \in Seq(Events)
BY ContentsType, FlattenType DEF Joined

LEMMA JoinedOne ==
    ASSUME NEW fs \in [Ids -> Seq(Events)], NEW i \in Ids
    PROVE  Joined(fs, <<i>>) = fs[i]
<1>1. Contents(fs, <<i>>) = Append(<<>>, fs[i])
  BY DEF Contents
<1>2. <<>> \in Seq(Seq(Events)) /\ fs[i] \in Seq(Events)
  OBVIOUS
<1>3. FlattenSeq(Append(<<>>, fs[i])) = <<>> \o fs[i]
  BY <1>2, FlattenAppend, FlattenEmpty
<1>4. <<>> \o fs[i] = fs[i]
  BY <1>2, ConcatEmptySeq
<1> QED BY <1>1, <1>3, <1>4 DEF Joined

LEMMA JoinedEmpty == ASSUME NEW fs PROVE Joined(fs, <<>>) = <<>>
<1>1. Contents(fs, <<>>) = <<>>
  BY DEF Contents
<1> QED BY <1>1, FlattenEmpty DEF Joined

LEMMA JoinedConcat ==
    ASSUME NEW fs \in [Ids -> Seq(Events)], NEW s \in Seq(Ids), NEW r \in Seq(Ids)
    PROVE  Joined(fs, s \o r) = Joined(fs, s) \o Joined(fs, r)
<1> DEFINE a == Contents(fs, s)
           b == Contents(fs, r)
           c == Contents(fs, s \o r)
<1>1. /\ s \o r \in Seq(Ids) /\ Len(s \o r) = Len(s) + Len(r) /\ Len(s) \in Nat /\ Len(r) \in Nat
      /\ \A i \in 1..Len(s) + Len(r) : (s \o r)[i] = IF i <= Len(s) THEN s[i] ELSE r[i - Len(s)]
  BY ConcatProperties
<1>2. /\ a \in Seq(Seq(Events)) /\ Len(a) = Len(s) /\ \A i \in 1..Len(s) : a[i] = fs[s[i]]
      /\ b \in Seq(Seq(Events)) /\ Len(b) = Len(r) /\ \A i \in 1..Len(r) : b[i] = fs[r[i]]
  BY ContentsType
<1>3. c \in Seq(Seq(Events)) /\ Len(c) = Len(s \o r) /\ \A i \in 1..Len(s \o r) : c[i] = fs[(s \o r)[i]]
  BY <1>1, ContentsType
<1> HIDE DEF a, b, c
<1>4. /\ a \o b \in Seq(Seq(Events)) /\ Len(a \o b) = Len(a) + Len(b)
      /\ \A i \in 1..Len(a) + Len(b) : (a \o b)[i] = IF i <= Len(a) THEN a[i] ELSE b[i - Len(a)]
  BY <1>2, ConcatProperties
<1>5. Len(c) = Len(a \o b) /\ \A i \in 1..Len(c) : c[i] = (a \o b)[i]
  <2>1. Len(c) = Len(s) + Len(r) /\ Len(a \o b) = Len(s) + Len(r)
    BY <1>1, <1>2, <1>3, <1>4
  <2>2. ASSUME NEW i \in 1..Len(s) + Len(r) PROVE c[i] = (a \o b)[i]
    <3>1. CASE i <= Len(s)
      <4>1. i \in 1..Len(s) /\ c[i] = fs[s[i]] /\ (a \o b)[i] = a[i]
        BY <1>1, <1>2, <1>3, <1>4, <3>1
      <4> QED BY <1>2, <4>1
    <3>2. CASE ~(i <= Len(s))
      <4>1. i - Len(s) \in 1..Len(r)
        BY <1>1, <3>2
      <4>2. c[i] = fs[r[i - Len(s)]]
        BY <1>1, <1>3, <3>2
      <4>3. (a \o b)[i] = b[i - Len(s)]
        BY <1>1, <1>2, <1>4, <3>2
      <4> QED BY <1>2, <4>1, <4>2, <4>3
    <3> QED BY <3>1, <3>2
  <2> QED BY <2>1, <2>2
<1>6. c = a \o b
  BY <1>3, <1>4, <1>5, SeqEqual
<1>7. FlattenSeq(a \o b) = FlattenSeq(a) \o FlattenSeq(b)
  BY <1>2, FlattenConcat
<1> QED BY <1>6, <1>7 DEF Joined, a, b, c

LEMMA JoinedSame ==
    ASSUME NEW fs, NEW gs, NEW s \in Seq(Ids), \A i \in 1..Len(s) : fs[s[i]] = gs[s[i]]
    PROVE  Joined(fs, s) = Joined(gs, s)
<1>1. DOMAIN s = 1..Len(s)
  OBVIOUS
<1>2. Contents(fs, s) = Contents(gs, s)
  BY <1>1 DEF Contents
<1> QED BY <1>2 DEF Joined

LEMMA JoinedNothing ==
    ASSUME NEW fs, NEW s \in Seq(Ids), \A i \in 1..Len(s) : fs[s[i]] = <<>>
    PROVE  Joined(fs, s) = <<>>
<1>1. DOMAIN s = 1..Len(s) /\ Len(s) \in Nat
  OBVIOUS
<1>2. Contents(fs, s) \in [1..Len(s) -> {<<>>}]
  BY <1>1 DEF Contents
<1>3. Contents(fs, s) \in Seq({<<>>})
  BY <1>1, <1>2
<1> QED BY <1>3, FlattenNothing DEF Joined

-----------------------------------------------------------------------------
(* The files before the newest one, as checkOldestBatch takes them. *)
EarlierOf(oldest, old) == (IF oldest # NoBatch THEN <<oldest>> ELSE <<>>) \o old
Earlier == EarlierOf(oldestBatch, oldBatches)

IsAscending(s) == \A j, k \in 1..Len(s) : j < k => s[j] < s[k]

(* They are in the order of their numbers, which is the one the constructor
   finds them in. *)
OrderInv == IsAscending(Earlier)

LEMMA EarlierElements ==
    ASSUME Inv
    PROVE  /\ Earlier \in Seq(Ids)
           /\ \A k \in 1..Len(Earlier) : Earlier[k] \in exist \ {newestBatchId}
           /\ \A i \in exist \ {newestBatchId} : \E k \in 1..Len(Earlier) : Earlier[k] = i
<1> USE BatchAssumption
<1>0. /\ oldBatches \in Seq(Ids) /\ oldestBatch \in Ids \cup {NoBatch}
      /\ exist \subseteq Ids /\ OldInv
  BY DEF Inv, TypeOK
<1>1. CASE oldestBatch = NoBatch
  <2>1. Earlier = oldBatches
    BY <1>0, <1>1, ConcatEmptySeq DEF Earlier, EarlierOf
  <2> QED BY <1>0, <1>1, <2>1 DEF OldInv
<1>2. CASE oldestBatch # NoBatch
  <2> DEFINE n == Len(oldBatches)
  <2>1. Earlier = <<oldestBatch>> \o oldBatches /\ oldestBatch \in Ids /\ n \in Nat
    BY <1>0, <1>2 DEF Earlier, EarlierOf
  <2>2. /\ Earlier \in Seq(Ids) /\ Len(Earlier) = 1 + n /\ Earlier[1] = oldestBatch
        /\ \A k \in 1..n : Earlier[k + 1] = oldBatches[k]
    BY <1>0, <2>1
  <2> HIDE DEF n
  <2>3. \A k \in 1..Len(Earlier) : k = 1 \/ (k - 1 \in 1..n /\ Earlier[k] = oldBatches[k - 1])
    BY <2>1, <2>2
  <2>4. \A k \in 1..Len(Earlier) : Earlier[k] \in exist \ {newestBatchId}
    BY <1>0, <1>2, <2>2, <2>3 DEF OldInv, n
  <2>5. ASSUME NEW i \in exist \ {newestBatchId} PROVE \E k \in 1..Len(Earlier) : Earlier[k] = i
    <3>1. CASE i = oldestBatch
      BY <2>1, <2>2, <3>1
    <3>2. CASE \E k \in 1..n : oldBatches[k] = i
      <4>1. PICK k \in 1..n : oldBatches[k] = i
        BY <3>2
      <4>2. k + 1 \in 1..Len(Earlier) /\ Earlier[k + 1] = i
        BY <2>1, <2>2, <4>1
      <4> QED BY <4>2
    <3> QED BY <1>0, <3>1, <3>2 DEF OldInv, n
  <2> QED BY <2>2, <2>4, <2>5
<1> QED BY <1>1, <1>2

LEMMA IdsAreNumbers ==
    ASSUME NEW s \in Seq(Ids), NEW k \in 1..Len(s)
    PROVE  s[k] \in Nat
<1>1. s[k] \in Ids
  OBVIOUS
<1> QED BY <1>1, BatchAssumption DEF Ids

(* Where two enumerations of the same numbers first differ, neither is above the
   other. *)
LEMMA NotAbove ==
    ASSUME NEW a \in Seq(Ids), NEW b \in Seq(Ids), IsAscending(a), IsAscending(b),
           NEW k \in 1..Len(a), \E j \in 1..Len(b) : b[j] = a[k],
           \A j \in 1..Len(b) : j < k => j \in 1..Len(a) /\ a[j] = b[j]
    PROVE  k \in 1..Len(b) /\ b[k] <= a[k]
<1>1. PICK j \in 1..Len(b) : b[j] = a[k]
  OBVIOUS
<1>2. Len(a) \in Nat /\ Len(b) \in Nat /\ a[k] \in Nat
  BY IdsAreNumbers
<1>3. ~(j < k)
  <2> SUFFICES ASSUME j < k PROVE FALSE
    OBVIOUS
  <2>1. j \in 1..Len(a) /\ a[j] = a[k]
    BY <1>1
  <2>2. a[j] < a[k]
    BY <2>1 DEF IsAscending
  <2> QED BY <1>2, <2>1, <2>2
<1>4. k \in 1..Len(b)
  BY <1>2, <1>3
<1>5. CASE j = k
  BY <1>1, <1>2, <1>4, <1>5
<1>6. CASE j # k
  <2>1. k < j
    BY <1>2, <1>3, <1>6
  <2>2. b[k] < a[k] /\ b[k] \in Nat
    BY <1>1, <1>4, <2>1, IdsAreNumbers DEF IsAscending
  <2> QED BY <1>2, <1>4, <2>2
<1> QED BY <1>5, <1>6

(* A set of numbers has one ascending enumeration. *)
LEMMA OneOrder ==
    ASSUME NEW a \in Seq(Ids), NEW b \in Seq(Ids), IsAscending(a), IsAscending(b),
           \A k \in 1..Len(a) : \E j \in 1..Len(b) : b[j] = a[k],
           \A k \in 1..Len(b) : \E j \in 1..Len(a) : a[j] = b[k]
    PROVE  a = b
<1>0. Len(a) \in Nat /\ Len(b) \in Nat
  OBVIOUS
<1> DEFINE Same(k) == k \in 1..Len(a) /\ k \in 1..Len(b) /\ a[k] = b[k]
           B == {k \in Nat : k # 0 /\ (k <= Len(a) \/ k <= Len(b)) /\ ~Same(k)}
<1>1. B = {}
  <2> SUFFICES ASSUME B # {} PROVE FALSE
    OBVIOUS
  <2>1. PICK k \in B : \A j \in B : k <= j
    <3>1. B \in SUBSET Nat
      OBVIOUS
    <3> HIDE DEF B
    <3> QED BY <3>1, LeastNumber
  <2>2. k \in Nat /\ k # 0 /\ (k <= Len(a) \/ k <= Len(b)) /\ ~Same(k)
    OBVIOUS
  <2>3. ASSUME NEW j \in Nat, j # 0, j < k, j <= Len(a) \/ j <= Len(b) PROVE Same(j)
    BY <2>1, <2>3
  <2> HIDE DEF B
  <2>4. /\ \A j \in 1..Len(b) : j < k => j \in 1..Len(a) /\ a[j] = b[j]
        /\ \A j \in 1..Len(a) : j < k => j \in 1..Len(b) /\ b[j] = a[j]
    BY <1>0, <2>3
  <2> HIDE DEF Same
  <2>5. k \in 1..Len(a) => k \in 1..Len(b) /\ b[k] <= a[k]
    BY <2>4, NotAbove
  <2>6. k \in 1..Len(b) => k \in 1..Len(a) /\ a[k] <= b[k]
    BY <2>4, NotAbove
  <2>7. k \in 1..Len(a) \/ k \in 1..Len(b)
    BY <1>0, <2>2
  <2>8. k \in 1..Len(a) /\ k \in 1..Len(b) /\ a[k] <= b[k] /\ b[k] <= a[k]
    BY <2>5, <2>6, <2>7
  <2>9. a[k] \in Nat /\ b[k] \in Nat
    BY <2>8, IdsAreNumbers
  <2>10. a[k] = b[k]
    <3>1. \A x, y \in Nat : x <= y /\ y <= x => x = y
      OBVIOUS
    <3> QED BY <2>8, <2>9, <3>1, Zenon
  <2> QED BY <2>2, <2>8, <2>10 DEF Same
<1>2. \A k \in Nat : k # 0 /\ (k <= Len(a) \/ k <= Len(b)) => Same(k)
  BY <1>1
<1>3. \A k \in 1..Len(a) : k <= Len(b) /\ a[k] = b[k]
  BY <1>0, <1>2
<1>4. \A k \in 1..Len(b) : k <= Len(a)
  BY <1>0, <1>2
<1>5. Len(a) = Len(b)
  <2>1. Len(a) <= Len(b)
    BY <1>0, <1>3
  <2>2. Len(b) <= Len(a)
    BY <1>0, <1>4
  <2> QED BY <1>0, <2>1, <2>2
<1> QED BY <1>3, <1>5, SeqEqual

LEMMA EarlierWith ==
    ASSUME NEW i \in Ids, NEW old \in Seq(Ids)
    PROVE  EarlierOf(i, old) = <<i>> \o old
BY BatchAssumption DEF EarlierOf

LEMMA EarlierWithout ==
    ASSUME NEW old \in Seq(Ids)
    PROVE  EarlierOf(NoBatch, old) = old
BY ConcatEmptySeq DEF EarlierOf

LEMMA AscendingAppend ==
    ASSUME NEW s \in Seq(Ids), NEW i \in Ids, IsAscending(s), \A k \in 1..Len(s) : s[k] < i
    PROVE  IsAscending(Append(s, i))
<1>1. /\ Len(s) \in Nat /\ Len(Append(s, i)) = Len(s) + 1 /\ Append(s, i)[Len(s) + 1] = i
      /\ \A k \in 1..Len(s) : Append(s, i)[k] = s[k]
  OBVIOUS
<1> QED BY <1>1 DEF IsAscending

LEMMA AscendingRest ==
    ASSUME NEW s \in Seq(Ids), NEW n \in Nat, IsAscending(s)
    PROVE  IsAscending(SubSeq(s, n + 1, Len(s)))
<1> DEFINE r == SubSeq(s, n + 1, Len(s))
<1>1. /\ Len(s) \in Nat /\ Len(r) \in Nat /\ \A k \in 1..Len(r) : r[k] = s[k + n] /\ k + n \in 1..Len(s)
  OBVIOUS
<1> HIDE DEF r
<1>2. IsAscending(r)
  <2> SUFFICES ASSUME NEW j \in 1..Len(r), NEW k \in 1..Len(r), j < k PROVE r[j] < r[k]
    BY DEF IsAscending
  <2>1. j + n < k + n
    BY <1>1
  <2>2. s[j + n] < s[k + n]
    BY <1>1, <2>1 DEF IsAscending
  <2> QED BY <1>1, <2>2
<1> QED BY <1>2 DEF r

(* The full file joins the ones before the newest. *)
LEMMA EarlierGrows ==
    ASSUME Inv, NEW e \in Events, AddEventToNextFile(e)
    PROVE  Earlier' = Append(Earlier, newestBatchId)
<1> USE BatchAssumption
<1>0. /\ oldBatches \in Seq(Ids) /\ oldestBatch \in Ids \cup {NoBatch} /\ newestBatchId \in Ids
  BY DEF Inv, TypeOK
<1>1. CASE oldestBatch = NoBatch /\ oldBatches = <<>>
  <2>1. oldestBatch' = newestBatchId /\ oldBatches' = <<>>
    BY <1>1 DEF AddEventToNextFile
  <2>2. Earlier' = <<newestBatchId>>
    <3>1. <<newestBatchId>> \o <<>> = <<newestBatchId>> /\ <<>> \in Seq(Ids)
      BY <1>0, ConcatEmptySeq
    <3>2. EarlierOf(newestBatchId, <<>>) = <<newestBatchId>> \o <<>>
      BY <1>0, <3>1, EarlierWith
    <3> QED BY <2>1, <3>1, <3>2 DEF Earlier
  <2>3. Earlier = <<>>
    BY <1>0, <1>1, EarlierWithout DEF Earlier
  <2> QED BY <2>2, <2>3
<1>2. CASE ~(oldestBatch = NoBatch /\ oldBatches = <<>>)
  <2>1. oldestBatch' = oldestBatch /\ oldBatches' = Append(oldBatches, newestBatchId)
    BY <1>2 DEF AddEventToNextFile
  <2>2. oldBatches' \in Seq(Ids)
    BY <1>0, <2>1
  <2>3. CASE oldestBatch = NoBatch
    BY <1>0, <2>1, <2>2, <2>3, EarlierWithout DEF Earlier
  <2>4. CASE oldestBatch # NoBatch
    <3>1. <<oldestBatch>> \in Seq(Ids) /\ oldestBatch \in Ids
      BY <1>0, <2>4
    <3>2. <<oldestBatch>> \o Append(oldBatches, newestBatchId)
            = Append(<<oldestBatch>> \o oldBatches, newestBatchId)
      BY <1>0, <3>1, ConcatOfAppend
    <3>3. Earlier = <<oldestBatch>> \o oldBatches
      BY <1>0, <3>1, EarlierWith DEF Earlier
    <3>4. Earlier' = <<oldestBatch>> \o Append(oldBatches, newestBatchId)
      BY <2>1, <2>2, <3>1, EarlierWith DEF Earlier
    <3> QED BY <3>2, <3>3, <3>4
  <2> QED BY <2>3, <2>4
<1> QED BY <1>1, <1>2

(* checkOldestBatch drops empty files from the beginning. *)
LEMMA EarlierShrinks ==
    ASSUME Inv, CheckOldestBatch
    PROVE  \E k \in 0..Len(Earlier) : /\ Earlier' = SubSeq(Earlier, k + 1, Len(Earlier))
                                    /\ \A i \in 1..k : files[Earlier[i]] = <<>>
<1>0. oldBatches \in Seq(Ids) /\ oldestBatch \in Ids \cup {NoBatch} /\ Earlier \in Seq(Ids)
  BY EarlierElements DEF Inv, TypeOK
<1>1. CASE oldestBatch # NoBatch
  <2>1. Earlier' = Earlier
    BY <1>1 DEF CheckOldestBatch, Earlier
  <2>2. Earlier = SubSeq(Earlier, 0 + 1, Len(Earlier)) /\ 0 \in 0..Len(Earlier)
    BY <1>0, SubSeqFull
  <2>3. \A i \in 1..0 : files[Earlier[i]] = <<>>
    OBVIOUS
  <2> QED BY <2>1, <2>2, <2>3
<1>2. CASE oldestBatch = NoBatch
  <2> DEFINE n == Len(oldBatches)
  <2>1. PICK k \in 0..n :
            /\ \A i \in 1..k : files[oldBatches[i]] = <<>>
            /\ oldestBatch' = IF k < n THEN oldBatches[k + 1] ELSE NoBatch
            /\ oldBatches' = IF k < n THEN SubSeq(oldBatches, k + 2, n) ELSE <<>>
    BY <1>2 DEF CheckOldestBatch
  <2>2. Earlier = oldBatches /\ n \in Nat
    BY <1>0, <1>2, EarlierWithout DEF Earlier
  <2>3. Earlier' = SubSeq(oldBatches, k + 1, n)
    <3>1. CASE k < n
      <4>1. k + 1 \in 1..n /\ n \in (k + 1)..n /\ oldBatches[k + 1] \in Ids
            /\ SubSeq(oldBatches, k + 2, n) \in Seq(Ids) /\ k + 1 + 1 = k + 2
        BY <1>0, <2>2, <3>1
      <4>2. SubSeq(oldBatches, k + 1, n) = <<oldBatches[k + 1]>> \o SubSeq(oldBatches, k + 2, n)
        <5>1. SubSeq(oldBatches, k + 1, n)
                = <<oldBatches[k + 1]>> \o SubSeq(oldBatches, k + 1 + 1, n)
          BY <1>0, <4>1, SubSeqRecursiveFirst
        <5> QED BY <4>1, <5>1
      <4>3. oldestBatch' = oldBatches[k + 1] /\ oldBatches' = SubSeq(oldBatches, k + 2, n)
        BY <2>1, <3>1
      <4> HIDE DEF n
      <4> QED BY <4>1, <4>2, <4>3, EarlierWith DEF Earlier
    <3>2. CASE ~(k < n)
      <4>1. SubSeq(oldBatches, k + 1, n) = <<>>
        BY <2>2, <3>2, SubSeqEmpty
      <4>2. oldestBatch' = NoBatch /\ oldBatches' = <<>>
        BY <2>1, <3>2
      <4>3. <<>> \in Seq(Ids)
        OBVIOUS
      <4> QED BY <4>1, <4>2, <4>3, EarlierWithout DEF Earlier
    <3> QED BY <3>1, <3>2
  <2> QED BY <2>1, <2>2, <2>3
<1> QED BY <1>1, <1>2

LEMMA EarlierUploaded ==
    ASSUME Inv, OnEventsUploaded
    PROVE  \/ Earlier' = Earlier
           \/ /\ oldestBatch \in Ids /\ oldestBatch' = NoBatch
              /\ Earlier = <<oldestBatch>> \o oldBatches /\ Earlier' = oldBatches
<1>0. oldBatches \in Seq(Ids) /\ oldestBatch \in Ids \cup {NoBatch} /\ oldBatches' = oldBatches
  BY DEF Inv, TypeOK, OnEventsUploaded
<1>1. oldestBatch' = oldestBatch \/ (oldestBatch # NoBatch /\ oldestBatch' = NoBatch)
  BY DEF OnEventsUploaded
<1> QED BY <1>0, <1>1, EarlierWith, EarlierWithout DEF Earlier

(* The constructor finds the files in the order they had. *)
LEMMA EarlierFound ==
    ASSUME Inv, OrderInv, Restart
    PROVE  Earlier' = Earlier /\ newestBatchId' = newestBatchId
<1>1. /\ newestBatchId' = newestBatchId /\ newestBatchId \in exist
      /\ exist \subseteq Ids
  <2>1. /\ newestBatchId' \in exist /\ newestBatchId \in exist /\ exist \subseteq Ids
        /\ newestBatchId' <= newestBatchId /\ newestBatchId <= newestBatchId'
    BY DEF Restart, Inv, TypeOK, FilesInv
  <2> QED BY <2>1, BatchAssumption DEF Ids
<1> DEFINE S == exist \ {newestBatchId}
<1>2. S \in SUBSET Ids /\ oldBatches' \in Ascending(S) /\ oldestBatch' = NoBatch
  BY <1>1 DEF Restart
<1>3. /\ Earlier \in Seq(Ids) /\ IsAscending(Earlier)
      /\ \A k \in 1..Len(Earlier) : Earlier[k] \in S
      /\ \A i \in S : \E k \in 1..Len(Earlier) : Earlier[k] = i
  BY EarlierElements DEF OrderInv
<1> HIDE DEF S
<1>4. /\ oldBatches' \in Seq(S)
      /\ \A i \in S : \E k \in 1..Len(oldBatches') : oldBatches'[k] = i
  BY <1>2, AscendingEnumerates
<1>5. \A k \in 1..Len(oldBatches') : oldBatches'[k] \in S
  BY <1>4
<1>6. oldBatches' \in Seq(Ids)
  BY <1>2, <1>4, SeqMonotonic
<1>7. IsAscending(oldBatches')
  <2>1. oldBatches' \in [1..Cardinality(S) -> S]
        /\ \A i, j \in 1..Cardinality(S) : i < j => oldBatches'[i] < oldBatches'[j]
    BY <1>2 DEF Ascending
  <2>2. 1..Len(oldBatches') = 1..Cardinality(S)
    BY <1>4, <2>1, LenProperties
  <2> QED BY <2>1, <2>2 DEF IsAscending
<1>8. oldBatches' = Earlier
  BY <1>3, <1>4, <1>5, <1>6, <1>7, OneOrder
<1> QED BY <1>1, <1>2, <1>6, <1>8, EarlierWithout DEF Earlier

LEMMA OrderStep ==
    ASSUME Inv, OrderInv, [Next]_vars
    PROVE  OrderInv'
<1>0. Earlier \in Seq(Ids) /\ IsAscending(Earlier)
  BY EarlierElements DEF OrderInv
<1>1. ASSUME UNCHANGED <<oldestBatch, oldBatches>> PROVE OrderInv'
  BY <1>1 DEF OrderInv, Earlier
<1>2. ASSUME NEW e \in Events, AddEventToNextFile(e) PROVE OrderInv'
  <2>1. newestBatchId \in Ids /\ \A i \in exist : i <= newestBatchId /\ i \in Nat
    BY BatchAssumption DEF Inv, TypeOK, FilesInv, Ids
  <2>2. ASSUME NEW k \in 1..Len(Earlier) PROVE Earlier[k] < newestBatchId
    <3>1. Earlier[k] \in exist /\ Earlier[k] # newestBatchId
      BY EarlierElements
    <3> QED BY <2>1, <3>1, BatchAssumption DEF Ids
  <2>3. Earlier' = Append(Earlier, newestBatchId)
    BY <1>2, EarlierGrows
  <2> QED BY <1>0, <2>1, <2>2, <2>3, AscendingAppend DEF OrderInv
<1>3. ASSUME CheckOldestBatch PROVE OrderInv'
  <2>1. PICK k \in 0..Len(Earlier) : Earlier' = SubSeq(Earlier, k + 1, Len(Earlier))
    BY <1>3, EarlierShrinks
  <2>2. k \in Nat
    OBVIOUS
  <2> QED BY <1>0, <2>1, <2>2, AscendingRest DEF OrderInv
<1>4. CASE OnEventsUploaded
  <2>1. CASE Earlier' = Earlier
    BY <1>0, <2>1 DEF OrderInv
  <2>2. CASE Earlier' = oldBatches /\ Earlier = <<oldestBatch>> \o oldBatches /\ oldestBatch \in Ids
    <3>1. oldBatches \in Seq(Ids)
      BY DEF Inv, TypeOK
    <3>2. /\ Len(Earlier) = 1 + Len(oldBatches) /\ Len(oldBatches) \in Nat
          /\ \A k \in 1..Len(oldBatches) : Earlier[k + 1] = oldBatches[k] /\ k + 1 \in 1..Len(Earlier)
      BY <2>2, <3>1
    <3>3. IsAscending(oldBatches)
      <4> SUFFICES ASSUME NEW j \in 1..Len(oldBatches), NEW k \in 1..Len(oldBatches), j < k
                   PROVE  oldBatches[j] < oldBatches[k]
        BY DEF IsAscending
      <4>1. Earlier[j + 1] < Earlier[k + 1]
        <5>1. j + 1 < k + 1
          BY <3>2
        <5> QED BY <1>0, <3>2, <5>1 DEF IsAscending
      <4> QED BY <3>2, <4>1
    <3> QED BY <2>2, <3>3 DEF OrderInv
  <2> QED BY <1>4, <2>1, <2>2, EarlierUploaded
<1>5. CASE Restart
  BY <1>0, <1>5, EarlierFound DEF OrderInv
<1>6. ASSUME NEW e \in Events, AddEvent(e) PROVE OrderInv'
  BY <1>1, <1>6 DEF AddEvent
<1>7. ASSUME NEW a \in UploadArgs, GetEventsForUpload(a) PROVE OrderInv'
  BY <1>3, <1>7 DEF GetEventsForUpload
<1>8. CASE DropList \/ SetFileLimits \/ UNCHANGED vars
  BY <1>1, <1>8 DEF DropList, SetFileLimits, vars
<1> QED BY <1>2, <1>4, <1>5, <1>6, <1>7, <1>8 DEF Next

-----------------------------------------------------------------------------
(* The queue and the handed-out events of EventBatch. *)
Queue == Joined(files, AllFiles)
Handed == IF list = NoList THEN 0 ELSE Len(list)

QueueForm ==
    /\ files \in [Ids -> Seq(Events)] /\ newestBatchId \in Ids /\ Earlier \in Seq(Ids)
    /\ AllFiles = Earlier \o <<newestBatchId>> /\ AllFiles \in Seq(Ids)
    /\ Joined(files, Earlier) \in Seq(Events)
    /\ Queue = Joined(files, Earlier) \o files[newestBatchId]
    /\ Queue \in Seq(Events)

LEMMA QueueIs == Inv => QueueForm
<1> SUFFICES ASSUME Inv PROVE QueueForm
  OBVIOUS
<1>1. files \in [Ids -> Seq(Events)] /\ newestBatchId \in Ids /\ Earlier \in Seq(Ids)
  BY EarlierElements DEF Inv, TypeOK
<1>2. AllFiles = Earlier \o <<newestBatchId>>
  BY DEF AllFiles, Earlier, EarlierOf
<1>3. <<newestBatchId>> \in Seq(Ids)
  BY <1>1
<1>4. AllFiles \in Seq(Ids)
  BY <1>1, <1>2, <1>3, ConcatProperties
<1>5. Joined(files, Earlier \o <<newestBatchId>>) = Joined(files, Earlier) \o Joined(files, <<newestBatchId>>)
  BY <1>1, <1>3, JoinedConcat
<1>6. Joined(files, <<newestBatchId>>) = files[newestBatchId]
  BY <1>1, JoinedOne
<1>7. Queue \in Seq(Events) /\ Joined(files, Earlier) \in Seq(Events)
  BY <1>1, <1>4, JoinedType DEF Queue
<1> QED BY <1>1, <1>2, <1>4, <1>5, <1>6, <1>7 DEF Queue, QueueForm

LEMMA NextQueueIs == Inv' => QueueForm'
BY QueueIs, PTL

LEMMA AppendToLast ==
    ASSUME NEW a \in Seq(Events), NEW b \in Seq(Events), NEW e \in Events, NEW q, NEW r,
           q = a \o b, r = a \o Append(b, e)
    PROVE  r = Append(q, e)
<1>1. a \o Append(b, e) = Append(a \o b, e)
  BY ConcatOfAppend
<1> QED BY <1>1

LEMMA RefinesAddEvent ==
    ASSUME Inv, NEW e \in Events, AddEvent(e)
    PROVE  Batch!AddEvent(e)
<1>1. /\ files' = [files EXCEPT ![newestBatchId] = Append(@, e)] /\ UNCHANGED newestBatchId
      /\ UNCHANGED <<oldestBatch, oldBatches, list>>
  BY DEF AddEvent
<1>2. Inv'
  BY AddEventInv
<1>3. Earlier' = Earlier /\ Handed' = Handed
  BY <1>1 DEF Earlier, Handed
<1>4. /\ Earlier \in Seq(Ids) /\ \A k \in 1..Len(Earlier) : Earlier[k] \in Ids \ {newestBatchId}
      /\ files[newestBatchId] \in Seq(Events)
  BY EarlierElements DEF Inv, TypeOK
<1>5. /\ files'[newestBatchId] = Append(files[newestBatchId], e)
      /\ \A k \in 1..Len(Earlier) : files'[Earlier[k]] = files[Earlier[k]]
  BY <1>1, <1>4, QueueIs DEF QueueForm
<1>6. Joined(files', Earlier) = Joined(files, Earlier)
  BY <1>4, <1>5, JoinedSame
<1>7. Queue' = Joined(files, Earlier) \o Append(files[newestBatchId], e)
  BY <1>1, <1>2, <1>3, <1>5, <1>6, NextQueueIs DEF QueueForm
<1>8. Queue' = Append(Queue, e)
  <2>1. Joined(files, Earlier) \in Seq(Events) /\ Queue = Joined(files, Earlier) \o files[newestBatchId]
    BY QueueIs DEF QueueForm
  <2> QED BY <1>4, <1>7, <2>1, AppendToLast
<1> QED BY <1>3, <1>8 DEF Batch!AddEvent, Queue, Joined, Contents, Handed

LEMMA AllFilesExist ==
    ASSUME Inv
    PROVE  \A k \in 1..Len(AllFiles) : AllFiles[k] \in exist
<1>1. /\ AllFiles = Earlier \o <<newestBatchId>> /\ Earlier \in Seq(Ids) /\ newestBatchId \in Ids
      /\ newestBatchId \in exist
  BY QueueIs DEF QueueForm, Inv, FilesInv
<1>2. \A k \in 1..Len(Earlier) : Earlier[k] \in exist
  BY EarlierElements
<1>3. /\ Len(AllFiles) = Len(Earlier) + 1 /\ AllFiles[Len(Earlier) + 1] = newestBatchId
      /\ \A k \in 1..Len(Earlier) : AllFiles[k] = Earlier[k]
  BY <1>1
<1> QED BY <1>1, <1>2, <1>3

LEMMA RefinesAddEventToNextFile ==
    ASSUME Inv, NEW e \in Events, AddEventToNextFile(e)
    PROVE  Batch!AddEvent(e) \/ UNCHANGED Batch!vars
<1> DEFINE next == newestBatchId + 1
<1> USE BatchAssumption
<1>1. /\ newestBatchId' = next /\ next \in Ids /\ list' = list
      /\ files' = [files EXCEPT ![next] = IF CanAddEvent(@, e) THEN Append(@, e) ELSE @]
  BY DEF AddEventToNextFile
<1>2. next \notin exist /\ files[next] = <<>>
  <2>1. newestBatchId \in Ids /\ \A i \in exist : i <= newestBatchId /\ i \in Ids
    BY DEF Inv, TypeOK, FilesInv
  <2>2. next \notin exist
    BY <2>1 DEF Ids
  <2> QED BY <1>1, <2>2 DEF Inv, FilesInv
<1> HIDE DEF next
<1>3. Inv' /\ QueueForm /\ QueueForm' /\ Handed' = Handed
  BY <1>1, AddEventToNextFileInv, QueueIs, NextQueueIs DEF Handed
<1>4. files'[next] \in {<<>>, <<e>>} /\ \A i \in Ids : i # next => files'[i] = files[i]
  BY <1>1, <1>2, <1>3 DEF QueueForm
<1>5. Earlier' = AllFiles
  BY <1>3, EarlierGrows, AppendIsConcat DEF QueueForm
<1>6. Joined(files', AllFiles) = Queue
  <2>1. AllFiles \in Seq(Ids) /\ \A k \in 1..Len(AllFiles) : AllFiles[k] \in Ids /\ AllFiles[k] # next
    <3>1. AllFiles \in Seq(Ids) /\ exist \subseteq Ids
      BY <1>3 DEF QueueForm, Inv, TypeOK
    <3> QED BY <1>2, <3>1, AllFilesExist
  <2>2. \A k \in 1..Len(AllFiles) : files'[AllFiles[k]] = files[AllFiles[k]]
    BY <1>4, <2>1
  <2> QED BY <2>1, <2>2, JoinedSame DEF Queue
<1>7. Queue' = Queue \o files'[next] /\ Queue \in Seq(Events)
  BY <1>1, <1>3, <1>5, <1>6 DEF QueueForm
<1>8. CASE files'[next] = <<>>
  <2>1. Queue' = Queue
    BY <1>7, <1>8, ConcatEmptySeq
  <2> QED BY <1>3, <2>1 DEF Batch!vars, Queue, Joined, Contents, Handed
<1>9. CASE files'[next] = <<e>>
  <2>1. Queue' = Append(Queue, e)
    BY <1>7, <1>9, AppendIsConcat
  <2> QED BY <1>3, <2>1 DEF Batch!AddEvent, Queue, Joined, Contents, Handed
<1> QED BY <1>4, <1>8, <1>9

(* What is behind the file that uploads come from. *)
Rest == IF oldestBatch = NoBatch THEN <<>> ELSE Joined(files, oldBatches \o <<newestBatchId>>)

HeadForm ==
    (oldestBatch = NoBatch => oldBatches = <<>>)
        => /\ Rest \in Seq(Events) /\ files[Target] \in Seq(Events)
           /\ Queue = files[Target] \o Rest

LEMMA HeadIs == Inv => HeadForm
<1> SUFFICES ASSUME Inv, oldestBatch = NoBatch => oldBatches = <<>>
             PROVE  /\ Rest \in Seq(Events) /\ files[Target] \in Seq(Events)
                    /\ Queue = files[Target] \o Rest
  BY DEF HeadForm
<1>0. /\ oldBatches \in Seq(Ids) /\ oldestBatch \in Ids \cup {NoBatch} /\ newestBatchId \in Ids
      /\ files \in [Ids -> Seq(Events)] /\ <<newestBatchId>> \in Seq(Ids) /\ QueueForm
  BY QueueIs DEF Inv, TypeOK
<1>1. CASE oldestBatch = NoBatch
  <2>1. Earlier = <<>> /\ Target = newestBatchId /\ Rest = <<>>
    BY <1>0, <1>1, EarlierWithout DEF Earlier, Target, Rest
  <2>2. files[newestBatchId] \in Seq(Events) /\ <<>> \in Seq(Events)
    BY <1>0
  <2>3. Queue = <<>> \o files[newestBatchId]
    BY <1>0, <2>1, JoinedEmpty DEF QueueForm
  <2>4. <<>> \o files[newestBatchId] = files[newestBatchId]
        /\ files[newestBatchId] \o <<>> = files[newestBatchId]
    BY <2>2, ConcatEmptySeq
  <2> QED BY <2>1, <2>2, <2>3, <2>4
<1>2. CASE oldestBatch # NoBatch
  <2> DEFINE r == oldBatches \o <<newestBatchId>>
             h == <<oldestBatch>>
  <2>1. /\ oldestBatch \in Ids /\ Target = oldestBatch /\ Rest = Joined(files, r)
        /\ r \in Seq(Ids) /\ h \in Seq(Ids) /\ files[oldestBatch] \in Seq(Events)
    BY <1>0, <1>2, ConcatProperties DEF Target, Rest
  <2>2. Associates(h, oldBatches, <<newestBatchId>>)
    BY <1>0, <2>1, ConcatAssociates
  <2>3. AllFiles = h \o r
    BY <1>0, <2>1, <2>2, EarlierWith DEF Associates, QueueForm, Earlier
  <2> HIDE DEF r, h
  <2>4. Joined(files, h \o r) = Joined(files, h) \o Joined(files, r) /\ Joined(files, r) \in Seq(Events)
    BY <1>0, <2>1, JoinedConcat, JoinedType
  <2>5. Joined(files, h) = files[oldestBatch]
    BY <1>0, <2>1, JoinedOne DEF h
  <2> QED BY <2>1, <2>3, <2>4, <2>5 DEF Queue
<1> QED BY <1>1, <1>2

LEMMA NextHeadIs == Inv' => HeadForm'
BY HeadIs, PTL

LEMMA AfterConcat ==
    ASSUME NEW S, NEW a \in Seq(S), NEW b \in Seq(S)
    PROVE  /\ SubSeq(a \o b, Len(a) + 1, Len(a \o b)) = b
           /\ Len(a) \in 0..Len(a \o b)
<1> DEFINE c == a \o b
           r == SubSeq(c, Len(a) + 1, Len(c))
<1>1. /\ Len(a) \in Nat /\ Len(b) \in Nat /\ c \in Seq(S) /\ Len(c) = Len(a) + Len(b)
      /\ \A i \in 1..Len(a) + Len(b) : c[i] = IF i <= Len(a) THEN a[i] ELSE b[i - Len(a)]
  BY ConcatProperties
<1> HIDE DEF c
<1>2. r \in Seq(S) /\ Len(r) = Len(b) /\ \A i \in 1..Len(r) : r[i] = c[i + Len(a)]
  BY <1>1
<1>3. \A i \in 1..Len(r) : r[i] = b[i]
  BY <1>1, <1>2
<1> HIDE DEF r
<1>4. r = b
  BY <1>2, <1>3, SeqEqual
<1> QED BY <1>1, <1>4 DEF c, r

LEMMA RefinesGetEventsForUpload ==
    ASSUME Inv, NEW a \in UploadArgs, GetEventsForUpload(a)
    PROVE  Batch!Next
<1>1. /\ list = NoList /\ CheckOldestBatch /\ UNCHANGED <<files, newestBatchId>>
  BY DEF GetEventsForUpload
<1>2. Inv' /\ QueueForm /\ QueueForm' /\ HeadForm'
  BY GetEventsForUploadInv, QueueIs, NextQueueIs, NextHeadIs
<1>3. PICK k \in 0..Len(Earlier) : /\ Earlier' = SubSeq(Earlier, k + 1, Len(Earlier))
                                   /\ \A i \in 1..k : files[Earlier[i]] = <<>>
  BY <1>1, EarlierShrinks
<1> DEFINE p == SubSeq(Earlier, 1, k)
<1>4. /\ Earlier \in Seq(Ids) /\ Len(Earlier) \in Nat /\ Earlier' \in Seq(Ids)
      /\ p \in Seq(Ids) /\ Len(p) = k /\ \A i \in 1..k : p[i] = Earlier[i]
  BY <1>2 DEF QueueForm
<1>5. Earlier = p \o Earlier'
  <2>1. 1 \in 1..Len(Earlier) + 1 /\ k \in 1 - 1..Len(Earlier) /\ Len(Earlier) \in k..Len(Earlier)
    BY <1>4
  <2>2. SubSeq(Earlier, 1, k) \o SubSeq(Earlier, k + 1, Len(Earlier)) = SubSeq(Earlier, 1, Len(Earlier))
    BY <1>4, <2>1, ConcatAdjacentSubSeq
  <2> QED BY <1>3, <1>4, <2>2, SubSeqFull
<1> HIDE DEF p
<1>6. Joined(files, Earlier) = Joined(files, Earlier')
  <2>1. Joined(files, p \o Earlier') = Joined(files, p) \o Joined(files, Earlier')
    BY <1>2, <1>4, JoinedConcat DEF QueueForm
  <2>2. Joined(files, p) = <<>>
    BY <1>3, <1>4, JoinedNothing
  <2>3. <<>> \o Joined(files, Earlier') = Joined(files, Earlier')
    BY <1>2, <1>4, JoinedType, ConcatEmptySeq DEF QueueForm
  <2> QED BY <1>5, <2>1, <2>2, <2>3
<1>7. Queue' = Queue /\ Queue \in Seq(Events)
  BY <1>1, <1>2, <1>6 DEF QueueForm
<1>8. Handed' \in 0..Len(Queue)
  <2>1. Len(Queue) \in Nat
    BY <1>7
  <2>2. CASE list' = NoList
    BY <2>1, <2>2 DEF Handed
  <2>3. CASE list' # NoList
    <3>1. PICK n \in 0..Len(files[Target']) : list' = SubSeq(files[Target'], 1, n)
      BY <1>1, <2>3 DEF GetEventsForUpload
    <3>2. Rest' \in Seq(Events) /\ files'[Target'] \in Seq(Events) /\ Queue' = files'[Target'] \o Rest'
      BY <1>2, <2>3 DEF HeadForm, Inv, ListInv
    <3>3. files[Target'] \in Seq(Events) /\ Queue = files[Target'] \o Rest'
      BY <1>1, <1>7, <3>2
    <3>4. Len(files[Target']) \in 0..Len(Queue)
      BY <3>2, <3>3, AfterConcat
    <3>5. Len(list') = n
      BY <3>1, <3>3
    <3> QED BY <2>1, <2>3, <3>1, <3>3, <3>4, <3>5 DEF Handed
  <2> QED BY <2>2, <2>3
<1>9. Batch!GetEventsForUpload(Handed')
  BY <1>7 DEF Batch!GetEventsForUpload, Queue, Joined, Contents, Handed
<1>10. \E n \in 0..Len(Queue) : Batch!GetEventsForUpload(n)
  BY <1>8, <1>9
<1> QED BY <1>10 DEF Batch!Next, Queue, Joined, Contents

LEMMA RestOfPrefix ==
    ASSUME NEW S, NEW p \in Seq(S), NEW s \in Seq(S), IsPrefix(p, s)
    PROVE  s = p \o SubSeq(s, Len(p) + 1, Len(s))
<1>1. Len(p) \in Nat /\ Len(s) \in Nat /\ Len(p) <= Len(s) /\ SubSeq(s, 1, Len(p)) = p
  <2>1. Len(p) <= Len(s) /\ SubSeq(p, 1, Len(p)) = SubSeq(s, 1, Len(p))
    BY DEF IsPrefix
  <2> QED BY <2>1, SubSeqFull
<1>2. 1 \in 1..Len(s) + 1 /\ Len(p) \in 1 - 1..Len(s) /\ Len(s) \in Len(p)..Len(s)
  BY <1>1
<1>3. SubSeq(s, 1, Len(p)) \o SubSeq(s, Len(p) + 1, Len(s)) = SubSeq(s, 1, Len(s))
  BY <1>2, ConcatAdjacentSubSeq
<1> QED BY <1>1, <1>3, SubSeqFull

LEMMA RefinesOnEventsUploaded ==
    ASSUME Inv, OnEventsUploaded
    PROVE  Batch!OnEventsUploaded
<1> USE BatchAssumption
<1> DEFINE rest == SubSeq(files[Target], Len(list) + 1, Len(files[Target]))
           tail == oldBatches \o <<newestBatchId>>
<1>0. /\ Target \in Ids /\ list \in Seq(Events) /\ list # NoList
      /\ oldBatches \in Seq(Ids) /\ oldestBatch \in Ids \cup {NoBatch} /\ newestBatchId \in Ids
  BY DEF OnEventsUploaded, Inv, TypeOK, Target
<1>1. /\ files' = [files EXCEPT ![Target] = rest] /\ list' = NoList
      /\ UNCHANGED <<oldBatches, newestBatchId>>
      /\ IF oldestBatch # NoBatch /\ rest = <<>> THEN oldestBatch' = NoBatch
                                                 ELSE oldestBatch' = oldestBatch
  BY DEF OnEventsUploaded
<1>2. IsPrefix(list, files[Target]) /\ (oldestBatch = NoBatch => oldBatches = <<>>)
  BY <1>0 DEF Inv, ListInv
<1>3. /\ Rest \in Seq(Events) /\ files[Target] \in Seq(Events) /\ Queue = files[Target] \o Rest
      /\ QueueForm /\ Inv' /\ QueueForm' /\ HeadForm'
  BY <1>2, HeadIs, NextHeadIs, QueueIs, NextQueueIs, OnEventsUploadedInv DEF HeadForm
<1>4. files[Target] = list \o rest /\ rest \in Seq(Events)
  <2>1. Len(list) \in Nat
    BY <1>0
  <2> QED BY <1>0, <1>2, <1>3, <2>1, RestOfPrefix, RestIsSeq
<1> HIDE DEF rest
<1>5. files'[Target] = rest /\ \A i \in Ids : i # Target => files'[i] = files[i]
  BY <1>0, <1>1, <1>3 DEF QueueForm
<1>6. Queue = list \o (rest \o Rest)
  <2>1. Associates(list, rest, Rest)
    BY <1>0, <1>3, <1>4, ConcatAssociates
  <2> QED BY <1>3, <1>4, <2>1 DEF Associates
<1>7. SubSeq(Queue, Len(list) + 1, Len(Queue)) = rest \o Rest
  <2>1. rest \o Rest \in Seq(Events)
    BY <1>3, <1>4, ConcatProperties
  <2> QED BY <1>0, <1>6, <2>1, AfterConcat
<1>8. oldestBatch # NoBatch => Joined(files', tail) = Rest /\ tail \in Seq(Ids)
  <2> SUFFICES ASSUME oldestBatch # NoBatch PROVE Joined(files', tail) = Joined(files, tail) /\ tail \in Seq(Ids)
    BY DEF Rest
  <2>1. /\ tail \in Seq(Ids) /\ Len(tail) = Len(oldBatches) + 1 /\ Len(oldBatches) \in Nat
        /\ tail[Len(oldBatches) + 1] = newestBatchId
        /\ \A k \in 1..Len(oldBatches) : tail[k] = oldBatches[k]
    BY <1>0
  <2>2. Target = oldestBatch
    BY DEF Target
  <2>3. newestBatchId # Target /\ \A k \in 1..Len(oldBatches) : oldBatches[k] # Target
    BY <2>2 DEF Inv, OldInv
  <2> HIDE DEF tail
  <2>4. \A k \in 1..Len(tail) : tail[k] \in Ids /\ tail[k] # Target
    BY <2>1, <2>3
  <2>5. \A k \in 1..Len(tail) : files'[tail[k]] = files[tail[k]]
    BY <1>5, <2>4
  <2> QED BY <2>1, <2>5, JoinedSame
<1>9. Queue' = rest \o Rest
  <2>1. CASE oldestBatch = NoBatch
    <3>1. oldestBatch' = NoBatch /\ oldBatches' = <<>> /\ Target' = Target
      BY <1>1, <1>2, <2>1 DEF Target
    <3>2. Queue' = files'[Target'] \o Rest' /\ Rest' = <<>> /\ Rest = <<>>
      BY <1>3, <2>1, <3>1 DEF HeadForm, Rest
    <3> QED BY <1>5, <3>1, <3>2
  <2>2. CASE oldestBatch # NoBatch /\ rest # <<>>
    <3>1. oldestBatch' = oldestBatch /\ oldestBatch' # NoBatch /\ Target' = Target
      BY <1>1, <2>2 DEF Target
    <3>2. Queue' = files'[Target'] \o Rest' /\ Rest' = Joined(files', tail)
      BY <1>1, <1>3, <3>1 DEF HeadForm, Rest
    <3> QED BY <1>5, <1>8, <2>2, <3>1, <3>2
  <2>3. CASE oldestBatch # NoBatch /\ rest = <<>>
    <3>1. Earlier' = oldBatches
      BY <1>0, <1>1, <2>3, EarlierWithout DEF Earlier
    <3>2. AllFiles' = tail
      BY <1>1, <1>3, <3>1 DEF QueueForm
    <3>3. Queue' = Rest
      BY <1>8, <2>3, <3>2 DEF Queue
    <3>4. <<>> \o Rest = Rest
      BY <1>3, ConcatEmptySeq
    <3> QED BY <2>3, <3>3, <3>4
  <2> QED BY <2>1, <2>2, <2>3
<1>10. Handed = Len(list) /\ Handed' = 0
  BY <1>0, <1>1 DEF Handed
<1> QED BY <1>7, <1>9, <1>10 DEF Batch!OnEventsUploaded, Queue, Joined, Contents, Handed

LEMMA RefinesRestart ==
    ASSUME Inv, OrderInv, Restart
    PROVE  Batch!DropList
<1>1. Earlier' = Earlier /\ newestBatchId' = newestBatchId /\ files' = files /\ list' = NoList
  BY EarlierFound DEF Restart
<1>2. Queue' = Queue
  BY <1>1, RestartInv, QueueIs, NextQueueIs DEF QueueForm
<1>3. Handed' = 0
  BY <1>1 DEF Handed
<1> QED BY <1>2, <1>3 DEF Batch!DropList, Queue, Joined, Contents, Handed

LEMMA BatchStep ==
    ASSUME Inv, OrderInv, [Next]_vars
    PROVE  [Batch!Next]_(Batch!vars)
<1>1. ASSUME NEW e \in Events, AddEvent(e) PROVE Batch!Next
  BY <1>1, RefinesAddEvent DEF Batch!Next
<1>2. ASSUME NEW e \in Events, AddEventToNextFile(e) PROVE [Batch!Next]_(Batch!vars)
  BY <1>2, RefinesAddEventToNextFile DEF Batch!Next
<1>3. ASSUME NEW a \in UploadArgs, GetEventsForUpload(a) PROVE Batch!Next
  BY <1>3, RefinesGetEventsForUpload
<1>4. CASE OnEventsUploaded
  BY <1>4, RefinesOnEventsUploaded DEF Batch!Next
<1>5. CASE Restart
  BY <1>5, RefinesRestart DEF Batch!Next
<1>6. ASSUME UNCHANGED <<files, oldestBatch, oldBatches, newestBatchId>> PROVE Queue' = Queue
  BY <1>6 DEF Queue, AllFiles
<1>7. CASE DropList
  <2>1. Queue' = Queue /\ Handed' = 0
    BY <1>6, <1>7 DEF DropList, Handed
  <2>2. Batch!DropList
    BY <2>1 DEF Batch!DropList, Queue, Joined, Contents, Handed
  <2> QED BY <2>2 DEF Batch!Next
<1>8. CASE SetFileLimits \/ UNCHANGED vars
  <2>1. Queue' = Queue /\ Handed' = Handed
    BY <1>6, <1>8 DEF SetFileLimits, vars, Handed
  <2> QED BY <2>1 DEF Batch!vars, Queue, Joined, Contents, Handed
<1> QED BY <1>1, <1>2, <1>3, <1>4, <1>5, <1>7, <1>8 DEF Next

(* The files together are the FIFO batch of EventBatch: no event is lost, taken
   out of order or removed unsent by addEvent, getEventsForUpload,
   onEventsUploaded or the constructor, over any number of files. *)
THEOREM RefinesEventBatch == Spec => ImplementsEventBatch
<1>1. ASSUME Init PROVE Batch!Init /\ OrderInv
  <2>1. /\ files = [i \in Ids |-> <<>>] /\ AllFiles = Earlier \o <<0>> /\ list = NoList
        /\ oldestBatch = NoBatch /\ oldBatches = <<>>
    BY <1>1, InitInv, QueueIs DEF Init, QueueForm
  <2>2. Earlier = <<>>
    <3>1. <<>> \in Seq(Ids)
      OBVIOUS
    <3> QED BY <2>1, <3>1, EarlierWithout DEF Earlier
  <2>3. AllFiles \in Seq(Ids) /\ \A k \in 1..Len(AllFiles) : files[AllFiles[k]] = <<>>
    <3>1. AllFiles \in Seq(Ids)
      BY <1>1, InitInv, QueueIs DEF QueueForm
    <3> QED BY <2>1, <3>1
  <2>4. Queue = <<>>
    BY <2>3, JoinedNothing DEF Queue
  <2>5. OrderInv
    BY <2>2 DEF OrderInv, IsAscending
  <2> QED BY <2>1, <2>4, <2>5 DEF Batch!Init, Queue, Joined, Contents
<1>2. Init => Batch!Init /\ OrderInv
  BY <1>1
<1>3. Inv /\ OrderInv /\ [Next]_vars => OrderInv'
  BY OrderStep
<1>4. Inv /\ OrderInv /\ [Next]_vars => [Batch!Next]_(Batch!vars)
  BY BatchStep
<1> QED BY <1>2, <1>3, <1>4, InvAlways, PTL DEF Spec, ImplementsEventBatch, Batch!Spec

===============================================================================
