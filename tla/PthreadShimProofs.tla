--------------------------- MODULE PthreadShimProofs ---------------------------
(***************************************************************************)
(* Proofs about PthreadShim for any number of threads and any addresses:   *)
(* the lazily created host objects are the same for everybody, have the    *)
(* type the game asked for and implement PthreadMonitor; pthread_once runs *)
(* its routine once.                                                       *)
(***************************************************************************)
EXTENDS PthreadShim, TLAPS

(* What is allocated: the published objects, one per live word, and those that are
   about to be published, which no word and no other thread knows. *)
HeapInv ==
    /\ \A x \in Objects : IsInitialized(payload[x]) => payload[x] \in heap /\ live[x]
    /\ IsInitialized(payload["mutex"]) => payload["mutex"] # payload["cond"]
    /\ \A t \in Threads : pc[t] = "publish" =>
           mine[t] \in heap /\ \A x \in Objects : mine[t] # payload[x]
    /\ \A s, t \in Threads :
           s # t /\ pc[s] = "publish" /\ pc[t] = "publish" => mine[s] # mine[t]
    /\ \A a \in heap : \/ \E x \in Objects : payload[x] = a
                       \/ \E t \in Threads : pc[t] = "publish" /\ mine[t] = a

(* A thread creates an object its call needs and has not resolved; the word it
   saw is still there, or another thread was faster. *)
Creates(t) ==
    /\ cur[t] \in Needs(op[t]) /\ ptr[t][cur[t]] = NoAddr
    /\ seen[t] \in Kinds
    /\ payload[cur[t]] = seen[t] \/ IsInitialized(payload[cur[t]])

CreateInv == \A t \in Threads : pc[t] \in {"create", "publish"} => Creates(t)

(* What a call works on exists, and what it has resolved is what is published. *)
Works(t) ==
    /\ pc[t] \in {"idle", "once", "routine", "spin"} => ptr[t] = None
    /\ pc[t] \in {"asleep", "relock"} => op[t] = "wait" /\ ptr[t]["mutex"] # NoAddr
    /\ \A x \in Uses(t) :
          live[x] /\ (ptr[t][x] # NoAddr => ptr[t][x] = payload[x] /\ payload[x] \in heap)

CallInv == \A t \in Threads : Works(t)

(* A thread is inside iff it owns the host mutex that is published. *)
HoldInv ==
    /\ \A t \in inside : /\ live["mutex"] /\ IsInitialized(payload["mutex"])
                         /\ owner[payload["mutex"]] = t
                         /\ pc[t] \notin {"asleep", "relock"}
    /\ \A t \in Threads : pc[t] \in {"resolve", "create", "publish"} =>
           /\ op[t] \in {"unlock", "wait"} => t \in inside
           /\ op[t] \in {"lock", "trylock"} => t \notin inside

(* The kind the game declared is in the word that InitValue reads as long as
   nobody has published a host mutex, and in every mutex that may still win. *)
KindInv ==
    /\ KindIsKept
    /\ live["mutex"] /\ ~IsInitialized(payload["mutex"])
         => declared = IF lp64 THEN header ELSE payload["mutex"]
    /\ \A t \in Threads :
           pc[t] = "publish" /\ cur[t] = "mutex" /\ ~IsInitialized(payload["mutex"])
             => kindOf[mine[t]] = declared

(* The once control tells how far the routine is. *)
OnceInv ==
    /\ control = 0 => ran = 0 /\ \A t \in Threads : pc[t] \notin {"routine", "spin"}
    /\ control # 0 => ran = 1
    /\ control = 2 => \A t \in Threads : pc[t] # "routine"
    /\ \A s, t \in Threads : pc[s] = "routine" /\ pc[t] = "routine" => s = t

ObjectsInv == TypeOK /\ HeapInv /\ CreateInv /\ CallInv /\ HoldInv

-----------------------------------------------------------------------------
(* An initialised word is an address. *)
LEMMA InitializedWord ==
    ASSUME TypeOK, NEW x \in Objects, IsInitialized(payload[x])
    PROVE  payload[x] \in Addresses
BY DEF TypeOK, Words, IsInitialized

(* Every step keeps the types. *)
LEMMA TypeStep ==
    ASSUME TypeOK, HeapInv, CreateInv, [Next]_vars
    PROVE  TypeOK'
<1> DEFINE PtrType == [Threads -> [Objects -> Addresses \cup {NoAddr}]]
<1>p. ptr \in PtrType
  BY DEF TypeOK
<1>a. None \in [Objects -> Addresses \cup {NoAddr}]
  BY DEF None
<1>b. "idle" \in Places /\ "resolve" \in Places /\ "create" \in Places
      /\ "publish" \in Places /\ "asleep" \in Places /\ "relock" \in Places
      /\ "once" \in Places /\ "routine" \in Places /\ "spin" \in Places
      /\ "lock" \in Ops
  BY DEF Places, Ops
<1>c. Zero \in Kinds /\ Kinds \subseteq Words /\ Addresses \subseteq Words
      /\ "normal" \in Kinds /\ "mutex" \in Objects
  BY DEF Zero, Kinds, Words, Objects
<1>1. ASSUME NEW t \in Threads, NEW o \in Ops, Call(t, o) PROVE TypeOK'
  BY <1>1, <1>b DEF Call, TypeOK, words, host, once
<1>2. ASSUME NEW t \in Threads, ToHost(t) PROVE TypeOK'
  <2>1. UNCHANGED <<words, host, op, mine, inside, once>>
    BY <1>2 DEF ToHost
  <2>2. PICK x \in Needs(op[t]) :
          IF IsInitialized(payload[x])
          THEN /\ ptr' = [ptr EXCEPT ![t][x] = payload[x]]
               /\ UNCHANGED <<pc, cur, seen>>
          ELSE /\ pc' = [pc EXCEPT ![t] = "create"]
               /\ cur' = [cur EXCEPT ![t] = x]
               /\ seen' = [seen EXCEPT ![t] = payload[x]]
               /\ UNCHANGED ptr
    BY <1>2 DEF ToHost
  <2>3. x \in Objects
    BY DEF Needs, Objects
  <2>4. CASE IsInitialized(payload[x])
    <3>1. payload[x] \in Addresses
      BY <2>3, <2>4, InitializedWord
    <3>2. ptr' \in PtrType
      BY <1>p, <2>2, <2>3, <2>4, <3>1
    <3> QED BY <2>1, <2>2, <2>4, <3>2 DEF TypeOK, words, host, once
  <2>5. CASE ~IsInitialized(payload[x])
    BY <1>b, <2>1, <2>2, <2>3, <2>5 DEF TypeOK, words, host, once
  <2> QED BY <2>4, <2>5
<1>3. ASSUME NEW t \in Threads, Create(t) PROVE TypeOK'
  <2>1. InitValue(cur[t]) \in Kinds
    BY <1>c DEF InitValue, IsInitialized
  <2> QED BY <1>3, <1>b, <2>1 DEF Create, TypeOK, words, once
<1>4. ASSUME NEW t \in Threads, Publish(t) PROVE TypeOK'
  <2>1. cur[t] \in Objects /\ mine[t] \in Addresses
    BY <1>4 DEF Publish, HeapInv, TypeOK
  <2>2. payload[cur[t]] = seen[t] \/ payload[cur[t]] \in Addresses
    BY <1>4, <2>1, InitializedWord DEF Publish, CreateInv, Creates
  <2>3. ptr' \in PtrType
    <3>1. \/ ptr' = [ptr EXCEPT ![t][cur[t]] = mine[t]]
          \/ /\ ptr' = [ptr EXCEPT ![t][cur[t]] = payload[cur[t]]]
             /\ payload[cur[t]] # seen[t]
      BY <1>4 DEF Publish
    <3> QED BY <1>p, <2>1, <2>2, <3>1
  <2>4. payload' \in [Objects -> Words]
    BY <1>4, <1>c, <2>1 DEF Publish, TypeOK
  <2> QED BY <1>4, <1>b, <1>c, <2>3, <2>4 DEF Publish, TypeOK, once
<1>5. ASSUME NEW t \in Threads,
             MutexLock(t) \/ MutexTrylock(t) \/ MutexUnlock(t) \/ CondWait(t) \/ Relock(t)
      PROVE  TypeOK'
  <2>1. ptr' = [ptr EXCEPT ![t] = None] \/ UNCHANGED ptr
    BY <1>5 DEF MutexLock, MutexTrylock, MutexUnlock, CondWait, Relock, Acquire, Return
  <2>2. ptr' \in PtrType
    BY <1>a, <1>p, <2>1
  <2>3. owner' \in [Addresses -> Threads \cup {NoThread}]
    BY <1>5 DEF MutexLock, MutexTrylock, MutexUnlock, CondWait, Relock, Acquire, TypeOK
  <2>4. pc' \in [Threads -> Places] /\ op' \in [Threads -> Ops] /\ inside' \subseteq Threads
    BY <1>5, <1>b DEF MutexLock, MutexTrylock, MutexUnlock, CondWait, Relock, Acquire,
                      Return, TypeOK
  <2>5. UNCHANGED <<words, heap, kindOf, cur, seen, mine, once>>
    BY <1>5 DEF MutexLock, MutexTrylock, MutexUnlock, CondWait, Relock, Acquire, Return
  <2> QED BY <2>2, <2>3, <2>4, <2>5 DEF TypeOK, words, once
<1>6. ASSUME NEW t \in Threads, CondSignal(t) \/ CondBroadcast(t) PROVE TypeOK'
  <2>1. ptr' = [ptr EXCEPT ![t] = None]
    BY <1>6 DEF CondSignal, CondBroadcast, Notify
  <2>2. ptr' \in PtrType
    BY <1>a, <1>p, <2>1
  <2>3. \E S : Notify(t, S)
    BY <1>6 DEF CondSignal, CondBroadcast
  <2>4. pc' \in [Threads -> Places] /\ op' \in [Threads -> Ops]
    BY <1>b, <2>3 DEF Notify, TypeOK
  <2>5. UNCHANGED <<words, host, cur, seen, mine, inside, once>>
    BY <2>3 DEF Notify
  <2> QED BY <2>2, <2>4, <2>5 DEF TypeOK, words, host, once
<1>7. ASSUME NEW t \in Threads, Timeout(t) PROVE TypeOK'
  BY <1>7, <1>b DEF Timeout, TypeOK, words, host, once
<1>8. ASSUME NEW t \in Threads, NEW x \in Objects, Destroy(t, x) PROVE TypeOK'
  BY <1>8, <1>c DEF Destroy, TypeOK, thread, once
<1>9. ASSUME NEW t \in Threads, NEW x \in Objects, NEW k \in Kinds, InitObject(t, x, k)
      PROVE  TypeOK'
  BY <1>9, <1>c DEF InitObject, TypeOK, thread, once
<1>10. ASSUME NEW t \in Threads, OnceBegin(t) \/ Once(t) PROVE TypeOK'
  <2>1. control' \in 0..2 /\ ran' \in Nat
    BY <1>10 DEF OnceBegin, Once, OnceElect, OnceDone, OnceSpin, TypeOK, once
  <2>2. pc' \in [Threads -> Places]
    BY <1>10, <1>b DEF OnceBegin, Once, OnceElect, OnceDone, OnceSpin, TypeOK
  <2>3. UNCHANGED <<words, host, op, ptr, cur, seen, mine, inside>>
    BY <1>10 DEF OnceBegin, Once, OnceElect, OnceDone, OnceSpin
  <2> QED BY <2>1, <2>2, <2>3 DEF TypeOK, words, host
<1>11. CASE UNCHANGED vars
  BY <1>11 DEF vars, TypeOK, words, host, thread, once
<1> QED BY <1>1, <1>2, <1>3, <1>4, <1>5, <1>6, <1>7, <1>8, <1>9, <1>10, <1>11 DEF Next

(* What a notification does: the caller returns, and some of the threads that
   are asleep on the same host object are woken. *)
LEMMA Notified ==
    ASSUME NEW t \in Threads, CondSignal(t) \/ CondBroadcast(t)
    PROVE  /\ pc[t] = "resolve" /\ pc'[t] = "idle"
           /\ \A s \in Threads : s # t => \/ pc'[s] = pc[s]
                                          \/ pc[s] = "asleep" /\ pc'[s] = "relock"
           /\ op' = [op EXCEPT ![t] = "lock"] /\ ptr' = [ptr EXCEPT ![t] = None]
           /\ UNCHANGED <<words, host, cur, seen, mine, inside, once>>
<1>1. PICK S \in SUBSET Blocked(t) : Notify(t, S)
  BY DEF CondSignal, CondBroadcast
<1>2. \A s \in S : pc[s] = "asleep"
  BY <1>1 DEF Blocked
<1>3. pc' = [s \in Threads |-> IF s = t THEN "idle"
                              ELSE IF s \in S THEN "relock" ELSE pc[s]]
  BY <1>1 DEF Notify
<1>4. ASSUME NEW s \in Threads, s # t
      PROVE  pc'[s] = pc[s] \/ (pc[s] = "asleep" /\ pc'[s] = "relock")
  <2>1. CASE s \in S
    BY <1>2, <1>3, <1>4, <2>1
  <2>2. CASE s \notin S
    BY <1>3, <1>4, <2>2
  <2> QED BY <2>1, <2>2
<1>5. pc'[t] = "idle"
  BY <1>3
<1>6. pc[t] = "resolve"
  BY DEF CondSignal, CondBroadcast, Ready
<1>7. /\ op' = [op EXCEPT ![t] = "lock"] /\ ptr' = [ptr EXCEPT ![t] = None]
      /\ UNCHANGED <<words, host, cur, seen, mine, inside, once>>
  BY <1>1 DEF Notify
<1>8. \A s \in Threads : s # t => \/ pc'[s] = pc[s]
                                  \/ pc[s] = "asleep" /\ pc'[s] = "relock"
  BY <1>4
<1> QED BY <1>5, <1>6, <1>7, <1>8

(* Every step leaves the published objects and those about to be published
   allocated, distinct, and nothing else. *)
LEMMA HeapStep ==
    ASSUME TypeOK, HeapInv, CreateInv, CallInv, [Next]_vars
    PROVE  HeapInv'
<1> USE ShimConstants DEF HeapInv
<1>a. \A x \in Objects : x = "mutex" \/ x = "cond"
  BY DEF Objects
<1>b. "mutex" \in Objects /\ "cond" \in Objects
  BY DEF Objects
<1>c. /\ \A x \in Objects : payload[x] \in Kinds \/ payload[x] \in Addresses
      /\ \A a \in Addresses : a \notin Kinds
      /\ heap \subseteq Addresses
      /\ payload \in [Objects -> Words] /\ live \in [Objects -> BOOLEAN] /\ mine \in [Threads -> Addresses \cup {NoAddr}]
      /\ pc \in [Threads -> Places] /\ cur \in [Threads -> Objects]
  BY DEF TypeOK, Words
<1>d. Zero \in Kinds
  BY DEF Zero, Kinds
(* Steps that allocate, free and publish nothing. *)
<1>e. ASSUME UNCHANGED <<payload, live, heap, mine>>,
             \A s \in Threads : pc'[s] = "publish" <=> pc[s] = "publish"
      PROVE  HeapInv'
  BY <1>e DEF IsInitialized
<1>1. ASSUME NEW t \in Threads, NEW o \in Ops, Call(t, o) PROVE HeapInv'
  BY <1>1, <1>c, <1>e DEF Call, words, host
<1>2. ASSUME NEW t \in Threads, ToHost(t) PROVE HeapInv'
  <2>1. UNCHANGED <<payload, live, heap, mine>>
    BY <1>2 DEF ToHost, words, host
  <2>2. UNCHANGED pc \/ (pc[t] = "resolve" /\ pc' = [pc EXCEPT ![t] = "create"])
    BY <1>2 DEF ToHost
  <2> QED BY <1>c, <1>e, <2>1, <2>2
<1>3. ASSUME NEW t \in Threads, Create(t) PROVE HeapInv'
  <2>1. PICK a \in Addresses \ heap :
          heap' = heap \cup {a} /\ mine' = [mine EXCEPT ![t] = a]
    BY <1>3 DEF Create
  <2>2. pc' = [pc EXCEPT ![t] = "publish"] /\ pc[t] = "create"
        /\ UNCHANGED <<payload, live>>
    BY <1>3 DEF Create, words
  <2> QED BY <1>c, <2>1, <2>2 DEF IsInitialized
<1>4. ASSUME NEW t \in Threads, Publish(t) PROVE HeapInv'
  <2>1. /\ pc[t] = "publish" /\ pc' = [pc EXCEPT ![t] = "resolve"]
        /\ mine' = [mine EXCEPT ![t] = NoAddr] /\ cur[t] \in Objects
        /\ mine[t] \in heap /\ \A x \in Objects : mine[t] # payload[x]
        /\ UNCHANGED live
    BY <1>4, <1>c DEF Publish
  <2>2. CASE payload[cur[t]] = seen[t]
    <3>1. payload' = [payload EXCEPT ![cur[t]] = mine[t]] /\ UNCHANGED heap
      BY <1>4, <2>2 DEF Publish
    <3>2. payload[cur[t]] \in Kinds /\ live[cur[t]]
      BY <2>1, <2>2 DEF CreateInv, Creates, CallInv, Works, Uses
    <3> QED BY <1>a, <1>b, <1>c, <2>1, <3>1, <3>2 DEF IsInitialized
  <2>3. CASE payload[cur[t]] # seen[t]
    <3>1. heap' = heap \ {mine[t]} /\ UNCHANGED payload
      BY <1>4, <2>3 DEF Publish
    <3> QED BY <1>c, <2>1, <3>1 DEF IsInitialized
  <2> QED BY <2>2, <2>3
<1>5. ASSUME NEW t \in Threads,
             MutexLock(t) \/ MutexTrylock(t) \/ MutexUnlock(t) \/ CondWait(t) \/ Relock(t)
      PROVE  HeapInv'
  <2>1. UNCHANGED <<payload, live, heap, mine>> /\ pc[t] # "publish"
    BY <1>5 DEF MutexLock, MutexTrylock, MutexUnlock, CondWait, Relock, Ready, Acquire,
                Return, words
  <2>2. pc' = [pc EXCEPT ![t] = "idle"] \/ pc' = [pc EXCEPT ![t] = "asleep"]
    BY <1>5 DEF MutexLock, MutexTrylock, MutexUnlock, CondWait, Relock, Acquire, Return
  <2> QED BY <1>c, <1>e, <2>1, <2>2
<1>6. ASSUME NEW t \in Threads, CondSignal(t) \/ CondBroadcast(t) PROVE HeapInv'
  <2>1. /\ \A s \in Threads : pc'[s] = "publish" <=> pc[s] = "publish"
        /\ UNCHANGED <<words, host, mine>>
    BY <1>6, Notified
  <2> QED BY <1>e, <2>1 DEF words, host
<1>7. ASSUME NEW t \in Threads, Timeout(t) PROVE HeapInv'
  BY <1>7, <1>c, <1>e DEF Timeout, words, host
<1>8. ASSUME NEW t \in Threads, NEW x \in Objects, Destroy(t, x) PROVE HeapInv'
  <2>1. UNCHANGED <<pc, mine>>
    BY <1>8 DEF Destroy, thread
  <2>2. CASE IsInitialized(payload[x])
    <3>1. heap' = heap \ {payload[x]} /\ payload' = [payload EXCEPT ![x] = Zero]
          /\ live' = [live EXCEPT ![x] = FALSE]
      BY <1>8, <2>2 DEF Destroy
    <3> QED BY <1>a, <1>b, <1>c, <1>d, <2>1, <2>2, <3>1 DEF IsInitialized
  <2>3. CASE ~IsInitialized(payload[x])
    <3>1. UNCHANGED <<payload, heap>> /\ live' = [live EXCEPT ![x] = FALSE]
      BY <1>8, <2>3 DEF Destroy
    <3> QED BY <1>c, <2>1, <2>3, <3>1 DEF IsInitialized
  <2> QED BY <2>2, <2>3
<1>9. ASSUME NEW t \in Threads, NEW x \in Objects, NEW k \in Kinds, InitObject(t, x, k)
      PROVE  HeapInv'
  <2>1. PICK a \in Addresses \ heap :
          heap' = heap \cup {a} /\ payload' = [payload EXCEPT ![x] = a]
    BY <1>9 DEF InitObject
  <2>2. UNCHANGED <<pc, mine>> /\ ~live[x] /\ live' = [live EXCEPT ![x] = TRUE]
    BY <1>9 DEF InitObject, thread
  <2> QED BY <1>a, <1>b, <1>c, <2>1, <2>2 DEF IsInitialized
<1>10. ASSUME NEW t \in Threads, OnceBegin(t) \/ Once(t) PROVE HeapInv'
  <2>1. UNCHANGED <<payload, live, heap, mine>>
    BY <1>10 DEF OnceBegin, Once, OnceElect, OnceDone, OnceSpin, words, host
  <2>2. /\ pc[t] \in {"idle", "once", "routine", "spin"}
        /\ \E p \in {"idle", "once", "routine", "spin"} : pc' = [pc EXCEPT ![t] = p]
    BY <1>10 DEF OnceBegin, Once, OnceElect, OnceDone, OnceSpin
  <2> QED BY <1>c, <1>e, <2>1, <2>2
<1>11. CASE UNCHANGED vars
  BY <1>11, <1>e DEF vars, words, host, thread
<1> QED BY <1>1, <1>2, <1>3, <1>4, <1>5, <1>6, <1>7, <1>8, <1>9, <1>10, <1>11 DEF Next

(* Every step leaves a thread that creates an object the word it saw, or an
   object in its place. *)
LEMMA CreateStep ==
    ASSUME TypeOK, HeapInv, CreateInv, [Next]_vars
    PROVE  CreateInv'
<1> USE DEF CreateInv
<1>a. /\ pc \in [Threads -> Places] /\ op \in [Threads -> Ops] /\ cur \in [Threads -> Objects]
      /\ ptr \in [Threads -> [Objects -> Addresses \cup {NoAddr}]]
      /\ seen \in [Threads -> Words] /\ payload \in [Objects -> Words]
      /\ heap \subseteq Addresses /\ \A a \in Addresses : a \notin Kinds
  BY ShimConstants DEF TypeOK
(* Steps that change none of the words, and only calls that create nothing. *)
<1>b. ASSUME NEW s \in Threads, pc'[s] \in {"create", "publish"} => pc[s] \in {"create", "publish"},
             pc[s] \in {"create", "publish"} =>
                 /\ op'[s] = op[s] /\ cur'[s] = cur[s] /\ seen'[s] = seen[s] /\ ptr'[s] = ptr[s]
                 /\ payload'[cur[s]] = payload[cur[s]] \/ payload'[cur[s]] \notin Kinds
      PROVE  pc'[s] \in {"create", "publish"} => Creates(s)'
  BY <1>b DEF Creates, IsInitialized
<1>1. ASSUME NEW t \in Threads, NEW o \in Ops, Call(t, o) PROVE CreateInv'
  <2>1. /\ pc[t] = "idle" /\ pc' = [pc EXCEPT ![t] = "resolve"] /\ op' = [op EXCEPT ![t] = o]
        /\ UNCHANGED <<ptr, cur, seen, payload>>
    BY <1>1 DEF Call, words
  <2> QED BY <1>a, <1>b, <2>1
<1>2. ASSUME NEW t \in Threads, ToHost(t) PROVE CreateInv'
  <2>1. pc[t] = "resolve" /\ UNCHANGED <<op, payload>>
    BY <1>2 DEF ToHost, words
  <2>2. PICK x \in Needs(op[t]) :
          /\ ptr[t][x] = NoAddr
          /\ IF IsInitialized(payload[x])
             THEN /\ ptr' = [ptr EXCEPT ![t][x] = payload[x]]
                  /\ UNCHANGED <<pc, cur, seen>>
             ELSE /\ pc' = [pc EXCEPT ![t] = "create"]
                  /\ cur' = [cur EXCEPT ![t] = x]
                  /\ seen' = [seen EXCEPT ![t] = payload[x]]
                  /\ UNCHANGED ptr
    BY <1>2 DEF ToHost
  <2>3. CASE IsInitialized(payload[x])
    BY <1>a, <1>b, <2>1, <2>2, <2>3
  <2>4. CASE ~IsInitialized(payload[x])
    <3>1. Creates(t)'
      BY <1>a, <2>1, <2>2, <2>4 DEF Creates, IsInitialized
    <3>2. ASSUME NEW s \in Threads, s # t
          PROVE  pc'[s] \in {"create", "publish"} => Creates(s)'
      BY <1>a, <1>b, <2>1, <2>2, <2>4, <3>2
    <3> QED BY <3>1, <3>2
  <2> QED BY <2>3, <2>4
<1>3. ASSUME NEW t \in Threads, Create(t) PROVE CreateInv'
  <2>1. /\ pc[t] = "create" /\ pc' = [pc EXCEPT ![t] = "publish"]
        /\ UNCHANGED <<op, ptr, cur, seen, payload>>
    BY <1>3 DEF Create, words
  <2> QED BY <1>a, <1>b, <2>1
<1>4. ASSUME NEW t \in Threads, Publish(t) PROVE CreateInv'
  <2>1. /\ pc' = [pc EXCEPT ![t] = "resolve"] /\ cur' = [cur EXCEPT ![t] = "mutex"]
        /\ seen' = [seen EXCEPT ![t] = Zero] /\ UNCHANGED op
        /\ \A s \in Threads : s # t => ptr'[s] = ptr[s]
    BY <1>4, <1>a DEF Publish
  <2>2. \A x \in Objects : payload'[x] = payload[x] \/ payload'[x] \notin Kinds
    <3>1. mine[t] \notin Kinds
      BY <1>4, <1>a DEF Publish, HeapInv
    <3> QED BY <1>4, <1>a, <3>1 DEF Publish
  <2> QED BY <1>a, <1>b, <2>1, <2>2
<1>5. ASSUME NEW t \in Threads,
             MutexLock(t) \/ MutexTrylock(t) \/ MutexUnlock(t) \/ CondWait(t) \/ Relock(t)
      PROVE  CreateInv'
  <2>1. /\ UNCHANGED <<cur, seen, payload>> /\ pc[t] \notin {"create", "publish"}
        /\ UNCHANGED op \/ op' = [op EXCEPT ![t] = "lock"]
        /\ UNCHANGED ptr \/ ptr' = [ptr EXCEPT ![t] = None]
    BY <1>5 DEF MutexLock, MutexTrylock, MutexUnlock, CondWait, Relock, Ready, Acquire,
                Return, words
  <2>2. pc' = [pc EXCEPT ![t] = "idle"] \/ pc' = [pc EXCEPT ![t] = "asleep"]
    BY <1>5 DEF MutexLock, MutexTrylock, MutexUnlock, CondWait, Relock, Acquire, Return
  <2> QED BY <1>a, <1>b, <2>1, <2>2
<1>6. ASSUME NEW t \in Threads, CondSignal(t) \/ CondBroadcast(t) PROVE CreateInv'
  <2>1. /\ \A s \in Threads : pc'[s] \in {pc[s], "idle", "relock"}
        /\ pc[t] = "resolve" /\ pc'[t] = "idle" /\ op' = [op EXCEPT ![t] = "lock"]
        /\ ptr' = [ptr EXCEPT ![t] = None] /\ UNCHANGED <<cur, seen, words>>
    BY <1>6, Notified
  <2> QED BY <1>a, <1>b, <2>1 DEF words
<1>7. ASSUME NEW t \in Threads, Timeout(t) PROVE CreateInv'
  BY <1>7, <1>a, <1>b DEF Timeout, words
<1>8. ASSUME NEW t \in Threads, NEW x \in Objects, Destroy(t, x) PROVE CreateInv'
  <2>1. /\ UNCHANGED <<pc, op, ptr, cur, seen>>
        /\ \A y \in Objects : y # x => payload'[y] = payload[y]
    BY <1>8, <1>a DEF Destroy, thread
  <2>2. \A s \in Threads : pc[s] \in {"create", "publish"} => cur[s] # x
    BY <1>8 DEF Destroy, Quiet, Creates
  <2> QED BY <1>a, <1>b, <2>1, <2>2
<1>9. ASSUME NEW t \in Threads, NEW x \in Objects, NEW k \in Kinds, InitObject(t, x, k)
      PROVE  CreateInv'
  <2>1. /\ UNCHANGED <<pc, op, ptr, cur, seen>>
        /\ \E a \in Addresses : payload' = [payload EXCEPT ![x] = a]
    BY <1>9 DEF InitObject, thread
  <2> QED BY <1>a, <1>b, <2>1
<1>10. ASSUME NEW t \in Threads, OnceBegin(t) \/ Once(t) PROVE CreateInv'
  <2>1. UNCHANGED <<payload, op, ptr, cur, seen>>
    BY <1>10 DEF OnceBegin, Once, OnceElect, OnceDone, OnceSpin, words
  <2>2. /\ pc[t] \in {"idle", "once", "routine", "spin"}
        /\ \E p \in {"idle", "once", "routine", "spin"} : pc' = [pc EXCEPT ![t] = p]
    BY <1>10 DEF OnceBegin, Once, OnceElect, OnceDone, OnceSpin
  <2> QED BY <1>a, <1>b, <2>1, <2>2
<1>11. CASE UNCHANGED vars
  BY <1>11, <1>b DEF vars, words, thread
<1> QED BY <1>1, <1>2, <1>3, <1>4, <1>5, <1>6, <1>7, <1>8, <1>9, <1>10, <1>11 DEF Next

(* Every step leaves the calls the objects they work on. *)
LEMMA CallStep ==
    ASSUME TypeOK, HeapInv, CreateInv, CallInv, [Next]_vars
    PROVE  CallInv'
<1> USE DEF CallInv
<1>a. /\ pc \in [Threads -> Places] /\ op \in [Threads -> Ops] /\ cur \in [Threads -> Objects]
      /\ ptr \in [Threads -> [Objects -> Addresses \cup {NoAddr}]]
      /\ payload \in [Objects -> Words] /\ live \in [Objects -> BOOLEAN]
      /\ heap \subseteq Addresses /\ \A a \in Addresses : a \notin Kinds
      /\ NoAddr \notin Addresses
  BY ShimConstants DEF TypeOK
<1>b. \A o : Needs(o) \subseteq Objects
  BY DEF Needs, Objects
<1>c. \A t \in Threads : Uses(t) \subseteq Objects
  BY <1>b DEF Uses, Objects
(* A call that is not concerned by the step. *)
<1>d. ASSUME NEW s \in Threads, pc'[s] = pc[s], op'[s] = op[s], ptr'[s] = ptr[s],
             \A x \in Uses(s) : live'[x] /\ (ptr[s][x] # NoAddr
                                 => payload'[x] = payload[x] /\ payload[x] \in heap')
      PROVE  Works(s)'
  BY <1>d DEF Works, Uses
<1>e. ASSUME NEW s \in Threads, pc'[s] = pc[s], op'[s] = op[s], ptr'[s] = ptr[s],
             UNCHANGED <<live, payload, heap>>
      PROVE  Works(s)'
  BY <1>d, <1>e DEF Works
(* A call that has returned. *)
<1>f. ASSUME NEW s \in Threads, pc'[s] = "idle", ptr'[s] = None
      PROVE  Works(s)'
  BY <1>f DEF Works, Uses
<1>1. ASSUME NEW t \in Threads, NEW o \in Ops, Call(t, o) PROVE CallInv'
  <2>1. /\ pc[t] = "idle" /\ pc' = [pc EXCEPT ![t] = "resolve"] /\ op' = [op EXCEPT ![t] = o]
        /\ UNCHANGED <<ptr, payload, live, heap>> /\ \A x \in Needs(o) : live[x]
    BY <1>1 DEF Call, words, host
  <2>2. ptr[t] = None
    BY <2>1 DEF Works
  <2>3. Works(t)'
    BY <1>a, <1>b, <2>1, <2>2 DEF Works, Uses, None
  <2> QED BY <1>a, <1>e, <2>1, <2>3
<1>2. ASSUME NEW t \in Threads, ToHost(t) PROVE CallInv'
  <2>1. pc[t] = "resolve" /\ UNCHANGED <<op, payload, live, heap>>
    BY <1>2 DEF ToHost, words, host
  <2>2. PICK x \in Needs(op[t]) :
          IF IsInitialized(payload[x])
          THEN /\ ptr' = [ptr EXCEPT ![t][x] = payload[x]]
               /\ UNCHANGED pc
          ELSE /\ pc' = [pc EXCEPT ![t] = "create"]
               /\ UNCHANGED ptr
    BY <1>2 DEF ToHost
  <2>3. x \in Objects
    BY <1>b
  <2>4. CASE IsInitialized(payload[x])
    <3>1. payload[x] \in heap
      BY <2>3, <2>4 DEF HeapInv
    <3>2. /\ ptr'[t][x] = payload[x] /\ \A y \in Objects : y # x => ptr'[t][y] = ptr[t][y]
          /\ \A s \in Threads : s # t => ptr'[s] = ptr[s]
          /\ UNCHANGED pc
      BY <1>a, <2>2, <2>3, <2>4
    <3>3. Works(t)'
      BY <1>b, <2>1, <3>1, <3>2 DEF Works, Uses
    <3> QED BY <1>e, <2>1, <3>2, <3>3
  <2>5. CASE ~IsInitialized(payload[x])
    <3>1. Works(t)'
      BY <1>a, <2>1, <2>2, <2>5 DEF Works, Uses
    <3> QED BY <1>a, <1>e, <2>1, <2>2, <2>5, <3>1
  <2> QED BY <2>4, <2>5
<1>3. ASSUME NEW t \in Threads, Create(t) PROVE CallInv'
  <2>1. /\ pc[t] = "create" /\ pc' = [pc EXCEPT ![t] = "publish"]
        /\ UNCHANGED <<op, ptr, payload, live>> /\ heap \subseteq heap'
    BY <1>3 DEF Create, words
  <2>2. Works(t)'
    BY <1>a, <2>1 DEF Works, Uses
  <2> QED BY <1>a, <1>d, <2>1, <2>2 DEF Works
<1>4. ASSUME NEW t \in Threads, Publish(t) PROVE CallInv'
  <2> DEFINE x == cur[t]
  <2>1. /\ pc[t] = "publish" /\ pc' = [pc EXCEPT ![t] = "resolve"] /\ UNCHANGED <<op, live>>
        /\ x \in Objects /\ x \in Needs(op[t])
    BY <1>4, <1>a DEF Publish, CreateInv, Creates
  <2>2. mine[t] \in heap /\ \A y \in Objects : mine[t] # payload[y]
    BY <2>1 DEF HeapInv
  <2>3. CASE payload[x] = seen[t]
    <3>1. /\ payload' = [payload EXCEPT ![x] = mine[t]]
          /\ ptr' = [ptr EXCEPT ![t][x] = mine[t]] /\ UNCHANGED heap
      BY <1>4, <2>3 DEF Publish
    <3>2. payload[x] \in Kinds
      BY <2>1, <2>3 DEF CreateInv, Creates
    <3>3. \A s \in Threads : x \in Uses(s) => ptr[s][x] = NoAddr
      BY <1>a, <3>2 DEF Works
    <3>4. /\ ptr'[t][x] = mine[t] /\ \A y \in Objects : y # x => ptr'[t][y] = ptr[t][y]
          /\ \A s \in Threads : s # t => ptr'[s] = ptr[s]
          /\ payload'[x] = mine[t] /\ \A y \in Objects : y # x => payload'[y] = payload[y]
      BY <1>a, <2>1, <3>1
    <3>5. Works(t)'
      BY <1>a, <1>b, <2>1, <2>2, <3>1, <3>4 DEF Works, Uses
    <3>6. ASSUME NEW s \in Threads, s # t PROVE Works(s)'
      BY <1>a, <1>c, <1>d, <2>1, <3>1, <3>3, <3>4, <3>6 DEF Works
    <3> QED BY <3>5, <3>6
  <2>4. CASE payload[x] # seen[t]
    <3>1. /\ ptr' = [ptr EXCEPT ![t][x] = payload[x]]
          /\ heap' = heap \ {mine[t]} /\ UNCHANGED payload
      BY <1>4, <2>4 DEF Publish
    <3>2. payload[x] \in heap
      BY <2>1, <2>4 DEF CreateInv, Creates, HeapInv
    <3>3. /\ ptr'[t][x] = payload[x] /\ \A y \in Objects : y # x => ptr'[t][y] = ptr[t][y]
          /\ \A s \in Threads : s # t => ptr'[s] = ptr[s]
      BY <1>a, <2>1, <3>1
    <3>4. Works(t)'
      BY <1>a, <1>b, <2>1, <2>2, <3>1, <3>2, <3>3 DEF Works, Uses
    <3>5. ASSUME NEW s \in Threads, s # t PROVE Works(s)'
      BY <1>a, <1>c, <1>d, <2>1, <2>2, <3>1, <3>3, <3>5 DEF Works
    <3> QED BY <3>4, <3>5
  <2> QED BY <2>3, <2>4
<1>5. ASSUME NEW t \in Threads, MutexLock(t) \/ MutexTrylock(t) \/ MutexUnlock(t) \/ Relock(t)
      PROVE  CallInv'
  <2>1. /\ UNCHANGED <<payload, live, heap>> /\ pc' = [pc EXCEPT ![t] = "idle"]
        /\ op' = [op EXCEPT ![t] = "lock"] /\ ptr' = [ptr EXCEPT ![t] = None]
    BY <1>5 DEF MutexLock, MutexTrylock, MutexUnlock, Relock, Acquire, Return, words
  <2> QED BY <1>a, <1>e, <1>f, <2>1
<1>6. ASSUME NEW t \in Threads, CondWait(t) PROVE CallInv'
  <2>1. /\ pc[t] = "resolve" /\ op[t] = "wait" /\ ptr[t]["mutex"] # NoAddr
        /\ pc' = [pc EXCEPT ![t] = "asleep"] /\ UNCHANGED <<op, ptr, payload, live, heap>>
    BY <1>6 DEF CondWait, Ready, Needs, words
  <2>2. Works(t)'
    BY <1>a, <2>1 DEF Works, Uses
  <2> QED BY <1>a, <1>e, <2>1, <2>2
<1>7. ASSUME NEW s \in Threads, pc[s] = "asleep", pc'[s] = "relock", op'[s] = op[s],
             ptr'[s] = ptr[s], UNCHANGED <<payload, live, heap>>
      PROVE  Works(s)'
  BY <1>7 DEF Works, Uses, Needs
<1>8. ASSUME NEW t \in Threads, CondSignal(t) \/ CondBroadcast(t) PROVE CallInv'
  <2>1. UNCHANGED <<words, host>>
    BY <1>8, Notified
  <2>2. ASSUME NEW s \in Threads, s # t PROVE Works(s)'
    BY <1>8, <1>a, <1>e, <1>7, <2>1, <2>2, Notified DEF words, host
  <2>3. Works(t)'
    BY <1>8, <1>a, <1>f, Notified
  <2> QED BY <2>2, <2>3
<1>9. ASSUME NEW t \in Threads, Timeout(t) PROVE CallInv'
  BY <1>9, <1>a, <1>e, <1>7 DEF Timeout, words, host
<1>10. ASSUME NEW t \in Threads, NEW x \in Objects, Destroy(t, x) PROVE CallInv'
  <2>1. /\ UNCHANGED <<pc, op, ptr>> /\ live' = [live EXCEPT ![x] = FALSE]
        /\ \A y \in Objects : y # x => payload'[y] = payload[y]
    BY <1>10, <1>a DEF Destroy, thread
  <2>2. \A s \in Threads : x \notin Uses(s)
    BY <1>10 DEF Destroy, Quiet, Uses
  <2>3. \A y \in Objects : y # x /\ payload[y] \in heap => payload[y] \in heap'
    BY <1>10, <1>a DEF Destroy, HeapInv, Objects, IsInitialized
  <2> QED BY <1>a, <1>c, <1>d, <2>1, <2>2, <2>3 DEF Works
<1>11. ASSUME NEW t \in Threads, NEW x \in Objects, NEW k \in Kinds, InitObject(t, x, k)
      PROVE  CallInv'
  <2>1. /\ UNCHANGED <<pc, op, ptr>> /\ ~live[x] /\ live' = [live EXCEPT ![x] = TRUE]
        /\ heap \subseteq heap' /\ \A y \in Objects : y # x => payload'[y] = payload[y]
    BY <1>11, <1>a DEF InitObject, thread
  <2> QED BY <1>a, <1>c, <1>d, <2>1 DEF Works
<1>12. ASSUME NEW t \in Threads, OnceBegin(t) \/ Once(t) PROVE CallInv'
  <2>1. UNCHANGED <<payload, live, heap, op, ptr>>
    BY <1>12 DEF OnceBegin, Once, OnceElect, OnceDone, OnceSpin, words, host
  <2>2. /\ pc[t] \in {"idle", "once", "routine", "spin"}
        /\ \E p \in {"idle", "once", "routine", "spin"} : pc' = [pc EXCEPT ![t] = p]
    BY <1>12 DEF OnceBegin, Once, OnceElect, OnceDone, OnceSpin
  <2>3. Works(t)'
    BY <1>a, <2>1, <2>2 DEF Works, Uses
  <2> QED BY <1>a, <1>e, <2>1, <2>2, <2>3
<1>13. CASE UNCHANGED vars
  BY <1>13, <1>e DEF vars, words, host, thread
<1> QED BY <1>1, <1>2, <1>3, <1>4, <1>5, <1>6, <1>8, <1>9, <1>10, <1>11, <1>12, <1>13 DEF Next

(* Every step leaves the mutex with the threads that are inside. *)
LEMMA HoldStep ==
    ASSUME TypeOK, HeapInv, CreateInv, CallInv, HoldInv, [Next]_vars
    PROVE  HoldInv'
<1> USE DEF HoldInv
<1>a. /\ pc \in [Threads -> Places] /\ op \in [Threads -> Ops]
      /\ payload \in [Objects -> Words] /\ live \in [Objects -> BOOLEAN]
      /\ owner \in [Addresses -> Threads \cup {NoThread}]
      /\ heap \subseteq Addresses /\ inside \subseteq Threads /\ NoThread \notin Threads
      /\ "mutex" \in Objects
  BY ShimConstants DEF TypeOK, Objects
(* Steps of one thread that take and give no mutex. *)
<1>b. ASSUME NEW t \in Threads, UNCHANGED <<payload, live, inside>>,
             IsInitialized(payload["mutex"]) => owner'[payload["mutex"]] = owner[payload["mutex"]],
             \A s \in Threads : s # t => pc'[s] = pc[s] /\ op'[s] = op[s],
             pc'[t] \in {"asleep", "relock"} => pc[t] \in {"asleep", "relock"},
             pc'[t] \in {"resolve", "create", "publish"} =>
                 /\ pc[t] \in {"resolve", "create", "publish"}
                 /\ op'[t] = op[t]
      PROVE  HoldInv'
  BY <1>a, <1>b DEF IsInitialized
(* A thread enters: nobody was inside. *)
<1>c. ASSUME NEW t \in Threads, Acquire(t), "mutex" \in Uses(t), ptr[t]["mutex"] # NoAddr
      PROVE  HoldInv'
  <2>1. /\ ptr[t]["mutex"] = payload["mutex"] /\ payload["mutex"] \in heap /\ live["mutex"]
    BY <1>c DEF CallInv, Works
  <2>2. /\ owner[payload["mutex"]] = NoThread /\ owner'[payload["mutex"]] = t
        /\ inside' = inside \cup {t} /\ UNCHANGED <<payload, live>>
        /\ pc' = [pc EXCEPT ![t] = "idle"] /\ op' = [op EXCEPT ![t] = "lock"]
    BY <1>c, <1>a, <2>1 DEF Acquire, Return, words
  <2>3. inside = {}
    BY <1>a, <2>2
  <2>4. payload["mutex"] \notin Kinds
    BY <1>a, <2>1, ShimConstants
  <2> QED BY <1>a, <2>1, <2>2, <2>3, <2>4 DEF IsInitialized
(* A thread leaves: nobody else is inside. *)
<1>d. ASSUME NEW t \in Threads, pc[t] = "resolve", op[t] \in {"unlock", "wait"},
             inside' = inside \ {t}, UNCHANGED <<payload, live>>,
             \A s \in Threads : s # t => pc'[s] = pc[s] /\ op'[s] = op[s],
             pc'[t] \notin {"resolve", "create", "publish"}
      PROVE  HoldInv'
  <2>1. t \in inside /\ \A s \in inside : s = t
    BY <1>d
  <2> QED BY <1>a, <1>d, <2>1
<1>1. ASSUME NEW t \in Threads, NEW o \in Ops, Call(t, o) PROVE HoldInv'
  <2>1. /\ pc' = [pc EXCEPT ![t] = "resolve"] /\ op' = [op EXCEPT ![t] = o]
        /\ UNCHANGED <<payload, live, owner, inside>>
        /\ o \in {"unlock", "wait"} => t \in inside
        /\ o \in {"lock", "trylock"} => t \notin inside
    BY <1>1 DEF Call, words, host
  <2> QED BY <1>a, <2>1 DEF IsInitialized
<1>2. ASSUME NEW t \in Threads, ToHost(t) PROVE HoldInv'
  <2>1. pc[t] = "resolve" /\ UNCHANGED <<op, payload, live, owner, inside>>
        /\ (UNCHANGED pc \/ pc' = [pc EXCEPT ![t] = "create"])
    BY <1>2 DEF ToHost, words, host
  <2> QED BY <1>a, <1>b, <2>1
<1>3. ASSUME NEW t \in Threads, Create(t) PROVE HoldInv'
  <2>1. /\ pc[t] = "create" /\ pc' = [pc EXCEPT ![t] = "publish"]
        /\ UNCHANGED <<op, payload, live, inside>>
        /\ \E a \in Addresses \ heap : owner' = [owner EXCEPT ![a] = NoThread]
    BY <1>3 DEF Create, words
  <2>2. IsInitialized(payload["mutex"]) => owner'[payload["mutex"]] = owner[payload["mutex"]]
    BY <1>a, <2>1 DEF HeapInv
  <2> QED BY <1>a, <1>b, <2>1, <2>2
<1>4. ASSUME NEW t \in Threads, Publish(t) PROVE HoldInv'
  <2>1. /\ pc[t] = "publish" /\ pc' = [pc EXCEPT ![t] = "resolve"]
        /\ UNCHANGED <<op, live, owner, inside>>
    BY <1>4 DEF Publish
  <2>2. CASE payload'["mutex"] = payload["mutex"]
    BY <1>a, <2>1, <2>2 DEF IsInitialized
  <2>3. CASE payload'["mutex"] # payload["mutex"]
    <3>1. payload["mutex"] = seen[t]
      BY <1>4, <1>a, <2>3 DEF Publish
    <3>2. ~IsInitialized(payload["mutex"])
      BY <2>1, <3>1 DEF CreateInv, Creates, IsInitialized
    <3> QED BY <1>a, <2>1, <3>2
  <2> QED BY <2>2, <2>3
<1>5. ASSUME NEW t \in Threads, MutexLock(t) \/ Relock(t) PROVE HoldInv'
  <2>1. Acquire(t) /\ "mutex" \in Uses(t) /\ ptr[t]["mutex"] # NoAddr
    BY <1>5 DEF MutexLock, Relock, Ready, Uses, Needs, CallInv, Works
  <2> QED BY <1>c, <2>1
<1>6. ASSUME NEW t \in Threads, MutexTrylock(t) PROVE HoldInv'
  <2>1. "mutex" \in Uses(t) /\ ptr[t]["mutex"] # NoAddr
    BY <1>6 DEF MutexTrylock, Ready, Uses, Needs
  <2>2. CASE Acquire(t)
    BY <1>c, <2>1, <2>2
  <2>3. CASE ~Acquire(t)
    <3>1. UNCHANGED <<payload, live, owner, inside>> /\ pc' = [pc EXCEPT ![t] = "idle"]
          /\ op' = [op EXCEPT ![t] = "lock"]
      BY <1>6, <2>3 DEF MutexTrylock, Return, words
    <3> QED BY <1>a, <1>b, <3>1
  <2> QED BY <2>2, <2>3
<1>7. ASSUME NEW t \in Threads, MutexUnlock(t) PROVE HoldInv'
  <2>1. /\ pc[t] = "resolve" /\ op[t] = "unlock" /\ inside' = inside \ {t}
        /\ UNCHANGED <<payload, live>> /\ pc' = [pc EXCEPT ![t] = "idle"]
        /\ op' = [op EXCEPT ![t] = "lock"]
    BY <1>7 DEF MutexUnlock, Ready, Return, words
  <2> QED BY <1>a, <1>d, <2>1
<1>8. ASSUME NEW t \in Threads, CondWait(t) PROVE HoldInv'
  <2>1. /\ pc[t] = "resolve" /\ op[t] = "wait" /\ inside' = inside \ {t}
        /\ UNCHANGED <<payload, live, op>> /\ pc' = [pc EXCEPT ![t] = "asleep"]
    BY <1>8 DEF CondWait, Ready, words
  <2> QED BY <1>a, <1>d, <2>1
<1>9. ASSUME NEW t \in Threads, CondSignal(t) \/ CondBroadcast(t) PROVE HoldInv'
  <2>1. UNCHANGED <<payload, live, owner, inside>>
    BY <1>9, Notified DEF words, host
  <2>2. \A s \in inside : pc'[s] \notin {"asleep", "relock"}
    BY <1>9, <1>a, Notified
  <2>3. \A s \in Threads : pc'[s] \in {"resolve", "create", "publish"} =>
                             pc'[s] = pc[s] /\ op'[s] = op[s]
    BY <1>9, <1>a, Notified
  <2> QED BY <2>1, <2>2, <2>3 DEF IsInitialized
<1>10. ASSUME NEW t \in Threads, Timeout(t) PROVE HoldInv'
  BY <1>10, <1>a, <1>b DEF Timeout, words, host
<1>11. ASSUME NEW t \in Threads, NEW x \in Objects, Destroy(t, x) PROVE HoldInv'
  <2>1. UNCHANGED <<pc, op, owner, inside>> /\ (x = "mutex" => inside = {})
    BY <1>11 DEF Destroy, Quiet, thread
  <2>2. x # "mutex" => payload'["mutex"] = payload["mutex"] /\ live'["mutex"] = live["mutex"]
    BY <1>11, <1>a DEF Destroy
  <2> QED BY <1>a, <2>1, <2>2 DEF IsInitialized
<1>12. ASSUME NEW t \in Threads, NEW x \in Objects, NEW k \in Kinds, InitObject(t, x, k)
      PROVE  HoldInv'
  <2>1. UNCHANGED <<pc, op, inside>> /\ ~live[x]
        /\ \E a \in Addresses \ heap : owner' = [owner EXCEPT ![a] = NoThread]
    BY <1>12 DEF InitObject, thread
  <2>2. x # "mutex" => payload'["mutex"] = payload["mutex"] /\ live'["mutex"] = live["mutex"]
    BY <1>12, <1>a DEF InitObject
  <2>3. IsInitialized(payload["mutex"]) => owner'[payload["mutex"]] = owner[payload["mutex"]]
    BY <1>a, <2>1 DEF HeapInv
  <2> QED BY <1>a, <2>1, <2>2, <2>3 DEF IsInitialized
<1>13. ASSUME NEW t \in Threads, OnceBegin(t) \/ Once(t) PROVE HoldInv'
  <2>1. UNCHANGED <<payload, live, owner, inside, op>>
    BY <1>13 DEF OnceBegin, Once, OnceElect, OnceDone, OnceSpin, words, host
  <2>2. \E p \in {"idle", "once", "routine", "spin"} : pc' = [pc EXCEPT ![t] = p]
    BY <1>13 DEF OnceBegin, Once, OnceElect, OnceDone, OnceSpin
  <2> QED BY <1>a, <1>b, <2>1, <2>2
<1>14. CASE UNCHANGED vars
  BY <1>14 DEF vars, words, host, thread, IsInitialized
<1> QED BY <1>1, <1>2, <1>3, <1>4, <1>5, <1>6, <1>7, <1>8, <1>9, <1>10, <1>11, <1>12,
           <1>13, <1>14 DEF Next

(* Every step keeps the kind the game asked for. *)
LEMMA KindStep ==
    ASSUME TypeOK, HeapInv, CreateInv, CallInv, KindInv, [Next]_vars
    PROVE  KindInv'
<1> USE DEF KindInv, KindIsKept
<1>a. /\ pc \in [Threads -> Places] /\ cur \in [Threads -> Objects]
      /\ payload \in [Objects -> Words] /\ live \in [Objects -> BOOLEAN]
      /\ kindOf \in [Addresses -> Kinds] /\ header \in Kinds /\ declared \in Kinds
      /\ mine \in [Threads -> Addresses \cup {NoAddr}]
      /\ heap \subseteq Addresses /\ "mutex" \in Objects /\ "cond" \in Objects
      /\ Zero \in Kinds /\ \A a \in Addresses : a \notin Kinds
      /\ \A x \in Objects : x = "mutex" \/ x = "cond"
  BY ShimConstants DEF TypeOK, Objects, Zero, Kinds
(* Steps that create, publish and free no object. *)
<1>b. ASSUME UNCHANGED <<words, kindOf, mine>>,
             \A s \in Threads : pc'[s] = "publish" => pc[s] = "publish" /\ cur'[s] = cur[s]
      PROVE  KindInv'
  BY <1>b DEF words, IsInitialized
<1>1. ASSUME NEW t \in Threads, NEW o \in Ops, Call(t, o) PROVE KindInv'
  BY <1>1, <1>a, <1>b DEF Call, host
<1>2. ASSUME NEW t \in Threads, ToHost(t) PROVE KindInv'
  <2>1. UNCHANGED <<words, kindOf, mine>>
    BY <1>2 DEF ToHost, host
  <2>2. \/ UNCHANGED <<pc, cur>>
        \/ \E x \in Objects : pc' = [pc EXCEPT ![t] = "create"] /\ cur' = [cur EXCEPT ![t] = x]
    BY <1>2 DEF ToHost, Needs, Objects
  <2> QED BY <1>a, <1>b, <2>1, <2>2
<1>3. ASSUME NEW t \in Threads, Create(t) PROVE KindInv'
  <2>1. PICK a \in Addresses \ heap :
          kindOf' = [kindOf EXCEPT ![a] = InitValue(cur[t])] /\ mine' = [mine EXCEPT ![t] = a]
    BY <1>3 DEF Create
  <2>2. /\ pc[t] = "create" /\ pc' = [pc EXCEPT ![t] = "publish"]
        /\ UNCHANGED <<lp64, header, payload, declared, live, cur>>
    BY <1>3 DEF Create, words
  <2>3. cur[t] = "mutex" /\ ~IsInitialized(payload["mutex"]) => InitValue(cur[t]) = declared
    <3>1. cur[t] \in Uses(t)
      BY <2>2 DEF CreateInv, Creates, Uses
    <3>2. live[cur[t]]
      BY <3>1 DEF CallInv, Works
    <3> QED BY <1>a, <3>2 DEF InitValue, IsInitialized
  <2>4. IsInitialized(payload["mutex"]) => payload["mutex"] # a /\ payload["mutex"] \in Addresses
    BY <1>a DEF HeapInv
  <2>5. \A s \in Threads : pc[s] = "publish" => mine[s] # a /\ mine[s] \in Addresses
    BY <1>a DEF HeapInv
  <2>6. KindIsKept'
    BY <1>a, <2>1, <2>2, <2>4 DEF IsInitialized
  <2>7. ASSUME NEW s \in Threads, pc'[s] = "publish", cur'[s] = "mutex",
               ~IsInitialized(payload["mutex"])
        PROVE  kindOf'[mine'[s]] = declared'
    <3>1. CASE s = t
      BY <1>a, <2>1, <2>2, <2>3, <2>7, <3>1
    <3>2. CASE s # t
      BY <1>a, <2>1, <2>2, <2>5, <2>7, <3>2
    <3> QED BY <3>1, <3>2
  <2> QED BY <2>2, <2>6, <2>7 DEF IsInitialized
<1>4. ASSUME NEW t \in Threads, Publish(t) PROVE KindInv'
  <2>1. /\ pc[t] = "publish" /\ pc' = [pc EXCEPT ![t] = "resolve"]
        /\ mine' = [mine EXCEPT ![t] = NoAddr] /\ cur' = [cur EXCEPT ![t] = "mutex"]
        /\ UNCHANGED <<lp64, header, declared, live>> /\ cur[t] \in Objects
        /\ mine[t] \in heap /\ \A y \in Objects : mine[t] # payload[y]
    BY <1>4, <1>a DEF Publish, HeapInv
  <2>2. CASE payload[cur[t]] = seen[t]
    <3>1. payload' = [payload EXCEPT ![cur[t]] = mine[t]] /\ UNCHANGED kindOf
      BY <1>4, <2>2 DEF Publish
    <3>2. ~IsInitialized(payload[cur[t]])
      BY <2>1, <2>2 DEF CreateInv, Creates, IsInitialized
    <3> QED BY <1>a, <2>1, <3>1, <3>2 DEF IsInitialized
  <2>3. CASE payload[cur[t]] # seen[t]
    <3>1. kindOf' = [kindOf EXCEPT ![mine[t]] = "normal"] /\ UNCHANGED payload
      BY <1>4, <2>3 DEF Publish
    <3>2. \A s \in Threads : s # t /\ pc[s] = "publish" => mine[s] # mine[t] /\ mine[s] \in Addresses
      BY <1>a, <2>1 DEF HeapInv
    <3>3. IsInitialized(payload["mutex"]) => payload["mutex"] \in Addresses
      BY <1>a DEF HeapInv
    <3> QED BY <1>a, <2>1, <3>1, <3>2, <3>3 DEF IsInitialized
  <2> QED BY <2>2, <2>3
<1>5. ASSUME NEW t \in Threads,
             MutexLock(t) \/ MutexTrylock(t) \/ MutexUnlock(t) \/ CondWait(t) \/ Relock(t)
      PROVE  KindInv'
  <2>1. UNCHANGED <<words, kindOf, mine, cur>>
    BY <1>5 DEF MutexLock, MutexTrylock, MutexUnlock, CondWait, Relock, Acquire, Return
  <2>2. pc' = [pc EXCEPT ![t] = "idle"] \/ pc' = [pc EXCEPT ![t] = "asleep"]
    BY <1>5 DEF MutexLock, MutexTrylock, MutexUnlock, CondWait, Relock, Acquire, Return
  <2> QED BY <1>a, <1>b, <2>1, <2>2
<1>6. ASSUME NEW t \in Threads, CondSignal(t) \/ CondBroadcast(t) PROVE KindInv'
  BY <1>6, <1>b, Notified DEF host
<1>7. ASSUME NEW t \in Threads, Timeout(t) PROVE KindInv'
  BY <1>7, <1>a, <1>b DEF Timeout, host
<1>8. ASSUME NEW t \in Threads, NEW x \in Objects, Destroy(t, x) PROVE KindInv'
  <2>1. UNCHANGED <<lp64, header, declared, pc, cur, mine>> /\ live' = [live EXCEPT ![x] = FALSE]
    BY <1>8 DEF Destroy, thread
  <2>2. \A s \in Threads : pc[s] = "publish" => cur[s] # x /\ mine[s] # payload[x] /\ mine[s] \in Addresses
    BY <1>8, <1>a DEF Destroy, Quiet, CreateInv, Creates, HeapInv
  <2>3. CASE IsInitialized(payload[x])
    <3>1. /\ kindOf' = [kindOf EXCEPT ![payload[x]] = "normal"]
          /\ payload' = [payload EXCEPT ![x] = Zero]
      BY <1>8, <2>3 DEF Destroy
    <3>2. IsInitialized(payload["mutex"]) => payload["mutex"] \in Addresses
      BY <1>a DEF HeapInv
    <3>3. CASE x = "mutex"
      BY <1>a, <2>1, <2>2, <3>1, <3>3 DEF IsInitialized
    <3>4. CASE x = "cond"
      <4>1. payload'["mutex"] = payload["mutex"] /\ live'["mutex"] = live["mutex"]
        BY <1>a, <2>1, <3>1, <3>4
      <4>2. IsInitialized(payload["mutex"]) => kindOf'[payload["mutex"]] = kindOf[payload["mutex"]]
        BY <1>a, <3>1, <3>2, <3>4 DEF HeapInv
      <4>3. \A s \in Threads : pc[s] = "publish" => kindOf'[mine[s]] = kindOf[mine[s]]
        BY <1>a, <2>2, <3>1
      <4> QED BY <2>1, <4>1, <4>2, <4>3 DEF IsInitialized
    <3> QED BY <1>a, <3>3, <3>4
  <2>4. CASE ~IsInitialized(payload[x])
    <3>1. UNCHANGED <<kindOf, payload>>
      BY <1>8, <2>4 DEF Destroy
    <3> QED BY <1>a, <2>1, <2>2, <3>1 DEF IsInitialized
  <2> QED BY <2>3, <2>4
<1>9. ASSUME NEW t \in Threads, NEW x \in Objects, NEW k \in Kinds, InitObject(t, x, k)
      PROVE  KindInv'
  <2>1. PICK a \in Addresses \ heap :
          kindOf' = [kindOf EXCEPT ![a] = k] /\ payload' = [payload EXCEPT ![x] = a]
    BY <1>9 DEF InitObject
  <2>2. /\ UNCHANGED <<lp64, header, pc, cur, mine>> /\ live' = [live EXCEPT ![x] = TRUE]
        /\ declared' = IF x = "mutex" THEN k ELSE declared
    BY <1>9 DEF InitObject, thread
  <2>3. IsInitialized(payload["mutex"]) => payload["mutex"] # a /\ payload["mutex"] \in Addresses
    BY <1>a DEF HeapInv
  <2>4. \A s \in Threads : pc[s] = "publish" => mine[s] # a /\ mine[s] \in Addresses
    BY <1>a DEF HeapInv
  <2>5. CASE x = "mutex"
    BY <1>a, <2>1, <2>2, <2>5 DEF IsInitialized
  <2>6. CASE x = "cond"
    <3>1. payload'["mutex"] = payload["mutex"] /\ live'["mutex"] = live["mutex"]
          /\ declared' = declared
      BY <1>a, <2>1, <2>2, <2>6
    <3>2. IsInitialized(payload["mutex"]) => kindOf'[payload["mutex"]] = kindOf[payload["mutex"]]
      BY <1>a, <2>1, <2>3
    <3>3. \A s \in Threads : pc[s] = "publish" => kindOf'[mine[s]] = kindOf[mine[s]]
      BY <1>a, <2>1, <2>4
    <3> QED BY <2>2, <3>1, <3>2, <3>3 DEF IsInitialized
  <2> QED BY <1>a, <2>5, <2>6
<1>10. ASSUME NEW t \in Threads, OnceBegin(t) \/ Once(t) PROVE KindInv'
  <2>1. UNCHANGED <<words, kindOf, mine, cur>>
    BY <1>10 DEF OnceBegin, Once, OnceElect, OnceDone, OnceSpin, host
  <2>2. \E p \in {"idle", "once", "routine", "spin"} : pc' = [pc EXCEPT ![t] = p]
    BY <1>10 DEF OnceBegin, Once, OnceElect, OnceDone, OnceSpin
  <2> QED BY <1>a, <1>b, <2>1, <2>2
<1>11. CASE UNCHANGED vars
  BY <1>11, <1>b DEF vars, host, thread
<1> QED BY <1>1, <1>2, <1>3, <1>4, <1>5, <1>6, <1>7, <1>8, <1>9, <1>10, <1>11 DEF Next

(* Every step keeps the control and the routine in step. *)
LEMMA OnceStep ==
    ASSUME TypeOK, OnceInv, [Next]_vars
    PROVE  OnceInv' /\ ReturnsAfterRoutine
<1> USE DEF OnceInv, ReturnsAfterRoutine
<1>a. /\ pc \in [Threads -> Places] /\ control \in 0..2 /\ ran \in Nat
  BY DEF TypeOK
<1>b. ASSUME UNCHANGED once,
             \A s \in Threads : pc[s] \in {"once", "routine", "spin"} => pc'[s] = pc[s],
             \A s \in Threads : pc'[s] \in {"routine", "spin"} => pc'[s] = pc[s]
      PROVE  OnceInv' /\ ReturnsAfterRoutine
  BY <1>a, <1>b DEF once
<1>1. ASSUME NEW t \in Threads, \E o \in Ops : Call(t, o)
      PROVE  OnceInv' /\ ReturnsAfterRoutine
  BY <1>1, <1>a, <1>b DEF Call
<1>2. ASSUME NEW t \in Threads, ToHost(t) \/ Create(t) \/ Publish(t)
      PROVE  OnceInv' /\ ReturnsAfterRoutine
  <2>1. /\ UNCHANGED once /\ pc[t] \in {"resolve", "create", "publish"}
        /\ UNCHANGED pc \/ \E p \in {"create", "publish", "resolve"} : pc' = [pc EXCEPT ![t] = p]
    BY <1>2 DEF ToHost, Create, Publish
  <2> QED BY <1>a, <1>b, <2>1
<1>3. ASSUME NEW t \in Threads,
             MutexLock(t) \/ MutexTrylock(t) \/ MutexUnlock(t) \/ CondWait(t) \/ Relock(t)
      PROVE  OnceInv' /\ ReturnsAfterRoutine
  <2>1. UNCHANGED once /\ pc[t] \in {"resolve", "relock"}
    BY <1>3 DEF MutexLock, MutexTrylock, MutexUnlock, CondWait, Relock, Ready, Acquire, Return
  <2>2. pc' = [pc EXCEPT ![t] = "idle"] \/ pc' = [pc EXCEPT ![t] = "asleep"]
    BY <1>3 DEF MutexLock, MutexTrylock, MutexUnlock, CondWait, Relock, Acquire, Return
  <2> QED BY <1>a, <1>b, <2>1, <2>2
<1>4. ASSUME NEW t \in Threads, CondSignal(t) \/ CondBroadcast(t)
      PROVE  OnceInv' /\ ReturnsAfterRoutine
  <2>1. UNCHANGED once
    BY <1>4, Notified
  <2>2. \A s \in Threads : pc[s] \in {"once", "routine", "spin"} => pc'[s] = pc[s]
    BY <1>4, Notified
  <2>3. \A s \in Threads : pc'[s] \in {"routine", "spin"} => pc'[s] = pc[s]
    BY <1>4, Notified
  <2> QED BY <1>b, <2>1, <2>2, <2>3
<1>5. ASSUME NEW t \in Threads, Timeout(t) PROVE OnceInv' /\ ReturnsAfterRoutine
  BY <1>5, <1>a, <1>b DEF Timeout
<1>6. ASSUME NEW t \in Threads, \/ \E x \in Objects : Destroy(t, x)
                                \/ \E x \in Objects, k \in Kinds : InitObject(t, x, k)
      PROVE  OnceInv' /\ ReturnsAfterRoutine
  <2>1. UNCHANGED <<pc, once>>
    BY <1>6 DEF Destroy, InitObject, thread
  <2> QED BY <1>b, <2>1
<1>7. ASSUME NEW t \in Threads, OnceBegin(t) PROVE OnceInv' /\ ReturnsAfterRoutine
  BY <1>7, <1>a, <1>b DEF OnceBegin
<1>8. ASSUME NEW t \in Threads, OnceElect(t) PROVE OnceInv' /\ ReturnsAfterRoutine
  <2>1. CASE control = 0
    BY <1>8, <1>a, <2>1 DEF OnceElect
  <2>2. CASE control = 1
    BY <1>8, <1>a, <2>2 DEF OnceElect
  <2>3. CASE control = 2
    BY <1>8, <1>a, <2>3 DEF OnceElect
  <2> QED BY <1>a, <2>1, <2>2, <2>3
<1>9. ASSUME NEW t \in Threads, OnceDone(t) PROVE OnceInv' /\ ReturnsAfterRoutine
  BY <1>9, <1>a DEF OnceDone
<1>10. ASSUME NEW t \in Threads, OnceSpin(t) PROVE OnceInv' /\ ReturnsAfterRoutine
  BY <1>10, <1>a DEF OnceSpin, once
<1>11. CASE UNCHANGED vars
  BY <1>11, <1>b DEF vars, thread
<1> QED BY <1>1, <1>2, <1>3, <1>4, <1>5, <1>6, <1>7, <1>8, <1>9, <1>10, <1>11 DEF Next, Once

LEMMA InitInv == Init => ObjectsInv /\ KindInv /\ OnceInv
<1> SUFFICES ASSUME Init PROVE ObjectsInv /\ KindInv /\ OnceInv
  OBVIOUS
<1>1. TypeOK
  <2>1. None \in [Objects -> Addresses \cup {NoAddr}]
    BY DEF None
  <2>2. ptr \in [Threads -> [Objects -> Addresses \cup {NoAddr}]]
    BY <2>1 DEF Init
  <2>3. payload \in [Objects -> Words] /\ Zero \in Words
    BY DEF Init, Words, Zero, Kinds
  <2> QED BY <2>2, <2>3 DEF Init, TypeOK, Words, Objects, Kinds, Places, Ops
<1>2. /\ \A x \in Objects : payload[x] \in Kinds
      /\ payload["mutex"] = IF lp64 THEN Zero ELSE declared
      /\ \A t \in Threads : pc[t] = "idle" /\ ptr[t] = None
      /\ heap = {} /\ inside = {} /\ header = declared /\ control = 0 /\ ran = 0
  BY DEF Init, Objects, Zero, Kinds
<1>3. HeapInv /\ CreateInv /\ HoldInv /\ KindInv /\ OnceInv
  BY <1>2 DEF HeapInv, CreateInv, HoldInv, KindInv, KindIsKept, OnceInv, IsInitialized, Objects
<1>4. CallInv
  BY <1>2 DEF CallInv, Works, Uses
<1> QED BY <1>1, <1>3, <1>4 DEF ObjectsInv

LEMMA ObjectsAlways == Spec => []ObjectsInv
<1>1. ObjectsInv /\ [Next]_vars => ObjectsInv'
  BY TypeStep, HeapStep, CreateStep, CallStep, HoldStep DEF ObjectsInv
<1> QED BY <1>1, InitInv, PTL DEF Spec

(* At most one thread is inside: it owns the published host mutex. *)
LEMMA OneInside ==
    ASSUME HoldInv
    PROVE  MutualExclusion
BY DEF HoldInv, MutualExclusion

-----------------------------------------------------------------------------
(* However many threads race to create a mutex or a condition variable, and
   however often it is destroyed and initialised again, all calls work on one
   allocated host object, the critical sections exclude each other and nothing
   that was allocated is lost. *)
THEOREM OneObject == Spec => []OneObjectForAll
<1>1. ObjectsInv => OneObjectForAll
  BY OneInside DEF ObjectsInv, OneObjectForAll, HeapInv, CallInv, Works
<1> QED BY <1>1, ObjectsAlways, PTL

(* The host mutex has the type the game asked for, in both builds: also where
   the static value and the pointer that replaces it share a word. *)
THEOREM KindKept == Spec => []KindIsKept
<1>1. ObjectsInv /\ KindInv /\ [Next]_vars => KindInv'
  BY KindStep DEF ObjectsInv
<1>2. KindInv => KindIsKept
  BY DEF KindInv
<1> QED BY <1>1, <1>2, ObjectsAlways, InitInv, PTL DEF Spec

(* pthread_once runs its routine once, and no call returns before it is done. *)
THEOREM OnceIsSafe == Spec => [][ReturnsAfterRoutine]_vars
<1>1. ObjectsInv /\ OnceInv /\ [Next]_vars => OnceInv' /\ [ReturnsAfterRoutine]_vars
  BY OnceStep DEF ObjectsInv
<1> QED BY <1>1, ObjectsAlways, InitInv, PTL DEF Spec

-----------------------------------------------------------------------------
Holder == IF inside = {} THEN NoThread ELSE CHOOSE t \in inside : TRUE
Asleep == {t \in Threads : pc[t] = "asleep"}

(* Every step of the shim is a step of the monitor or leaves it unchanged. *)
LEMMA MonitorStep ==
    ASSUME ObjectsInv, [Next]_vars
    PROVE  [Monitor!Next]_(Monitor!vars)
<1> USE DEF Monitor!vars
<1>a. /\ pc \in [Threads -> Places] /\ inside \subseteq Threads /\ NoThread \notin Threads
      /\ \A s, t \in inside : s = t
  BY OneInside, ShimConstants DEF ObjectsInv, TypeOK, MutualExclusion
<1>h. /\ inside = {} => Holder = NoThread
      /\ \A t \in inside : Holder = t
  BY <1>a DEF Holder
<1>b. ASSUME UNCHANGED inside, \A s \in Threads : pc'[s] = "asleep" <=> pc[s] = "asleep"
      PROVE  UNCHANGED Monitor!vars
  BY <1>b DEF Monitor!vars
<1>c. ASSUME UNCHANGED inside, \A s \in Threads : pc'[s] = "asleep" => pc[s] = "asleep"
      PROVE  Monitor!Next
  <2>1. UNCHANGED Holder
    BY <1>c DEF Holder
  <2>2. Asleep' = Asleep \ (Asleep \ Asleep')
    BY <1>c DEF Asleep
  <2> QED BY <2>1, <2>2 DEF Monitor!Next, Monitor!Wake, Holder, Asleep
<1>d. ASSUME NEW t \in Threads, Acquire(t), pc[t] # "asleep", "mutex" \in Uses(t),
             ptr[t]["mutex"] # NoAddr
      PROVE  Monitor!Next
  <2>1. ptr[t]["mutex"] = payload["mutex"]
    BY <1>d DEF ObjectsInv, CallInv, Works
  <2>2. inside = {} /\ inside' = {t} /\ pc' = [pc EXCEPT ![t] = "idle"]
    BY <1>a, <1>d, <2>1 DEF Acquire, Return, ObjectsInv, HoldInv
  <2>3. Holder = NoThread /\ Holder' = t
    BY <2>2 DEF Holder
  <2>4. Asleep' = Asleep /\ t \notin Asleep
    BY <1>a, <1>d, <2>2 DEF Asleep
  <2>5. Monitor!Acquire(t)
    BY <2>3, <2>4 DEF Monitor!Acquire, Holder, Asleep
  <2> QED BY <2>5 DEF Monitor!Next
<1>e. ASSUME NEW t \in Threads, pc[t] = "resolve", op[t] \in {"unlock", "wait"},
             inside' = inside \ {t}
      PROVE  Holder = t /\ Holder' = NoThread
  <2>1. t \in inside
    BY <1>e DEF ObjectsInv, HoldInv
  <2>2. inside' = {}
    BY <1>a, <1>e, <2>1
  <2> QED BY <1>h, <2>1, <2>2 DEF Holder
<1>1. ASSUME NEW t \in Threads, \E o \in Ops : Call(t, o) PROVE UNCHANGED Monitor!vars
  BY <1>1, <1>a, <1>b DEF Call
<1>2. ASSUME NEW t \in Threads, ToHost(t) \/ Create(t) \/ Publish(t)
      PROVE  UNCHANGED Monitor!vars
  <2>1. /\ UNCHANGED inside /\ pc[t] \in {"resolve", "create", "publish"}
        /\ UNCHANGED pc \/ \E p \in {"create", "publish", "resolve"} : pc' = [pc EXCEPT ![t] = p]
    BY <1>2 DEF ToHost, Create, Publish
  <2> QED BY <1>a, <1>b, <2>1
<1>3. ASSUME NEW t \in Threads, MutexLock(t) \/ Relock(t) PROVE Monitor!Next
  <2>1. Acquire(t) /\ pc[t] # "asleep" /\ "mutex" \in Uses(t) /\ ptr[t]["mutex"] # NoAddr
    BY <1>3 DEF MutexLock, Relock, Ready, Uses, Needs, ObjectsInv, CallInv, Works
  <2> QED BY <1>d, <2>1
<1>4. ASSUME NEW t \in Threads, MutexTrylock(t) PROVE [Monitor!Next]_(Monitor!vars)
  <2>1. pc[t] = "resolve" /\ "mutex" \in Uses(t) /\ ptr[t]["mutex"] # NoAddr
    BY <1>4 DEF MutexTrylock, Ready, Uses, Needs
  <2>2. CASE Acquire(t)
    BY <1>d, <2>1, <2>2
  <2>3. CASE ~Acquire(t)
    <3>1. UNCHANGED inside /\ pc' = [pc EXCEPT ![t] = "idle"]
      BY <1>4, <2>3 DEF MutexTrylock, Return
    <3> QED BY <1>a, <1>b, <2>1, <3>1
  <2> QED BY <2>2, <2>3
<1>5. ASSUME NEW t \in Threads, MutexUnlock(t) PROVE Monitor!Next
  <2>1. /\ pc[t] = "resolve" /\ op[t] = "unlock" /\ inside' = inside \ {t}
        /\ pc' = [pc EXCEPT ![t] = "idle"]
    BY <1>5 DEF MutexUnlock, Ready, Return
  <2>2. Asleep' = Asleep
    BY <1>a, <2>1 DEF Asleep
  <2>3. Monitor!Release(t)
    BY <1>e, <2>1, <2>2 DEF Monitor!Release, Holder, Asleep
  <2> QED BY <2>3 DEF Monitor!Next
<1>6. ASSUME NEW t \in Threads, CondWait(t) PROVE Monitor!Next
  <2>1. /\ pc[t] = "resolve" /\ op[t] = "wait" /\ inside' = inside \ {t}
        /\ pc' = [pc EXCEPT ![t] = "asleep"]
    BY <1>6 DEF CondWait, Ready
  <2>2. Asleep' = Asleep \cup {t}
    BY <1>a, <2>1 DEF Asleep
  <2>3. Monitor!Wait(t)
    BY <1>e, <2>1, <2>2 DEF Monitor!Wait, Holder, Asleep
  <2> QED BY <2>3 DEF Monitor!Next
<1>7. ASSUME NEW t \in Threads, CondSignal(t) \/ CondBroadcast(t) PROVE Monitor!Next
  <2>1. UNCHANGED inside
    BY <1>7, Notified
  <2>2. \A s \in Threads : pc'[s] = "asleep" => pc[s] = "asleep"
    BY <1>7, Notified
  <2> QED BY <1>c, <2>1, <2>2
<1>8. ASSUME NEW t \in Threads, Timeout(t) PROVE Monitor!Next
  BY <1>8, <1>a, <1>c DEF Timeout
<1>9. ASSUME NEW t \in Threads, \/ \E x \in Objects : Destroy(t, x)
                                \/ \E x \in Objects, k \in Kinds : InitObject(t, x, k)
      PROVE  UNCHANGED Monitor!vars
  <2>1. UNCHANGED <<pc, inside>>
    BY <1>9 DEF Destroy, InitObject, thread
  <2> QED BY <1>b, <2>1
<1>10. ASSUME NEW t \in Threads, OnceBegin(t) \/ Once(t) PROVE UNCHANGED Monitor!vars
  <2>1. UNCHANGED inside
    BY <1>10 DEF OnceBegin, Once, OnceElect, OnceDone, OnceSpin
  <2>2. /\ pc[t] \in {"idle", "once", "routine", "spin"}
        /\ \E p \in {"idle", "once", "routine", "spin"} : pc' = [pc EXCEPT ![t] = p]
    BY <1>10 DEF OnceBegin, Once, OnceElect, OnceDone, OnceSpin
  <2> QED BY <1>a, <1>b, <2>1, <2>2
<1>11. CASE UNCHANGED vars
  BY <1>11, <1>b DEF vars, thread
<1> QED BY <1>1, <1>2, <1>3, <1>4, <1>5, <1>6, <1>7, <1>8, <1>9, <1>10, <1>11 DEF Next

(* The lazily created host objects are a mutex and a condition variable as POSIX
   promises them: one holder, a wait that gives the mutex up, and wake-ups of
   threads that are asleep only. *)
THEOREM MonitorRefinement == Spec => ImplementsMonitor
<1>1. Init => Monitor!Init
  BY DEF Init, Monitor!Init
<1> QED BY <1>1, MonitorStep, ObjectsAlways, PTL DEF Spec, ImplementsMonitor, Monitor!Spec
================================================================================
