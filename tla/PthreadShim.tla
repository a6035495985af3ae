------------------------------ MODULE PthreadShim ------------------------------
(***************************************************************************)
(* The pthread objects that libc-shim gives the game                       *)
(* (src/libc-shim/src/pthreads.cpp, pthreads.h).  A bionic mutex or        *)
(* condition variable is a few words the game may initialise statically;   *)
(* the first thread that uses one creates the host object and publishes    *)
(* its address in a payload word with a compare-and-exchange.  Several     *)
(* threads may do so at once.  In a 64-bit build the payload is a word of  *)
(* its own and the first word keeps the static initialiser; in a 32-bit    *)
(* build both are the same word.                                           *)
(*                                                                         *)
(* The model has one mutex, one condition variable and one pthread_once_t. *)
(* The game keeps POSIX's rules: it unlocks and waits with the mutex held, *)
(* and destroys what nobody uses.  The host's own objects are external.    *)
(***************************************************************************)
EXTENDS Naturals, FiniteSets

CONSTANTS
    Threads,        \* the game's threads
    Addresses,      \* what malloc may return
    NoThread, NoAddr

\* What a mutex can be asked to be; in the words of the game, the values
\* mutex_init_value (0), recursive_mutex_init_value, errorcheck_mutex_init_value.
Kinds == {"normal", "recursive", "errorcheck"}
Zero == "normal"
Objects == {"mutex", "cond"}
Words == Kinds \cup Addresses
Ops == {"lock", "trylock", "unlock", "wait", "signal", "broadcast"}
Places == {"idle", "resolve", "create", "publish", "asleep", "relock",
           "once", "routine", "spin"}

ASSUME ShimConstants ==
    /\ NoThread \notin Threads
    /\ NoAddr \notin Addresses
    /\ Addresses \cap Kinds = {}

VARIABLES
    lp64,       \* which build this is
    header,     \* the first word of the mutex, in a 64-bit build
    payload,    \* the payload word of each object
    declared,   \* the kind of mutex the game asked for (history)
    live,       \* the objects the game may use: not destroyed since the last init
    heap,       \* the allocated host objects
    kindOf,     \* the type each host mutex was initialised with
    owner,      \* who holds each host mutex
    pc, op,     \* where each thread is, and in which call
    ptr,        \* the host objects its call has resolved
    cur,        \* the object it is creating,
    seen,       \* the payload word it loaded before that,
    mine,       \* and the host object it has not published yet
    inside,     \* the threads whose lock call has returned (history)
    control,    \* the pthread_once_t
    ran         \* how often its routine has been called (history)

words == <<lp64, header, payload, declared, live>>
host == <<heap, kindOf, owner>>
thread == <<pc, op, ptr, cur, seen, mine>>
once == <<control, ran>>
vars == <<words, host, thread, inside, once>>

None == [x \in Objects |-> NoAddr]

Init ==
    /\ lp64 \in BOOLEAN
    /\ declared \in Kinds
    /\ header = declared
    /\ payload = [x \in Objects |->
                    IF x = "mutex" /\ ~lp64 THEN declared ELSE Zero]
    /\ live = [x \in Objects |-> TRUE]
    /\ heap = {}
    /\ kindOf = [a \in Addresses |-> "normal"]
    /\ owner = [a \in Addresses |-> NoThread]
    /\ pc = [t \in Threads |-> "idle"]
    /\ op = [t \in Threads |-> "lock"]
    /\ ptr = [t \in Threads |-> None]
    /\ cur = [t \in Threads |-> "mutex"]
    /\ seen = [t \in Threads |-> Zero]
    /\ mine = [t \in Threads |-> NoAddr]
    /\ inside = {}
    /\ control = 0
    /\ ran = 0

--------------------------------------------------------------------------------
\* is_mutex_initialized, is_cond_initialized: an address, not a static value.
IsInitialized(word) == word \notin Kinds

\* Mutation: the word that holds the static value is taken to be the payload in
\* every build.
InitValue_PayloadOnly(x) ==
    IF x # "mutex" \/ IsInitialized(payload["mutex"]) THEN "normal"
    ELSE payload["mutex"]

\* The initial value of the object: what mutex_static_initializer is passed as
\* o->data[0], read after the payload was.  A pointer found there is none of
\* the two special values.
InitValue(x) ==
    IF x # "mutex" THEN "normal"
    ELSE LET word == IF lp64 THEN header ELSE payload["mutex"]
         IN  IF IsInitialized(word) THEN "normal" ELSE word

\* The objects whose host object a call needs.
Needs(o) ==
    CASE o = "wait" -> {"mutex", "cond"}
      [] o \in {"signal", "broadcast"} -> {"cond"}
      [] OTHER -> {"mutex"}

\* The game calls one of the pthread functions, as POSIX allows it to.
Call(t, o) ==
    /\ pc[t] = "idle"
    /\ \A x \in Needs(o) : live[x]
    /\ o \in {"unlock", "wait"} => t \in inside
    /\ o \in {"lock", "trylock"} => t \notin inside
    /\ pc' = [pc EXCEPT ![t] = "resolve"]
    /\ op' = [op EXCEPT ![t] = o]
    /\ UNCHANGED <<words, host, ptr, cur, seen, mine, inside, once>>

\* to_host: load the payload; it is the host object, or one must be created.
\* The arguments of pthread_cond_wait may be evaluated in either order.
ToHost(t) ==
    /\ pc[t] = "resolve"
    /\ \E x \in Needs(op[t]) :
        /\ ptr[t][x] = NoAddr
        /\ IF IsInitialized(payload[x])
           THEN /\ ptr' = [ptr EXCEPT ![t][x] = payload[x]]
                /\ UNCHANGED <<pc, cur, seen>>
           ELSE /\ pc' = [pc EXCEPT ![t] = "create"]
                /\ cur' = [cur EXCEPT ![t] = x]
                /\ seen' = [seen EXCEPT ![t] = payload[x]]
                /\ UNCHANGED ptr
    /\ UNCHANGED <<words, host, op, mine, inside, once>>

\* mutex_static_initializer and cond_static_initializer, up to the exchange.
Create(t) ==
    /\ pc[t] = "create"
    /\ \E a \in Addresses \ heap :
        /\ heap' = heap \cup {a}
        /\ kindOf' = [kindOf EXCEPT ![a] = InitValue(cur[t])]
        /\ owner' = [owner EXCEPT ![a] = NoThread]
        /\ mine' = [mine EXCEPT ![t] = a]
    /\ pc' = [pc EXCEPT ![t] = "publish"]
    /\ UNCHANGED <<words, op, ptr, cur, seen, inside, once>>

\* Mutation: a plain store instead of the exchange.
Publish_Stores(t) ==
    /\ pc[t] = "publish"
    /\ payload' = [payload EXCEPT ![cur[t]] = mine[t]]
    /\ ptr' = [ptr EXCEPT ![t][cur[t]] = mine[t]]
    /\ mine' = [mine EXCEPT ![t] = NoAddr]
    /\ pc' = [pc EXCEPT ![t] = "resolve"]
    /\ UNCHANGED <<lp64, header, declared, live, host, op, cur, seen, inside, once>>

\* Mutation: the thread that lost the race frees its object and goes on with it.
Publish_UsesFreed(t) ==
    /\ pc[t] = "publish"
    /\ IF payload[cur[t]] = seen[t]
       THEN payload' = [payload EXCEPT ![cur[t]] = mine[t]] /\ UNCHANGED heap
       ELSE heap' = heap \ {mine[t]} /\ UNCHANGED payload
    /\ ptr' = [ptr EXCEPT ![t][cur[t]] = mine[t]]
    /\ mine' = [mine EXCEPT ![t] = NoAddr]
    /\ pc' = [pc EXCEPT ![t] = "resolve"]
    /\ UNCHANGED <<lp64, header, declared, live, kindOf, owner, op, cur, seen,
                   inside, once>>

\* The exchange: the first thread's object is everybody's, a later one frees
\* its own and takes the address it found.
Publish(t) ==
    /\ pc[t] = "publish"
    /\ LET x == cur[t]
       IN  IF payload[x] = seen[t]
           THEN /\ payload' = [payload EXCEPT ![x] = mine[t]]
                /\ ptr' = [ptr EXCEPT ![t][x] = mine[t]]
                /\ UNCHANGED <<heap, kindOf>>
           ELSE /\ ptr' = [ptr EXCEPT ![t][x] = payload[x]]
                /\ heap' = heap \ {mine[t]}
                /\ kindOf' = [kindOf EXCEPT ![mine[t]] = "normal"]
                /\ UNCHANGED payload
    /\ mine' = [mine EXCEPT ![t] = NoAddr]
    /\ cur' = [cur EXCEPT ![t] = "mutex"]
    /\ seen' = [seen EXCEPT ![t] = Zero]
    /\ pc' = [pc EXCEPT ![t] = "resolve"]
    /\ UNCHANGED <<lp64, header, declared, live, owner, op, inside, once>>

--------------------------------------------------------------------------------
\* The host call, once the arguments are resolved.
Ready(t, o) ==
    /\ pc[t] = "resolve"
    /\ op[t] = o
    /\ \A x \in Needs(o) : ptr[t][x] # NoAddr

Return(t) ==
    /\ pc' = [pc EXCEPT ![t] = "idle"]
    /\ op' = [op EXCEPT ![t] = "lock"]
    /\ ptr' = [ptr EXCEPT ![t] = None]
    /\ UNCHANGED <<words, heap, kindOf, cur, seen, mine, once>>

Acquire(t) ==
    /\ owner[ptr[t]["mutex"]] = NoThread
    /\ owner' = [owner EXCEPT ![ptr[t]["mutex"]] = t]
    /\ inside' = inside \cup {t}
    /\ Return(t)

MutexLock(t) == Ready(t, "lock") /\ Acquire(t)

MutexTrylock(t) ==
    /\ Ready(t, "trylock")
    /\ \/ Acquire(t)
       \/ /\ owner[ptr[t]["mutex"]] # NoThread
          /\ Return(t)
          /\ UNCHANGED <<owner, inside>>

MutexUnlock(t) ==
    /\ Ready(t, "unlock")
    /\ owner' = [owner EXCEPT ![ptr[t]["mutex"]] = NoThread]
    /\ inside' = inside \ {t}
    /\ Return(t)

\* pthread_cond_wait and pthread_cond_timedwait give the mutex up and block.
CondWait(t) ==
    /\ Ready(t, "wait")
    /\ owner' = [owner EXCEPT ![ptr[t]["mutex"]] = NoThread]
    /\ inside' = inside \ {t}
    /\ pc' = [pc EXCEPT ![t] = "asleep"]
    /\ UNCHANGED <<words, heap, kindOf, op, ptr, cur, seen, mine, once>>

\* The threads blocked on the host object t has resolved.
Blocked(t) == {s \in Threads : pc[s] = "asleep" /\ ptr[s]["cond"] = ptr[t]["cond"]}

Notify(t, S) ==
    /\ pc' = [s \in Threads |-> IF s = t THEN "idle"
                                ELSE IF s \in S THEN "relock" ELSE pc[s]]
    /\ op' = [op EXCEPT ![t] = "lock"]
    /\ ptr' = [ptr EXCEPT ![t] = None]
    /\ UNCHANGED <<words, host, cur, seen, mine, inside, once>>

CondSignal(t) ==
    /\ Ready(t, "signal")
    /\ \/ \E s \in Blocked(t) : Notify(t, {s})
       \/ Blocked(t) = {} /\ Notify(t, {})

CondBroadcast(t) == Ready(t, "broadcast") /\ Notify(t, Blocked(t))

\* A timeout, or a wait that returns for no reason.
Timeout(t) ==
    /\ pc[t] = "asleep"
    /\ pc' = [pc EXCEPT ![t] = "relock"]
    /\ UNCHANGED <<words, host, op, ptr, cur, seen, mine, inside, once>>

Relock(t) == pc[t] = "relock" /\ Acquire(t)

--------------------------------------------------------------------------------
\* Nobody uses the object: no call on it has yet to take effect, nobody holds
\* the mutex, nobody is blocked.  A thread woken from a wait is done with the
\* condition variable but not with the mutex.
Quiet(x) ==
    /\ \A t \in Threads :
        /\ pc[t] \in {"resolve", "create", "publish", "asleep"} => x \notin Needs(op[t])
        /\ pc[t] = "relock" => x # "mutex"
    /\ x = "mutex" => inside = {}

\* pthread_mutex_destroy, pthread_cond_destroy.
Destroy(t, x) ==
    /\ pc[t] = "idle"
    /\ live[x]
    /\ Quiet(x)
    /\ live' = [live EXCEPT ![x] = FALSE]
    /\ IF IsInitialized(payload[x])
       THEN /\ heap' = heap \ {payload[x]}
            /\ kindOf' = [kindOf EXCEPT ![payload[x]] = "normal"]
            /\ payload' = [payload EXCEPT ![x] = Zero]
       ELSE UNCHANGED <<heap, kindOf, payload>>
    /\ UNCHANGED <<lp64, header, declared, owner, thread, inside, once>>

\* pthread_mutex_init with a type, pthread_cond_init.
InitObject(t, x, k) ==
    /\ pc[t] = "idle"
    /\ ~live[x]
    /\ x = "cond" => k = "normal"
    /\ live' = [live EXCEPT ![x] = TRUE]
    /\ declared' = IF x = "mutex" THEN k ELSE declared
    /\ \E a \in Addresses \ heap :
        /\ heap' = heap \cup {a}
        /\ kindOf' = [kindOf EXCEPT ![a] = k]
        /\ owner' = [owner EXCEPT ![a] = NoThread]
        /\ payload' = [payload EXCEPT ![x] = a]
    /\ UNCHANGED <<lp64, header, thread, inside, once>>

--------------------------------------------------------------------------------
\* pthread_once: the exchange from 0 to 1 elects the thread that runs the
\* routine; the others return if it is done and yield until it is otherwise.
OnceBegin(t) ==
    /\ pc[t] = "idle"
    /\ pc' = [pc EXCEPT ![t] = "once"]
    /\ UNCHANGED <<words, host, op, ptr, cur, seen, mine, inside, once>>

\* Mutation: a thread that finds the routine running returns.
OnceElect_NoWait(t) ==
    /\ pc[t] = "once"
    /\ control' = IF control = 0 THEN 1 ELSE control
    /\ ran' = IF control = 0 THEN ran + 1 ELSE ran
    /\ pc' = [pc EXCEPT ![t] = IF control = 0 THEN "routine" ELSE "idle"]
    /\ UNCHANGED <<words, host, op, ptr, cur, seen, mine, inside>>

OnceElect(t) ==
    /\ pc[t] = "once"
    /\ control' = IF control = 0 THEN 1 ELSE control
    /\ ran' = IF control = 0 THEN ran + 1 ELSE ran
    /\ pc' = [pc EXCEPT ![t] = CASE control = 0 -> "routine"
                                 [] control = 1 -> "spin"
                                 [] OTHER -> "idle"]
    /\ UNCHANGED <<words, host, op, ptr, cur, seen, mine, inside>>

OnceDone(t) ==
    /\ pc[t] = "routine"
    /\ control' = 2
    /\ pc' = [pc EXCEPT ![t] = "idle"]
    /\ UNCHANGED <<words, host, op, ptr, cur, seen, mine, inside, ran>>

OnceSpin(t) ==
    /\ pc[t] = "spin"
    /\ control # 1
    /\ pc' = [pc EXCEPT ![t] = "idle"]
    /\ UNCHANGED <<words, host, op, ptr, cur, seen, mine, inside, once>>

--------------------------------------------------------------------------------
Once(t) == OnceElect(t) \/ OnceDone(t) \/ OnceSpin(t)

Next ==
    \E t \in Threads :
        \/ \E o \in Ops : Call(t, o)
        \/ ToHost(t) \/ Create(t) \/ Publish(t)
        \/ MutexLock(t) \/ MutexTrylock(t) \/ MutexUnlock(t)
        \/ CondWait(t) \/ CondSignal(t) \/ CondBroadcast(t) \/ Timeout(t) \/ Relock(t)
        \/ \E x \in Objects : Destroy(t, x)
        \/ \E x \in Objects, k \in Kinds : InitObject(t, x, k)
        \/ OnceBegin(t) \/ Once(t)

Spec == Init /\ [][Next]_vars

\* A runnable thread runs: the scheduler's promise, here for pthread_once only.
FairSpec == Spec /\ \A t \in Threads : WF_vars(Once(t))

--------------------------------------------------------------------------------
TypeOK ==
    /\ lp64 \in BOOLEAN
    /\ header \in Kinds /\ declared \in Kinds
    /\ payload \in [Objects -> Words]
    /\ live \in [Objects -> BOOLEAN]
    /\ heap \subseteq Addresses
    /\ kindOf \in [Addresses -> Kinds]
    /\ owner \in [Addresses -> Threads \cup {NoThread}]
    /\ pc \in [Threads -> Places] /\ op \in [Threads -> Ops]
    /\ ptr \in [Threads -> [Objects -> Addresses \cup {NoAddr}]]
    /\ cur \in [Threads -> Objects]
    /\ seen \in [Threads -> Words]
    /\ mine \in [Threads -> Addresses \cup {NoAddr}]
    /\ inside \subseteq Threads
    /\ control \in 0..2 /\ ran \in Nat

\* The objects thread t's call still works on.
Uses(t) ==
    CASE pc[t] = "relock" -> {"mutex"}
      [] pc[t] \in {"resolve", "create", "publish", "asleep"} -> Needs(op[t])
      [] OTHER -> {}

\* The game's critical sections never overlap, not even the first ones, which
\* race to create the host mutex.
MutualExclusion == \A s, t \in inside : s = t

\* However many threads create an object at once, and however often it is
\* destroyed and initialised again, every call on it works on the one host
\* object that is published, and that object is allocated.  So a signal finds
\* every waiter, nobody uses a freed object and critical sections exclude each
\* other.  Nothing leaks either: the thread that loses the race frees the object
\* it made, and all that is allocated is published or about to be.
OneObjectForAll ==
    /\ TypeOK
    /\ MutualExclusion
    /\ \A t \in Threads : \A x \in Uses(t) :
           ptr[t][x] # NoAddr => ptr[t][x] = payload[x] /\ payload[x] \in heap
    /\ \A a \in heap : \/ \E x \in Objects : payload[x] = a
                       \/ \E t \in Threads : pc[t] = "publish" /\ mine[t] = a

\* The host mutex has the type the game asked for, statically or with
\* pthread_mutex_init, also in a 32-bit build, where the static value and the
\* pointer that replaces it share a word that is read twice.
KindIsKept ==
    IsInitialized(payload["mutex"]) => kindOf[payload["mutex"]] = declared

\* The routine is called once, and no call of pthread_once returns before it
\* has come back.
ReturnsAfterRoutine ==
    /\ ran' <= 1
    /\ \A t \in Threads : pc[t] \in {"once", "routine", "spin"} /\ pc'[t] = "idle"
                           => ran' = 1 /\ \A s \in Threads : pc'[s] # "routine"

\* Besides that every call returns: a thread that yields in the loop sees the end
\* of the routine.
OnceIsComplete ==
    /\ [][ReturnsAfterRoutine]_vars
    /\ \A t \in Threads : pc[t] = "once" ~> pc[t] = "idle"

\* Lazily created host objects behave as a mutex and a condition variable that
\* exist from the start.
Monitor ==
    INSTANCE PthreadMonitor WITH
        holder <- IF inside = {} THEN NoThread ELSE CHOOSE t \in inside : TRUE,
        asleep <- {t \in Threads : pc[t] = "asleep"}

\* Every step of the shim is a step of the monitor or leaves it unchanged.
ImplementsMonitor == Monitor!Spec
================================================================================
