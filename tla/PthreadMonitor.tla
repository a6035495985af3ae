---------------------------- MODULE PthreadMonitor ----------------------------
(***************************************************************************)
(* What POSIX promises the game of one mutex and one condition variable:   *)
(* one holder at a time, a wait that gives the mutex up, and a wake-up     *)
(* that any signal, broadcast, timeout or spurious return may bring.       *)
(* Nothing here is created lazily; PthreadShim implements it.              *)
(***************************************************************************)
CONSTANTS Threads, NoThread

VARIABLES
    holder,     \* the thread inside the mutex, or NoThread
    asleep      \* the threads blocked on the condition variable

vars == <<holder, asleep>>

Init == holder = NoThread /\ asleep = {}

Acquire(t) ==
    /\ holder = NoThread
    /\ t \notin asleep
    /\ holder' = t
    /\ UNCHANGED asleep

Release(t) ==
    /\ holder = t
    /\ holder' = NoThread
    /\ UNCHANGED asleep

Wait(t) ==
    /\ holder = t
    /\ holder' = NoThread
    /\ asleep' = asleep \cup {t}

Wake ==
    /\ \E S \in SUBSET asleep : asleep' = asleep \ S
    /\ UNCHANGED holder

Next == Wake \/ \E t \in Threads : Acquire(t) \/ Release(t) \/ Wait(t)

Spec == Init /\ [][Next]_vars
===============================================================================
