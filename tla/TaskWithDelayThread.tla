------------------------- MODULE TaskWithDelayThread -------------------------
(***************************************************************************)
(* cll::TaskWithDelayThread: a worker thread that runs a function after a  *)
(* delay.  Client threads call requestRun, the owner calls terminate, and  *)
(* the worker executes doThreadLoop; all of them share one mutex and one   *)
(* condition variable.                                                     *)
(*                                                                         *)
(* A critical section that never blocks is one step, guarded by the mutex  *)
(* being free.  The one critical section that does block, requestRun's     *)
(* join of the previous worker, holds the mutex across steps.  Clients     *)
(* keep the documented contract: no run is requested once terminate() has  *)
(* set `stopping'.                                                         *)
(***************************************************************************)
EXTENDS Naturals

CONSTANTS Callers,   \* threads that call requestRun
          Workers,   \* identities of the threads std::thread can create
          Owner,     \* the thread that calls terminate() and the destructor
          NoThread   \* a std::thread that is not joinable; a mutex that is free

(* A thread has one role, and no thread is the mark for "none". *)
ASSUME ThreadsDisjoint ==
    /\ Callers \cap Workers = {}
    /\ Owner \notin Callers \cup Workers
    /\ NoThread \notin Callers \cup Workers \cup {Owner}

VARIABLES running, hasPendingTask, runImmediately, stopping,
          thread,             \* the worker `thread' holds, or NoThread
          mutex,              \* the caller blocked inside the mutex, or NoThread
          pc,                 \* where every thread is
          currentIsStopping   \* the thread_local pointer is set, per worker

flags == <<running, hasPendingTask, runImmediately, stopping>>
taskVars == <<running, hasPendingTask, runImmediately, stopping, thread, mutex,
              pc, currentIsStopping>>

Threads == Callers \cup Workers \cup {Owner}

(* "wait": blocked in wait_for; "timedout", "notified": wait_for returns, the
   mutex has to be taken again; "sleep": function() called sleep() *)
WorkerLive == {"start", "wait", "timedout", "notified", "run", "sleep", "nap",
               "back"}
CallerPc == {"idle", "join", "spawn", "notify"}
OwnerPc == {"idle", "notify", "join", "terminated"}

InFunction(w) == pc[w] \in {"run", "sleep", "nap"}

TaskTypeOK ==
    /\ running \in BOOLEAN /\ hasPendingTask \in BOOLEAN
    /\ runImmediately \in BOOLEAN /\ stopping \in BOOLEAN
    /\ thread \in Workers \cup {NoThread}
    /\ mutex \in Callers \cup {NoThread}
    /\ pc \in [Threads -> WorkerLive \cup CallerPc \cup OwnerPc
                              \cup {"none", "exited"}]
    /\ \A c \in Callers : pc[c] \in CallerPc
    /\ \A w \in Workers : pc[w] \in WorkerLive \cup {"none", "exited"}
    /\ pc[Owner] \in OwnerPc
    /\ currentIsStopping \in [Workers -> BOOLEAN]

TaskInit ==
    /\ running = FALSE /\ hasPendingTask = FALSE
    /\ runImmediately = FALSE /\ stopping = FALSE
    /\ thread = NoThread
    /\ mutex = NoThread
    /\ pc = [t \in Threads |-> IF t \in Workers THEN "none" ELSE "idle"]
    /\ currentIsStopping = [w \in Workers |-> FALSE]

Goto(t, where) == pc' = [pc EXCEPT ![t] = where]

-----------------------------------------------------------------------------
(* requestRun *)

(* Mutants of RequestRun: the joinable handle stands for `running'; the wake-up
   of an immediate request is left out; the old thread is not joined. *)
RequestRun_TrustsHandle(c, immediate) ==
    /\ pc[c] = "idle" /\ mutex = NoThread /\ ~stopping
    /\ hasPendingTask' = TRUE
    /\ runImmediately' = (runImmediately \/ immediate)
    /\ running' = TRUE
    /\ IF thread = NoThread
         THEN mutex' = c /\ Goto(c, "spawn")
         ELSE UNCHANGED mutex /\ Goto(c, IF immediate THEN "notify" ELSE "idle")
    /\ UNCHANGED <<stopping, thread, currentIsStopping>>

RequestRun_NoNotify(c, immediate) ==
    /\ pc[c] = "idle" /\ mutex = NoThread /\ ~stopping
    /\ hasPendingTask' = TRUE
    /\ runImmediately' = (runImmediately \/ immediate)
    /\ running' = TRUE
    /\ IF ~running
         THEN mutex' = c /\ Goto(c, IF thread # NoThread THEN "join" ELSE "spawn")
         ELSE UNCHANGED <<mutex, pc>>
    /\ UNCHANGED <<stopping, thread, currentIsStopping>>

RequestRun_NoJoin(c, immediate) ==
    /\ pc[c] = "idle" /\ mutex = NoThread /\ ~stopping
    /\ hasPendingTask' = TRUE
    /\ runImmediately' = (runImmediately \/ immediate)
    /\ running' = TRUE
    /\ IF ~running
         THEN mutex' = c /\ Goto(c, "spawn")
         ELSE UNCHANGED mutex /\ Goto(c, IF immediate THEN "notify" ELSE "idle")
    /\ UNCHANGED <<stopping, thread, currentIsStopping>>

(* The locked part up to the join: the request is recorded, and a caller that
   finds no running worker keeps the mutex to replace the thread. *)
RequestRun(c, immediate) ==
    /\ pc[c] = "idle" /\ mutex = NoThread /\ ~stopping
    /\ hasPendingTask' = TRUE
    /\ runImmediately' = (runImmediately \/ immediate)
    /\ running' = TRUE
    /\ IF ~running
         THEN /\ mutex' = c
              /\ Goto(c, IF thread # NoThread THEN "join" ELSE "spawn")
         ELSE /\ UNCHANGED mutex
              /\ Goto(c, IF immediate THEN "notify" ELSE "idle")
    /\ UNCHANGED <<stopping, thread, currentIsStopping>>

(* thread.join() returns once the worker has returned from doThreadLoop. *)
JoinOld(c) ==
    /\ pc[c] = "join"
    /\ pc[thread] = "exited"
    /\ pc' = [pc EXCEPT ![c] = "spawn", ![thread] = "none"]
    /\ thread' = NoThread
    /\ UNCHANGED <<flags, mutex, currentIsStopping>>

Spawn(c, w) ==
    /\ pc[c] = "spawn"
    /\ pc[w] = "none"
    /\ thread' = w
    /\ mutex' = NoThread
    /\ pc' = [pc EXCEPT ![c] = "idle", ![w] = "start"]
    /\ UNCHANGED <<flags, currentIsStopping>>

(* cv.notify_all(), after the mutex was released. *)
NotifyAll(t, next) ==
    /\ pc[t] = "notify"
    /\ pc' = [u \in Threads |->
                  IF u = t THEN next
                  ELSE IF u \in Workers /\ pc[u] = "wait" THEN "notified"
                  ELSE pc[u]]
    /\ UNCHANGED <<flags, thread, mutex, currentIsStopping>>

NotifyImmediate(c) == NotifyAll(c, "idle")

-----------------------------------------------------------------------------
(* terminate, also called by the destructor: it may run more than once *)

Terminate ==
    /\ pc[Owner] \in {"idle", "terminated"} /\ mutex = NoThread
    /\ runImmediately' = TRUE
    /\ stopping' = TRUE
    /\ Goto(Owner, "notify")
    /\ UNCHANGED <<running, hasPendingTask, thread, mutex, currentIsStopping>>

NotifyStopping == NotifyAll(Owner, "join")

TerminateJoin ==
    /\ pc[Owner] = "join"
    /\ thread # NoThread => pc[thread] = "exited"
    /\ pc' = [t \in Threads |-> IF t = Owner THEN "terminated"
                                ELSE IF t = thread THEN "none" ELSE pc[t]]
    /\ thread' = NoThread
    /\ UNCHANGED <<flags, mutex, currentIsStopping>>

-----------------------------------------------------------------------------
(* doThreadLoop *)

(* Mutant: the request is not taken off. *)
TakeTask_KeepsRequest(w) ==
    /\ runImmediately' = FALSE
    /\ Goto(w, "run")
    /\ UNCHANGED <<running, hasPendingTask, stopping>>

(* Leaving the wait or skipping it: the pending request is taken and the
   function is called with the mutex released. *)
TakeTask(w) ==
    /\ hasPendingTask' = FALSE
    /\ runImmediately' = FALSE
    /\ Goto(w, "run")
    /\ UNCHANGED <<running, stopping>>

(* Mutant: the worker polls until somebody else tells it to leave. *)
LoopTest_Polls(w) ==
    \/ /\ hasPendingTask /\ ~runImmediately /\ ~stopping
       /\ Goto(w, "wait")
       /\ UNCHANGED flags
    \/ /\ hasPendingTask /\ (runImmediately \/ stopping)
       /\ TakeTask(w)
    \/ /\ ~hasPendingTask
       /\ UNCHANGED <<flags, pc>>

(* The test of the while loop, with the mutex held. *)
LoopTest(w) ==
    \/ /\ hasPendingTask /\ ~runImmediately /\ ~stopping
       /\ Goto(w, "wait")
       /\ UNCHANGED flags
    \/ /\ hasPendingTask /\ (runImmediately \/ stopping)
       /\ TakeTask(w)
    \/ /\ ~hasPendingTask
       /\ running' = FALSE
       /\ Goto(w, "exited")
       /\ UNCHANGED <<hasPendingTask, runImmediately, stopping>>

(* doThreadLoop is entered, or function() has returned and the lock is taken
   again; the thread_local pointers are set on entry and cleared on exit. *)
Loop(w) ==
    /\ pc[w] \in {"start", "back"} /\ mutex = NoThread
    /\ LoopTest(w)
    /\ currentIsStopping' = [currentIsStopping EXCEPT ![w] = hasPendingTask]
    /\ UNCHANGED <<thread, mutex>>

(* cv.wait_for returns because the delay is over (or spuriously). *)
WaitTimesOut(w) ==
    /\ pc[w] = "wait"
    /\ Goto(w, "timedout")
    /\ UNCHANGED <<flags, thread, mutex, currentIsStopping>>

(* wait_for has no predicate: whatever ended it, the task is run. *)
AfterWait(w) ==
    /\ pc[w] \in {"timedout", "notified"} /\ mutex = NoThread
    /\ TakeTask(w)
    /\ UNCHANGED <<thread, mutex, currentIsStopping>>

FunctionReturns(w) ==
    /\ pc[w] = "run"
    /\ Goto(w, "back")
    /\ UNCHANGED <<flags, thread, mutex, currentIsStopping>>

(* TaskWithDelayThread::sleep, called by function() between two attempts. *)
SleepCall(w) ==
    /\ pc[w] = "run"
    /\ Goto(w, "sleep")
    /\ UNCHANGED <<flags, thread, mutex, currentIsStopping>>

(* The condition is on the pointer currentIsStopping, not on what it points
   to: wait_for is reached only when the pointer is null. *)
SleepBody(w) ==
    /\ pc[w] = "sleep" /\ mutex = NoThread
    /\ Goto(w, IF ~currentIsStopping[w] THEN "nap" ELSE "run")
    /\ UNCHANGED <<flags, thread, mutex, currentIsStopping>>

-----------------------------------------------------------------------------
CallerStep(c) == \/ \E immediate \in BOOLEAN : RequestRun(c, immediate)
                 \/ JoinOld(c)
                 \/ \E w \in Workers : Spawn(c, w)
                 \/ NotifyImmediate(c)

OwnerStep == Terminate \/ NotifyStopping \/ TerminateJoin

WorkerStep(w) == \/ Loop(w) \/ WaitTimesOut(w) \/ AfterWait(w)
                 \/ FunctionReturns(w) \/ SleepCall(w) \/ SleepBody(w)

TaskNext == \/ \E c \in Callers : CallerStep(c)
            \/ OwnerStep
            \/ \E w \in Workers : WorkerStep(w)

TaskSpec == TaskInit /\ [][TaskNext]_taskVars

(* Threads that can go on do; wait_for's delay is finite; the function sleeps
   finitely often in one run, so it returns.  Nobody is obliged to request a
   run or to terminate. *)
Fairness ==
    /\ \A c \in Callers : /\ WF_taskVars(JoinOld(c))
                          /\ WF_taskVars(\E w \in Workers : Spawn(c, w))
                          /\ WF_taskVars(NotifyImmediate(c))
    /\ WF_taskVars(NotifyStopping) /\ WF_taskVars(TerminateJoin)
    /\ \A w \in Workers : /\ WF_taskVars(Loop(w)) /\ WF_taskVars(WaitTimesOut(w))
                          /\ WF_taskVars(AfterWait(w)) /\ WF_taskVars(SleepBody(w))
                          /\ SF_taskVars(FunctionReturns(w))

TaskFairSpec == TaskSpec /\ Fairness

-----------------------------------------------------------------------------
(* A recorded request always has a worker that has not yet passed the loop
   test which would end it, or a caller that is about to start one: a request
   made at the moment the old worker leaves (requestRun against the end of
   doThreadLoop) is never forgotten. *)
RequestHasWorker ==
    hasPendingTask => \/ \E w \in Workers : thread = w /\ pc[w] \in WorkerLive
                      \/ \E c \in Callers : pc[c] \in {"join", "spawn"}

(* A worker that sits in wait_for while the delay is to be skipped has a
   notify_all on its way: requestRun(true) and terminate() set their flag
   under the mutex but notify after releasing it, and the wake-up is not
   lost in between. *)
NoLostWakeup ==
    (\E w \in Workers : pc[w] = "wait") /\ (runImmediately \/ stopping)
        => \E t \in Callers \cup {Owner} : pc[t] = "notify"

(* No thread exists that `thread' does not hold, so assigning to it in
   requestRun never replaces a joinable std::thread (which would end the
   process) and at most one worker exists. *)
EveryWorkerIsHeld ==
    /\ \A w \in Workers : pc[w] # "none" => thread = w
    /\ \A c \in Callers : pc[c] = "spawn" => thread = NoThread

(* terminate() "blocks until the thread is stopped": when it has returned no
   worker is left and every run requested before it has been made (the
   ImmediateDestroy test). *)
TerminateQuiesces ==
    pc[Owner] = "terminated" =>
        /\ \A w \in Workers : pc[w] = "none"
        /\ ~hasPendingTask

(* terminate() returns, since nothing it waits for waits for it, and always with
   the work done and the worker gone. *)
TerminateReturns == /\ []TerminateQuiesces
                    /\ pc[Owner] = "notify" ~> pc[Owner] = "terminated"

-----------------------------------------------------------------------------
Coalescing == INSTANCE CoalescingTask
                  WITH pending <- hasPendingTask,
                       active <- \E w \in Workers : InFunction(w)

(* The thread implements the coalescing task: runs never overlap, none starts
   without a request, and each request is followed by a whole run. *)
ImplementsCoalescingTask == Coalescing!FairSpec
===============================================================================
