CONSTANTS
    Callers = {c1, c2}
    Workers = {w1, w2}
    Owner = owner
    NoThread = NoThread
SPECIFICATION TaskFairSpec
INVARIANTS
    RequestHasWorker
    NoLostWakeup
    EveryWorkerIsHeld
PROPERTIES
    TerminateReturns
    ImplementsCoalescingTask
