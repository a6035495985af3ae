CONSTANTS
    Threads = {t1, t2}
    Addresses = {a1, a2, a3}
    NoThread = NoThread
    NoAddr = NoAddr
SPECIFICATION FairSpec
INVARIANTS
    OneObjectForAll
    KindIsKept
PROPERTIES
    OnceIsComplete
    ImplementsMonitor
