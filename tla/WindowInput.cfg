SPECIFICATION FairSpec
CONSTANTS
    Gamepads = {g1}
    Buttons = {b}
    Fingers = {f1, f2}
    NoFinger = NoFinger
    Pointer0 = f1
    Setups <- MCSetups
    MaxEvents = 2
INVARIANTS
    CursorFollowsMode
    GameIsUpToDate
PROPERTIES
    QueueIsRead
