SPECIFICATION FairSpec
CONSTANTS
    Game = {g}
    Receiver = Receiver
    NoOne = NoOne
    Shapes <- MCShapes
    MaxMessages = 2
    MaxControl = 1
    MaxCalls = 2
INVARIANTS
    OneUserOfCurl
    MessagesAreWhole
PROPERTIES
    MessagesArrive
    NobodyHangs
CHECK_DEADLOCK FALSE
