SPECIFICATION Spec
CONSTANTS
    Client = {cl1, cl2}
    Item = {n1}
    Command <- Mixed
    Silent <- Unknown
    Asks <- Shared
    MaxRequests <- TwoAndOne
    FrameUnits = 2
INVARIANTS
    RepliesInOrder
    FramesInStep
PROPERTIES
    Atomic
    Answered
\* The server may wait for ever: all clients are gone or have sent all they may.
CHECK_DEADLOCK FALSE
