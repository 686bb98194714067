SPECIFICATION Spec
CONSTANTS
    Client = {cl1}
    Item = {n1}
    Command <- PingAndUnknown
    Silent <- NoCommand
    Asks <- AllCommands
    MaxRequests <- TwoAndOne
    FrameUnits = 2
PROPERTY Answered
\* The server may wait for ever: all clients are gone or have sent all they may.
CHECK_DEADLOCK FALSE
