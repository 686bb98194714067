SPECIFICATION LifeSpec
CONSTANTS
    Frame = {f}
    Packet = {p}
    RBufs = 1
    WBufs = 2
    Batch = 2
    Binds <- MCBinds
    MaxSignals = 2
INVARIANTS
    ListensAsAsked
    CleanStop
    AllReleased
    PolledIsOpen
PROPERTY InterruptEnds

\* The process ends.
CHECK_DEADLOCK FALSE
