SPECIFICATION Spec
CONSTANTS
    Frame = {f}
    Packet = {p, q}
    RBufs = 3
    WBufs = 4
    Batch = 2
INVARIANTS
    TypeOK
    BuffersConserved
    WorkingMeansOut
    BatonNotReused
    NoStall
PROPERTY RaceFree

\* A poll error stops the device for good.
CHECK_DEADLOCK FALSE
