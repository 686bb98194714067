SPECIFICATION Spec
CONSTANTS
    n1 = n1
    n2 = n2
    Node = {n1, n2}
    InitNodes <- OneNode
    BadNodes <- Unroutable
    Headers <- AllHeaders
    MaxFrames = 2
    MaxDatagrams = 1
    MaxFails = 2
    NodeOps = TRUE
    TunRBufs = 2
    TunWBufs = 1
    UdpRBufs = 1
    UdpWBufs = 3
    Batch = 2
    ReadBufLen = 2048
    WriteBufLen = 2048
INVARIANTS
    Accounting
    OrderKept
    PayloadFits
PROPERTIES
    UdpIsAsyncIo
    MulticastPromise
\* The kernel may bring no more frames: the server waits.
CHECK_DEADLOCK FALSE
