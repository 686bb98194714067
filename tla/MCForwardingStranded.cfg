SPECIFICATION FairSpec
CONSTANTS
    n1 = n1
    n2 = n2
    Node = {n1, n2}
    InitNodes <- TwoNodes
    BadNodes <- None
    Headers <- OneHeader
    MaxFrames = 1
    MaxDatagrams = 0
    MaxFails = 1
    NodeOps = FALSE
    TunRBufs = 1
    TunWBufs = 1
    UdpRBufs = 1
    UdpWBufs = 4
    Batch = 4
    ReadBufLen = 2048
    WriteBufLen = 2048
PROPERTIES
    Delivered

\* The kernel may bring no more frames: the server waits.
CHECK_DEADLOCK FALSE
