SPECIFICATION Spec
CONSTANTS
    Ip = {ip1, ip2}
    Node = {node1, node2}
    Matches <- Distinct
    MaxFaults = 2
    MaxCrashes = 2
INVARIANTS
    TypeOK
    SavedAgrees
    ListedIsAttached
    LinkIsList
    AckedSurvives
    RemovedIsGone
