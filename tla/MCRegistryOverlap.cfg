SPECIFICATION Spec
CONSTANTS
    Ip = {ip1, ip2}
    Node = {node1}
    Matches <- Overlapping
    MaxFaults = 0
    MaxCrashes = 0
INVARIANT ListedIsAttached
