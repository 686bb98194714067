SPECIFICATION Spec
CONSTANTS
    MaxRetries = 2
    MaxFaults = 0
    MaxCrashes = 1
INVARIANT Routed
