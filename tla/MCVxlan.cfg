SPECIFICATION Spec
CONSTANTS
    MaxRetries = 3
    MaxFaults = 5
    MaxCrashes = 2
INVARIANTS
    RetriesSuffice
    StopCleans
PROPERTY Starts
