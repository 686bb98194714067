SPECIFICATION MCSpec
CONSTANTS
    Elem = {a, b}
    MaxLen = 3
    Limits <- MCLimits
    Files <- MCFiles
    ArgLists <- MCArgLists
    Unopenable <- MCUnopenable
    MaxNumber = 10
    MaxBind = 2
    Cell = {c1, c2, c3, c4}
    Value = {v1, v2}
    Null = null
INVARIANTS
    Correct
    OptionsReach
    LastLineWins
    Represents
    IteratorLive
    VisitsAll
    LooksUp
SYMMETRY Symmetry

\* The loop of ngx_empty_into ends, and so does the loading.
CHECK_DEADLOCK FALSE
