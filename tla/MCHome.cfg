\* One decoy, one PID, two seconds, one restart, one file that users touch.
SPECIFICATION Spec
CONSTANTS
    Inos = {i1, i2, dev, own}
    DevInos = {dev}
    ReadInos = {dev, own}
    WriteInos = {own}
    Pids = {p1}
    Decoys = {mysqld}
    MaxTime = 2
    MaxMoves = 1
    MaxCrashes = 1
SYMMETRY Plain
INVARIANTS
    TypeOK
    SelfQuiet
    GhostsAreDecoys
    VersionAccounted
PROPERTY BackupsKept
\* With the clock at its bound and nothing left to do the instance may stop.
CHECK_DEADLOCK FALSE
