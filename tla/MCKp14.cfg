\* Two orders, two PIDs and three seconds, so that names clash and do not; one
\* restart.
SPECIFICATION Spec
CONSTANTS
    Pids = {p1, p2}
    None = None
    MaxOrders = 2
    MaxTime = 2
    MaxCrashes = 1
SYMMETRY Symmetry
INVARIANTS
    TypeOK
    OwnResults
    RemoteAccounted
    FileIsLatest
\* When every analysis has ended the instance may stop.
CHECK_DEADLOCK FALSE
