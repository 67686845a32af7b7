\* No number coincides across file systems: devices and the agent's own files
\* have numbers of their own.
SPECIFICATION Spec
CONSTANTS
    Inos = {i1, i2, i3, i4}
    DevInos = {}
    ReadInos = {}
    WriteInos = {}
    Pids = {}
    Decoys = {}
    MaxTime = 1
    MaxMoves = 1
    MaxCrashes = 0
SYMMETRY Plain
INVARIANT ZeroFalsePositives
CHECK_DEADLOCK FALSE
