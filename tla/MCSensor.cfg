\* A map of one element, so that the two processes evict each other.
SPECIFICATION Spec
CONSTANTS
    t1 = t1
    t2 = t2
    t3 = t3
    p1 = p1
    agent = agent
    Agent = agent
    NoPid = NoPid
    Pids = {p1, agent}
    Threads = {t1, t2, t3}
    Tgid <- MCTgid
    Wires = {"file"}
    Limit <- MCLimit
    MapCap = 1
    MaxCalls = 3
    MaxLives = 1
SYMMETRY SiblingSymmetry
INVARIANTS
    TypeOK
    NoPhantomTrap
    SerialExact
    ResetPending
\* When every process is stopped no hook runs.
CHECK_DEADLOCK FALSE
