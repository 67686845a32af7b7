\* Two processes whose PIDs are used again, p1 one that YARA may match, p2 one
\* whose maps cannot be read; a trap frozen by user space and one frozen by its
\* hook, a path of the ransomware heuristic; a ring of one record, so that it
\* fills and laps, and a channel of two orders that fills.
SPECIFICATION Spec
CONSTANTS
    p1 = p1
    p2 = p2
    Pids = {p1, p2}
    Kinds = {"HONEYTOKEN_TRIGGERED", "SELF_DEFENSE_TRAP"}
    Paths = {"enc"}
    Comms = {"other"}
    Infected = {p1}
    NoSignal = {}
    Opaque = {p2}
    DiskMayFill = FALSE
    RingSlots = 1
    ChanCap = 2
    MaxEvents = 2
    MaxGen = 2
    MaxToggles = 0
    MaxCrashes = 0
INVARIANTS
    TypeOK
    TrapAccounted
    PipelineOrdered
    
    WriteAhead
    FrozenIsCarved
