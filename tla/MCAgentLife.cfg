\* One process; the research-mode file is switched on and off, the agent goes
\* down twice and is restarted, the disk may fill; a ring of two records and a
\* channel of two orders.
SPECIFICATION FairSpec
CONSTANTS
    p1 = p1
    p2 = p2
    Pids = {p1}
    Kinds = {"HONEYTOKEN_TRIGGERED"}
    Paths = {"enc"}
    Comms = {"other"}
    Infected = {}
    NoSignal = {}
    Opaque = {}
    DiskMayFill = TRUE
    RingSlots = 2
    ChanCap = 2
    MaxEvents = 2
    MaxGen = 1
    MaxToggles = 2
    MaxCrashes = 2
INVARIANTS
    TrapAccounted
    PipelineOrdered
PROPERTIES
    ImplementsFreezeQueue
    TrapResolved
    ResearchFollowsFile
    Drained
