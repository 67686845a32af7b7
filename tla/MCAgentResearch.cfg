\* A hook that sends SIGSTOP while research mode is on.
SPECIFICATION FairSpec
CONSTANTS
    p1 = p1
    p2 = p2
    Pids = {p1}
    Kinds = {"SELF_DEFENSE_TRAP"}
    Paths = {"plain"}
    Comms = {"other"}
    Infected = {}
    NoSignal = {}
    Opaque = {}
    DiskMayFill = FALSE
    RingSlots = 1
    ChanCap = 1
    MaxEvents = 2
    MaxGen = 1
    MaxToggles = 1
    MaxCrashes = 0
PROPERTY ResearchModeDisarmsTraps
