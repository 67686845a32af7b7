\* A ring of one record, so that the second record reuses its memory.
SPECIFICATION FairSpec
CONSTANTS
    p1 = p1
    p2 = p2
    Pids = {p1}
    Kinds = {"HONEYTOKEN_TRIGGERED"}
    Paths = {"plain"}
    Comms = {"other"}
    Infected = {}
    NoSignal = {}
    Opaque = {}
    DiskMayFill = FALSE
    RingSlots = 1
    ChanCap = 1
    MaxEvents = 2
    MaxGen = 1
    MaxToggles = 0
    MaxCrashes = 0
INVARIANT TrapRecordsRecognised
