\* Two devices plugged in twice in all, two polls, two restarts; the blob
\* cut everywhere, and every cell of it changed.
SPECIFICATION FairSpec
CONSTANTS
    Width = 4
    Magic = 3
    Devices = {sdb, sdc}
    None = None
    Carved <- MCCarved
    Polls = 2
    MaxPlugs = 2
    MaxCrashes = 2
INVARIANTS
    TypeOK
    ParsedIsCarved
    MountAccounted
PROPERTY DaemonEnds
\* The instance may stop when its bounds are reached.
CHECK_DEADLOCK FALSE
