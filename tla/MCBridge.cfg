\* Three routes through two slots, so that slots run out and are used again.
SPECIFICATION FairSpec
CONSTANTS
    Slots <- MCSlots
    None = None
    Delay = 1
    MaxTime = 3
    MaxRoutes = 3
    MaxCrashes = 1
INVARIANTS
    TypeOK
    VolumeAccounted
    SlotAccounted
    UnplugsItsOwn
PROPERTY VolumeResolved
