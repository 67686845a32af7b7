\* A packet is received from an address that was reported as blocked.
SPECIFICATION Spec
CONSTANTS
    Base = 3
    Addrs <- MCAddrs
    NotAnAddr = NotAnAddr
    ChanCap = 1
    MapCap = 1
    TlsSlots = 1
    PayloadCap = 4
    Lengths = {4}
    MaxEdits = 1
    MaxPackets = 1
    MaxCrashes = 0
INVARIANT C2TrafficDropped
