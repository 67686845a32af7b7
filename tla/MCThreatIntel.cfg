\* Hellos at and above the size of the copy; a channel and a TLS ring of
\* one element and a map of one address, which all fill.
SPECIFICATION FairSpec
CONSTANTS
    Base = 3
    Addrs <- MCAddrs
    NotAnAddr = NotAnAddr
    ChanCap = 1
    MapCap = 1
    TlsSlots = 1
    PayloadCap = 4
    Lengths = {4, 5}
    MaxEdits = 2
    MaxPackets = 2
    MaxCrashes = 1
INVARIANTS
    TypeOK
    BlocksTheIntel
    IntelAccounted
    TlsAccounted
PROPERTY FeedApplied
