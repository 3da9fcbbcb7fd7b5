SPECIFICATION FairSpec
CONSTANTS
    Conns = {c1, c2}
    Devices = {d1}
    Posts = {p1, p2}
    Requests = {r1}
    None = None
CHECK_DEADLOCK FALSE
INVARIANTS
    NobodyWaitsForTheGone
    ReadPumpNeverBlocks
    NoEntryOutlivesItsCall
    DeviceOfGoneConnectionIsOffline
PROPERTY CallsOnLostConnectionsReturn
