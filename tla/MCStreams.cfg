CONSTANTS
    None = None
    Client = {c1, c2}
    Observed = {c1}
    MaxUpdates = 2
    Nobody = Nobody
    Daemon = {d1, d2}
    Filtered = {d2}
    Vehicles = 1
    Waypoints = 1
    MaxMissionSize = 1
    MaxSeq = 0
    MaxRouted = 2
    MaxWire = 1
SPECIFICATION StreamsSpec
INVARIANTS
    StreamsTypeOK
    NoCallIsDeleted
    ReceivedInOrder
    AnnouncedBeforeFlown
    GapsOnlyBehindDeadSessions
PROPERTIES
    EveryClientIsServed
    EveryUpdateArrives
    EveryDaemonIsAccepted
    EveryPositionArrives
CHECK_DEADLOCK FALSE
