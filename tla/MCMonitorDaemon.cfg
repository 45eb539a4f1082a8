CONSTANTS
    SystemId = {v1}
    Reported = {"UNINIT", "ACTIVE", "CRITICAL", "POWEROFF"}
    Flights = {f1}
    Geometry = {"empty", "points"}
    None = None
    MaxMissionSize = 2
    MaxSeq = 1
    MaxOutstanding = 0
SPECIFICATION Spec
INVARIANTS
    TypeOK
    MissionInOrder
    CompleteMissionIsHandedOver
PROPERTIES
    AgreeUnlessDetour
    FlightLastsWhileActive
