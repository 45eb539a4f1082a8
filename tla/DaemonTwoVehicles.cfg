CONSTANTS
    SystemId = {v1, v2}
    Reported = {"UNINIT", "ACTIVE"}
    Flights = {f1}
    Geometry = {"empty", "points"}
    None = None
    MaxMissionSize = 0
    MaxSeq = 0
    MaxOutstanding = 0
SPECIFICATION Spec
SYMMETRY Symmetry
PROPERTIES
    FlightLastsWhileActive
