CONSTANTS
    Flights = {f1, f2}
    Geometry = {"points"}
    None = None
    MaxOutstanding = 1
SPECIFICATION Spec
SYMMETRY FlightSymmetry
INVARIANTS
    TypeOK
    NoLostRequest
    NoLostEnd
    OneCallPerStage
    KeyBelongsToFlight
    EndsBeforeCreating
    InactiveIsBlank
    StopsOnlyAtDeadEnds
PROPERTIES
    EmptyReadNeedsLateReply
    NoSilentLeak
    ImplementsFlightSession
