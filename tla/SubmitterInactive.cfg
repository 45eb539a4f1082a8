CONSTANTS
    Flights = {f1}
    Geometry = {"points"}
    None = None
    MaxOutstanding = 1
SPECIFICATION Spec
INVARIANTS
    InactiveHoldsNoFlight
