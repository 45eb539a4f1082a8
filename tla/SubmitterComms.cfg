CONSTANTS
    Flights = {f1}
    Geometry = {"points"}
    None = None
    MaxOutstanding = 1
SPECIFICATION FairSpec
PROPERTIES
    EndsFlightComms
