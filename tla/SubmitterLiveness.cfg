CONSTANTS
    Flights = {f1}
    Geometry = {"points"}
    None = None
    MaxOutstanding = 0
SPECIFICATION FairSpec
PROPERTIES
    GetsReady
