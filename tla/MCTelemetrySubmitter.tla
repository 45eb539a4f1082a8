------------------------ MODULE MCTelemetrySubmitter ------------------------
EXTENDS TelemetrySubmitter, TLC

FlightSymmetry == Permutations(Flights)
=============================================================================
