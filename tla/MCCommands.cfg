SPECIFICATION Spec
CONSTANT MaxParticipants = 2
INVARIANTS TypeOK ZeroMeansDone TestCleansUp RequestsCarryTheirCredentials SimulationHasEveryKey
PROPERTY EveryCommandEnds
CHECK_DEADLOCK FALSE
