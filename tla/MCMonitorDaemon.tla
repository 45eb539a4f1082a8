-------------------------- MODULE MCMonitorDaemon --------------------------
\* Instances of the monitor daemon for TLC.
EXTENDS MonitorDaemon, TLC

Symmetry == Permutations(SystemId) \cup Permutations(Flights)
=============================================================================
