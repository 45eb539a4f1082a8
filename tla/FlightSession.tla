---------------------------- MODULE FlightSession ----------------------------
(***************************************************************************)
(* What a telemetry submitter promises to the vehicle monitor, without the *)
(* calls, flags and plans by which it gets there (telemetry_submitter.h).  *)
(*                                                                         *)
(* A session lasts from activate() to deactivate().  In it the submitter   *)
(* learns which flights of the pilot are active, waits for the end of each *)
(* of them, then takes one flight, and then the key of that flight.  The   *)
(* end of the session gives both up and asks for the end of the flight.    *)
(* That is Spec.  The header promises one thing more, EndsComms: the end   *)
(* of the communications, which start with the key.  The two are kept      *)
(* apart because the submitter implements the first and not the second.    *)
(*                                                                         *)
(* The promise holds until a reply of an earlier session is applied: the   *)
(* rest of that session is disturbed, and anything may happen to what the  *)
(* submitter holds, but not to active and ending.                          *)
(***************************************************************************)
EXTENDS Naturals

CONSTANTS
    Flights,    \* identifiers of flights
    None        \* no flight, no list

VARIABLES
    active,     \* between activate() and deactivate()
    disturbed,  \* a reply of an earlier session was applied in this one
    found,      \* flights to be ended first, once they are known
    flight,     \* the flight of this session
    key,        \* the flight the encryption key belongs to
    ending,     \* flights whose end was asked for by deactivate()
    closing     \* flights the end of whose communications was asked for

\* What Spec is about: all but closing.
vars == <<active, disturbed, found, flight, key, ending>>

\* Flights that earlier sessions found and ended stay found and ended.
Init ==
    /\ ~active /\ ~disturbed
    /\ found = None /\ flight = None /\ key = None
    /\ ending = {}

Start ==
    /\ ~active /\ active'
    /\ UNCHANGED <<disturbed, found, flight, key, ending>>

Find(S) ==
    /\ active /\ ~disturbed /\ found = None
    /\ found' = S
    /\ UNCHANGED <<active, disturbed, flight, key, ending>>

Clear(f) ==
    /\ active /\ ~disturbed /\ found # None /\ f \in found
    /\ found' = found \ {f}
    /\ UNCHANGED <<active, disturbed, flight, key, ending>>

TakeFlight(f) ==
    /\ active /\ ~disturbed /\ found = {} /\ flight = None
    /\ flight' = f
    /\ UNCHANGED <<active, disturbed, found, key, ending>>

TakeKey ==
    /\ active /\ ~disturbed /\ flight # None /\ key = None
    /\ key' = flight
    /\ UNCHANGED <<active, disturbed, found, flight, ending>>

End ==
    /\ active /\ ~active'
    /\ ~disturbed' /\ flight' = None /\ key' = None
    /\ \/ ending' = (ending \cup {flight}) \ {None}
       \/ disturbed /\ ending' = ending
    /\ UNCHANGED found

EndDone(f) ==
    /\ f \in ending
    /\ ending' = ending \ {f}
    /\ UNCHANGED <<active, disturbed, found, flight, key>>

Disturb ==
    /\ disturbed'
    /\ flight' \in Flights \cup {None} /\ key' \in Flights \cup {None}
    /\ found' \in (SUBSET Flights) \cup {None}
    /\ UNCHANGED <<active, ending>>

Next ==
    \/ Start \/ TakeKey \/ End \/ Disturb
    \/ \E S \in SUBSET Flights : Find(S)
    \/ \E f \in Flights : Clear(f) \/ TakeFlight(f) \/ EndDone(f)

Spec == Init /\ [][Next]_vars

\* "request to end flight communications, request to end the flight"
\* (telemetry_submitter.h:70): a session that had a key ends in both.
EndsComms == [][active /\ ~active' /\ key # None => key \in closing']_<<active, key, closing>>
=============================================================================
