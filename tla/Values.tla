------------------------------- MODULE Values -------------------------------
(***************************************************************************)
(* The tagged unions of the library: Geometry, Token, Error::Value,        *)
(* RuleSet::Feature::Value, Airspace, Optional and Outcome.  Each keeps a  *)
(* tag and raw storage, and constructs and destroys the alternative by     *)
(* hand.  A behaviour makes, copies, assigns, decodes and deletes objects  *)
(* of one class, in any order; it ends where C++ defines nothing further.  *)
(* Moving copies, in every class.  An Airspace also has members outside    *)
(* its union, which every copy and every comparison goes through.          *)
(***************************************************************************)
CONSTANTS
    Object,     \* names of objects
    None        \* no object, nothing in the storage, no origin

VARIABLES
    class,      \* the class of the objects
    objects,    \* of each name, the object or None
    origin,     \* of each object, the one it is a copy of, and whether it went
                \* through JSON; None once either has changed
    faults      \* what went wrong, and in which operation

vars == <<class, objects, origin, faults>>

-----------------------------------------------------------------------------
\* What the tag may say.
Alternatives ==
    [Geometry     |-> {"point", "multi_point", "line_string", "multi_line_string", "polygon",
                       "multi_polygon", "geometry_collection"},
     Token        |-> {"anonymous", "oauth", "refreshed"},
     ErrorValue   |-> {"boolean", "integer", "floating_point", "string", "blob", "dictionary", "vector"},
     FeatureValue |-> {"boolean", "floating_point", "string"},
     Airspace     |-> {"airport", "controlled_airspace", "special_use_airspace", "tfr", "wildfire",
                       "park", "power_plant", "heliport", "prison", "school", "hospital", "fire",
                       "emergency"},
     Optional     |-> {"value"},
     Outcome      |-> {"value", "error"}]

Class == DOMAIN Alternatives

\* The alternatives that own no memory.
Plain ==
    [Geometry     |-> {"point"},
     Token        |-> {},
     ErrorValue   |-> {"boolean", "integer", "floating_point"},
     FeatureValue |-> {"boolean", "floating_point"},
     Airspace     |-> {"special_use_airspace", "park", "prison", "school", "hospital", "fire", "emergency"},
     Optional     |-> {},
     Outcome      |-> {}]

\* The alternatives of Airspace that are structs without members.
Blank == {"park", "prison", "school", "hospital", "fire", "emergency"}

\* The tag of an object that holds nothing.  An Outcome always holds something.
Nothing ==
    [Geometry |-> "invalid", Token |-> "unknown", ErrorValue |-> "undefined", FeatureValue |-> "unknown",
     Airspace |-> "invalid", Optional |-> "empty", Outcome |-> "none"]

\* Coordinates: without an altitude; with an elevation only; with an altitude;
\* with one and more digits than a float has; with an elevation read as altitude.
Coordinates == {"flat", "elevated", "high", "exact", "misread"}

\* The contents of an alternative: what its default constructor makes, and others.
ContentOf(c, alternative) ==
    IF c = "Geometry" THEN Coordinates
    ELSE IF alternative \in Blank THEN {"default"} ELSE {"default", "other"}

Contents(c) == UNION {ContentOf(c, t) : t \in Alternatives[c]}

HeldBy(c) == {h \in [alternative : Alternatives[c], content : Contents(c)] :
                h.content \in ContentOf(c, h.alternative)}

\* What the members of an Airspace outside its union are: equal to themselves and
\* read as they were written; with a coordinate that has no altitude; with a
\* coordinate of more digits than a float has, or with a rule, whose type JSON lacks.
Members == {"plain", "flat", "lossy"}

MembersOf(c) == IF c = "Airspace" THEN Members ELSE {None}

ObjectsOf(c) == [type : Alternatives[c] \cup {Nothing[c]}, held : {None} \cup HeldBy(c),
                 members : MembersOf(c)]

\* None is neither an object nor what one holds, nor the name of one.
ASSUME NoneAssumption ==
    /\ None \notin Object
    /\ \A c \in Class : None \notin ObjectsOf(c) /\ None \notin HeldBy(c)
    /\ None \notin [object : Object, coded : BOOLEAN]

-----------------------------------------------------------------------------
Empty == [type |-> Nothing[class], held |-> None,
          members |-> IF class = "Airspace" THEN "plain" ELSE None]

Holding(type, content, members) ==
    [type |-> type, held |-> [alternative |-> type, content |-> content], members |-> members]

\* What the body of a constructor starts from.  The union of an Outcome has made
\* a Value by then.
Raw == IF class = "Outcome" THEN Holding("value", "default", None) ELSE Empty

Tagged(o) == o.type \in Alternatives[class]

\* The alternative the tag names is there.
Sound(o) == Tagged(o) => o.held # None /\ o.held.alternative = o.type

Owns(o) == o.held # None /\ o.held.alternative \notin Plain[class]

\* Error::Value sets its tag to undefined before it looks at it.
Untagged(o) == [o EXCEPT !.type = Nothing[class]]

\* Airspace and Outcome leave the tag as it is.
Emptied(o) == [o EXCEPT !.held = None]

\* What destruct(), reset() or the destructor leaves.
Destroyed(o) ==
    CASE class = "ErrorValue" -> Untagged(o)
      [] class \in {"Airspace", "Outcome"} -> Emptied(o)
      [] OTHER -> Empty

\* Mutant: the tag is set only along with an alternative.
CopiedWithoutTag(o, r) == IF Tagged(r) THEN r ELSE o

\* The members, and construct(), set_geometry() or set_details() of another
\* object, over o.
Copied(o, r) == IF Tagged(r) THEN r ELSE [o EXCEPT !.type = r.type, !.members = r.members]

\* operator== of an Airspace compares the members first; a coordinate without
\* altitude makes them unequal.
SameMembers(o, r) == o.members = r.members /\ o.members # "flat"

\* The details whose operator== looks at nothing.
Unread == Blank \cup {"controlled_airspace"}

\* An Airspace looks at its own tag only.
EqualAirspaces(o, r) ==
    SameMembers(o, r) /\ (~Tagged(o) \/ o.type \in Unread \/ o.held = r.held)

\* Optional and Error::Value find nothing equal to nothing.
EqualIfTagged(o, r) == o.type = r.type /\ Tagged(o) /\ o.held = r.held

\* Coordinates compare their Optional altitudes.
EqualGeometries(o, r) ==
    /\ o.type = r.type
    /\ Tagged(o) => o.held = r.held /\ o.held.content \notin {"flat", "elevated"}

\* operator== of the class, or of its alternatives.
Equal(o, r) ==
    CASE class = "Airspace" -> EqualAirspaces(o, r)
      [] class \in {"Optional", "ErrorValue"} -> EqualIfTagged(o, r)
      [] class = "Geometry" -> EqualGeometries(o, r)
      [] OTHER -> o.type = r.type /\ (Tagged(o) => o.held = r.held)

-----------------------------------------------------------------------------
Leak(o, operation) == IF Owns(o) THEN {<<"leak", operation>>} ELSE {}

Undefined(o, operation) == IF Sound(o) THEN {} ELSE {<<"undefined", operation>>}

Defined == \A f \in faults : f[1] # "undefined"

Exists(n) == objects[n] # None

\* n changes, and becomes a copy of the origin given.
Changed(n, from) ==
    [k \in Object |->
        IF k = n THEN from
        ELSE IF origin[k] # None /\ origin[k].object = n THEN None ELSE origin[k]]

From(m, coded) == [object |-> m, coded |-> coded]

Init ==
    /\ class \in Class
    /\ objects = [n \in Object |-> None]
    /\ origin = [n \in Object |-> None]
    /\ faults = {}

\* The constructors from nothing, which an Outcome has not, or from an
\* alternative, which an Airspace has not.
Construct(n) ==
    /\ Defined /\ ~Exists(n)
    /\ \/ class # "Outcome" /\ objects' = [objects EXCEPT ![n] = Empty]
       \/ /\ class # "Airspace"
          /\ \E t \in Alternatives[class] : \E c \in ContentOf(class, t) \ {"misread"} :
                objects' = [objects EXCEPT ![n] = Holding(t, c, None)]
    /\ origin' = Changed(n, None)
    /\ faults' = faults \cup Leak(Raw, "construct")
    /\ UNCHANGED class

\* The copy and the move constructor.
CopyConstruct(n, m) ==
    /\ Defined /\ ~Exists(n) /\ Exists(m)
    /\ objects' = [objects EXCEPT ![n] = Copied(Raw, objects[m])]
    /\ origin' = Changed(n, From(m, FALSE))
    /\ faults' = faults \cup Leak(Raw, "copy") \cup Undefined(objects[m], "copy")
    /\ UNCHANGED class

\* What operator= reads when it gets to the right-hand side.  Optional looked at
\* the tag before it destroyed the value.
Source(n, m) ==
    IF n # m THEN objects[m]
    ELSE IF class = "Optional" THEN [objects[n] EXCEPT !.held = None]
    ELSE Destroyed(objects[n])

\* The members operator= copies.  A geometry assigned to itself is lost.
AssignedMembers(n, m) ==
    {objects[m].members} \cup (IF n = m /\ class = "Airspace" THEN {"plain"} ELSE {})

\* operator=, which destroys first and copies then.
Assign(n, m) ==
    LET operation == IF n = m THEN "self-assign" ELSE "assign" IN
    /\ Defined /\ Exists(n) /\ Exists(m)
    /\ \E g \in AssignedMembers(n, m) :
        objects' = [objects EXCEPT ![n] = Copied(Destroyed(@), [Source(n, m) EXCEPT !.members = g])]
    /\ origin' = Changed(n, IF n = m THEN None ELSE From(m, FALSE))
    /\ faults' = faults \cup Undefined(objects[n], operation)
                        \cup Leak(Destroyed(objects[n]), operation)
                        \cup Undefined(Source(n, m), operation)
                        \cup (IF n = m /\ (\/ objects'[n].type # objects[n].type
                                           \/ objects'[n].members # objects[n].members)
                              THEN {<<"lost", operation>>} ELSE {})
    /\ UNCHANGED class

Delete(n) ==
    /\ Defined /\ Exists(n)
    /\ objects' = [objects EXCEPT ![n] = None]
    /\ origin' = Changed(n, None)
    /\ faults' = faults \cup Undefined(objects[n], "delete") \cup Leak(Destroyed(objects[n]), "delete")
    /\ UNCHANGED class

\* Mutant: the new value is constructed over the one that is there.
SetOver(o) == o

\* The storage that Optional::set and Airspace::set_details construct in.
Cleared(o) == IF class = "Optional" THEN Destroyed(o) ELSE o

Set(n) ==
    /\ Defined /\ Exists(n) /\ class \in {"Optional", "Airspace"}
    /\ \E t \in Alternatives[class] : \E c \in ContentOf(class, t) :
        objects' = [objects EXCEPT ![n] = Copied(Cleared(@), Holding(t, c, @.members))]
    /\ origin' = Changed(n, None)
    /\ faults' = faults \cup Leak(Cleared(objects[n]), "set")
    /\ UNCHANGED class

\* Airspace::set_geometry, set_related_geometries, set_rules and the like.
SetMembers(n) ==
    /\ Defined /\ Exists(n) /\ class = "Airspace"
    /\ \E g \in Members : objects' = [objects EXCEPT ![n].members = g]
    /\ origin' = Changed(n, None)
    /\ UNCHANGED <<class, faults>>

\* Optional::reset
Reset(n) ==
    /\ Defined /\ Exists(n) /\ class = "Optional"
    /\ objects' = [objects EXCEPT ![n] = Destroyed(@)]
    /\ origin' = Changed(n, None)
    /\ faults' = faults \cup Undefined(objects[n], "reset")
    /\ UNCHANGED class

\* operator== of Airspace reads the other's details by its own tag, if it gets there.
Compare(n, m) ==
    LET o == objects[n]
        r == objects[m] IN
    /\ Defined /\ Exists(n) /\ Exists(m) /\ class = "Airspace"
    /\ faults' = faults \cup
            (IF SameMembers(o, r) /\ o.type \notin Unread
             THEN Undefined([r EXCEPT !.type = o.type], "compare") ELSE {})
    /\ UNCHANGED <<class, objects, origin>>

-----------------------------------------------------------------------------
\* JSON.  Coordinates are read as floats, and a third number as the altitude.
Reread(content) ==
    CASE content = "exact" -> "high"
      [] content = "elevated" -> "misread"
      [] OTHER -> content

\* What becomes of an object that is encoded and decoded.  Without an alternative,
\* a Geometry does not decode and a Token leaves the other alone.
ReadGeometry(o) == IF Tagged(o) THEN {Holding(o.type, Reread(o.held.content), None)} ELSE {}

ReadToken(o) == IF Tagged(o) THEN {o} ELSE {}

ReadFeatureValue(o) == {o}

\* The alternatives of Airspace with members that JSON lacks, or has under another
\* name: use and instrument_approach_procedure of an Airport, airspace_classification,
\* the types of special use airspaces and flight restrictions, usage of a Heliport.
Unset == {"airport", "controlled_airspace", "special_use_airspace", "tfr", "heliport"}

\* What is not read is indeterminate, and so is the type without a name.
ReadDetails(o) ==
    IF o.type = "emergency"
    THEN {Empty} \cup {Holding(h.alternative, h.content, None) : h \in HeldBy(class)}
    ELSE IF o.type \in Unset
    THEN {Holding(o.type, c, None) : c \in ContentOf(class, o.type)}
    ELSE {o}

\* Members that were read are those that were written, or plain ones.
ReadAirspace(o) ==
    {[d EXCEPT !.members = g] : d \in ReadDetails(o), g \in {o.members, "plain"}}

Read(o) ==
    CASE class = "Geometry" -> ReadGeometry(o)
      [] class = "Token" -> ReadToken(o)
      [] class = "FeatureValue" -> ReadFeatureValue(o)
      [] class = "Airspace" -> ReadAirspace(o)
      [] OTHER -> {}

\* m is encoded, by the library or the services, and decoded to n.
Recode(n, m) ==
    /\ Defined /\ Exists(n) /\ Exists(m)
    /\ \E o \in Read(objects[m]) : objects' = [objects EXCEPT ![n] = Copied(Destroyed(@), o)]
    /\ origin' = Changed(n, IF n = m THEN None ELSE From(m, TRUE))
    /\ faults' = faults \cup Undefined(objects[n], "decode") \cup Undefined(objects[m], "encode")
                        \cup Leak(Destroyed(objects[n]), "decode")
    /\ UNCHANGED class

Next ==
    \E n \in Object :
        \/ Construct(n) \/ Delete(n) \/ Set(n) \/ SetMembers(n) \/ Reset(n)
        \/ \E m \in Object : CopyConstruct(n, m) \/ Assign(n, m) \/ Compare(n, m) \/ Recode(n, m)

Spec == Init /\ [][Next]_vars

-----------------------------------------------------------------------------
KnownFault(f) ==
    \/ f = <<"lost", "self-assign">> /\ class \in {"Geometry", "Token", "ErrorValue", "FeatureValue", "Airspace"}
    \/ f = <<"undefined", "self-assign">> /\ class \in {"Airspace", "Optional", "Outcome"}
    \/ f \in {<<"undefined", "compare">>, <<"leak", "set">>} /\ class = "Airspace"
    \/ f \in {<<"leak", "construct">>, <<"leak", "copy">>} /\ class = "Outcome"
    \/ f[1] = "leak" /\ class = "ErrorValue"

\* Whatever is made, copied and deleted in whatever order, each alternative is
\* constructed once, destroyed once and read in between only.  Except: assigning
\* an object to itself; comparing airspaces of different types; Error::Value,
\* which never frees what it owns although "~Value cleans up all resources by a
\* Value instance" (error.h:68); details set over other details; and the Value
\* that the union of an Outcome makes for each constructor (outcome.h:171), which
\* is constructed over and never destroyed.
FaultsAreKnown ==
    /\ class \in Class
    /\ objects \in [Object -> {None} \cup ObjectsOf(class)]
    /\ \A f \in faults : KnownFault(f)

Copies(n, coded) ==
    Defined /\ origin[n] # None /\ origin[n].coded = coded

Same(o, r) == o.type = r.type /\ o.members = r.members /\ (Tagged(o) => o.held = r.held)

\* What operator== finds unequal although nothing differs: empty Optionals, what
\* has one for an altitude (optional.h:87), and an Error::Value without a value.
NeverEqual(o) ==
    \/ class \in {"Optional", "ErrorValue"} /\ ~Tagged(o)
    \/ class = "Geometry" /\ Tagged(o) /\ o.held.content \in {"flat", "elevated"}
    \/ class = "Airspace" /\ o.members = "flat"

\* JSON does not carry all of it.
LostInJSON(o) ==
    \/ class = "Geometry" /\ o.held.content = "exact"
    \/ class = "Airspace" /\ o.members = "lossy"
    \/ class = "Airspace" /\ o.type \in {"airport", "special_use_airspace", "tfr", "heliport", "emergency"}

\* A copy is equal to its original until one of them changes, in content and, but
\* for what is never equal, by ==.  (A test case says it of geometries without
\* exception: "assignment_operator_yields_instances_that_compare_equal_for_-
\* instances_with_trivial_details", test/geometry_test.cpp:47.)  One that went
\* through JSON is equal where JSON carries all of it.
CopiesAreEqual ==
    \A n \in Object :
        LET o == objects[n]
            r == objects[origin[n].object] IN
        /\ Copies(n, FALSE) => Same(o, r) /\ (Equal(o, r) <=> ~NeverEqual(r))
        /\ Copies(n, TRUE) => (Equal(o, r) /\ Equal(r, o)) \/ NeverEqual(r) \/ LostInJSON(r)
=============================================================================
