---------------------------- MODULE ValuesProofs ----------------------------
(***************************************************************************)
(* FaultsAreKnown and CopiesAreEqual for any set of objects.  As long as   *)
(* the behaviour is defined, every object holds what its tag names (Good), *)
(* and a copy still says the same as its original (Twin).  One lemma says  *)
(* that replacing an object by a good one keeps both, and each action is   *)
(* such a replacement.                                                     *)
(***************************************************************************)
EXTENDS Values, TLAPS

Origins == {None} \cup [object : Object, coded : BOOLEAN]

\* The tag names what is held, and without a tag nothing is held, except by an
\* Error::Value.  An Outcome is never without one.
Good(o) ==
    /\ Sound(o)
    /\ class # "ErrorValue" /\ ~Tagged(o) => o.held = None
    /\ class = "Outcome" => Tagged(o)

\* What a copy has to do with its original.
Likeness(o, r, coded) ==
    IF coded THEN \E read \in Read(r) : Same(o, read) ELSE Same(o, r)

Twin(n) ==
    origin[n] # None =>
        /\ origin[n].object # n /\ Exists(n) /\ Exists(origin[n].object)
        /\ Likeness(objects[n], objects[origin[n].object], origin[n].coded)

IInv ==
    /\ FaultsAreKnown
    /\ origin \in [Object -> Origins]
    /\ Defined => \A n \in Object : (Exists(n) => Good(objects[n])) /\ Twin(n)

-----------------------------------------------------------------------------
\* No alternative is named like the tag of an object that holds nothing.
LEMMA NothingIsNoAlternative ==
    \A c \in Class : Nothing[c] \notin Alternatives[c]
BY DEF Class, Nothing, Alternatives

\* The operators on one object stay within the objects of the class.
LEMMA Typing ==
    ASSUME class \in Class, NEW o \in ObjectsOf(class)
    PROVE  /\ Empty \in ObjectsOf(class)
           /\ Destroyed(o) \in ObjectsOf(class)
           /\ Cleared(o) \in ObjectsOf(class)
           /\ \A r \in ObjectsOf(class) : Copied(o, r) \in ObjectsOf(class)
BY DEF ObjectsOf, MembersOf, Members, Empty, Destroyed, Untagged, Emptied, Cleared, Copied

\* Objects made from an alternative or from nothing are good.
LEMMA MadeGood ==
    ASSUME class \in Class
    PROVE  /\ Empty \in ObjectsOf(class) /\ (class # "Outcome" => Good(Empty)) /\ ~Tagged(Empty)
           /\ \A t \in Alternatives[class], g \in MembersOf(class) : \A x \in ContentOf(class, t) :
                Holding(t, x, g) \in ObjectsOf(class) /\ Good(Holding(t, x, g)) /\ Tagged(Holding(t, x, g))
<1>1. \A t \in Alternatives[class] : \A x \in ContentOf(class, t) :
            [alternative |-> t, content |-> x] \in HeldBy(class)
  BY DEF HeldBy, Contents
<1>2. None \notin HeldBy(class)
  BY NoneAssumption
<1>3. Empty \in ObjectsOf(class) /\ (class # "Outcome" => Good(Empty)) /\ ~Tagged(Empty)
  BY NothingIsNoAlternative DEF Good, Sound, Tagged, Empty, ObjectsOf, MembersOf, Members
<1>4. ASSUME NEW t \in Alternatives[class], NEW g \in MembersOf(class), NEW x \in ContentOf(class, t)
      PROVE  Holding(t, x, g) \in ObjectsOf(class) /\ Good(Holding(t, x, g)) /\ Tagged(Holding(t, x, g))
  BY <1>1, <1>2, <1>4 DEF Good, Sound, Tagged, Holding, ObjectsOf
<1> QED
  BY <1>3, <1>4

\* The storage a constructor starts from holds nothing, but in an Outcome.
LEMMA RawStorage ==
    ASSUME class \in Class
    PROVE  /\ Raw \in ObjectsOf(class) /\ (class # "Outcome" => Raw.held = None)
           /\ \A operation : class # "Outcome" => Leak(Raw, operation) = {}
<1>1. CASE class = "Outcome"
  <2>1. "value" \in Alternatives[class] /\ None \in MembersOf(class) /\ "default" \in ContentOf(class, "value")
    BY <1>1 DEF Alternatives, MembersOf, ContentOf, Blank
  <2>2. Raw = Holding("value", "default", None)
    BY <1>1 DEF Raw
  <2> QED
    BY <1>1, <2>1, <2>2, MadeGood
<1>2. CASE class # "Outcome"
  BY <1>2, MadeGood DEF Raw, Empty, Leak, Owns
<1> QED
  BY <1>1, <1>2

\* What making an object leaks.
LEMMA RawLeaks ==
    ASSUME class \in Class, NEW operation \in {"construct", "copy"}
    PROVE  \A f \in Leak(Raw, operation) : KnownFault(f)
<1>1. CASE class = "Outcome"
  BY <1>1 DEF Leak, KnownFault
<1>2. CASE class # "Outcome"
  BY <1>2, RawStorage
<1> QED
  BY <1>1, <1>2

\* Only an Error::Value keeps anything when it is destroyed.
LEMMA DestroyedIsEmpty ==
    ASSUME class \in Class, NEW o \in ObjectsOf(class), class # "ErrorValue"
    PROVE  Destroyed(o).held = None
BY DEF Destroyed, Emptied, Empty, ObjectsOf

\* Over storage that holds nothing, a copy of a good object is as good, and says
\* the same.
LEMMA CopiedGood ==
    ASSUME class \in Class, NEW o \in ObjectsOf(class), NEW r \in ObjectsOf(class), Good(r),
           class \notin {"ErrorValue", "Outcome"} => o.held = None
    PROVE  Good(Copied(o, r)) /\ Same(Copied(o, r), r)
BY DEF Copied, Good, Sound, Tagged, Same, ObjectsOf

\* What a good object holds.
LEMMA GoodHolds ==
    ASSUME class \in Class, NEW o \in ObjectsOf(class), Good(o), Tagged(o)
    PROVE  /\ o.type \in Alternatives[class] /\ o.held.content \in ContentOf(class, o.type)
           /\ o = Holding(o.type, o.held.content, o.members)
<1>1. o.held \in HeldBy(class) /\ o.held.alternative = o.type
  BY DEF Good, Sound, ObjectsOf
<1>2. o.held = [alternative |-> o.type, content |-> o.held.content]
  BY <1>1 DEF HeldBy
<1> QED
  BY <1>1, <1>2 DEF HeldBy, Holding, ObjectsOf, Tagged

\* What is read from an Airspace has the members, or plain ones, and no details, its
\* own, others of its type, or any.
LEMMA AirspaceRead ==
    ASSUME class = "Airspace", NEW o \in ObjectsOf(class), Good(o), NEW r \in ReadAirspace(o)
    PROVE  /\ r \in ObjectsOf(class) /\ Good(r)
           /\ r.members \in {o.members, "plain"}
           /\ o.type # "emergency" => r.type = o.type
           /\ o.type \notin Unset \cup {"emergency"} => r.held = o.held
<1>1. PICK d \in ReadDetails(o), g \in {o.members, "plain"} : r = [d EXCEPT !.members = g]
  BY DEF ReadAirspace
<1>2. class \in Class /\ g \in MembersOf(class)
  BY DEF Class, Alternatives, ObjectsOf, MembersOf, Members
<1>3. ASSUME NEW t \in Alternatives[class], NEW x \in ContentOf(class, t), d = Holding(t, x, None)
      PROVE  r \in ObjectsOf(class) /\ Good(r) /\ r.members = g /\ r.type = t
  <2>1. r = Holding(t, x, g)
    BY <1>1, <1>3 DEF Holding
  <2> QED
    BY <1>2, <2>1, MadeGood DEF Holding
<1>4. CASE o.type = "emergency"
  <2>1. d = Empty \/ \E h \in HeldBy(class) : d = Holding(h.alternative, h.content, None)
    <3>1. ReadDetails(o) = {Empty} \cup {Holding(h.alternative, h.content, None) : h \in HeldBy(class)}
      BY <1>4 DEF ReadDetails
    <3> QED
      BY <1>1, <3>1
  <2>2. CASE d = Empty
    <3>1. r \in ObjectsOf(class) /\ r.members = g
      BY <1>1, <1>2, <2>2, MadeGood DEF ObjectsOf
    <3>2. Good(r)
      BY <1>1, <1>2, <2>2, NothingIsNoAlternative DEF Good, Sound, Tagged, Empty
    <3> QED
      BY <1>4, <3>1, <3>2
  <2>3. CASE \E h \in HeldBy(class) : d = Holding(h.alternative, h.content, None)
    <3>1. PICK h \in HeldBy(class) : d = Holding(h.alternative, h.content, None)
      BY <2>3
    <3>2. h.alternative \in Alternatives[class] /\ h.content \in ContentOf(class, h.alternative)
      BY DEF HeldBy
    <3> QED
      BY <1>3, <1>4, <3>1, <3>2
  <2> QED
    BY <2>1, <2>2, <2>3
<1>5. CASE o.type \in Unset
  <2>1. PICK x \in ContentOf(class, o.type) : d = Holding(o.type, x, None)
    BY <1>1, <1>5 DEF ReadDetails, Unset
  <2>2. o.type \in Alternatives[class]
    BY <1>5 DEF Unset, Alternatives
  <2> QED
    BY <1>3, <1>5, <2>1, <2>2
<1>6. CASE o.type \notin Unset \cup {"emergency"}
  <2>1. r = [o EXCEPT !.members = g]
    BY <1>1, <1>6 DEF ReadDetails
  <2>2. r \in ObjectsOf(class) /\ r.type = o.type /\ r.held = o.held /\ r.members = g
    BY <1>2, <2>1 DEF ObjectsOf
  <2> QED
    BY <2>2 DEF Good, Sound, Tagged
<1> QED
  BY <1>4, <1>5, <1>6

\* What is read is a good object.
LEMMA ReadGood ==
    ASSUME class \in Class, NEW o \in ObjectsOf(class), Good(o), NEW r \in Read(o)
    PROVE  r \in ObjectsOf(class) /\ Good(r)
<1>1. CASE class = "Geometry"
  <2>1. Tagged(o) /\ r = Holding(o.type, Reread(o.held.content), None)
    BY <1>1 DEF Read, ReadGeometry
  <2>2. o.type \in Alternatives[class] /\ o.held.content \in ContentOf(class, o.type)
    BY <2>1, GoodHolds
  <2>3. Reread(o.held.content) \in ContentOf(class, o.type) /\ None \in MembersOf(class)
    BY <1>1, <2>2 DEF ContentOf, Coordinates, Reread, MembersOf
  <2> QED
    BY <2>1, <2>2, <2>3, MadeGood
<1>2. CASE class = "Airspace"
  BY <1>2, AirspaceRead DEF Read
<1>3. CASE class = "Token" \/ class = "FeatureValue"
  BY <1>3 DEF Read, ReadToken, ReadFeatureValue
<1>4. CASE class \notin {"Geometry", "Airspace", "Token", "FeatureValue"}
  BY <1>4 DEF Read
<1> QED
  BY <1>1, <1>2, <1>3, <1>4

-----------------------------------------------------------------------------
\* What a class finds good, or alike, depends on nothing but the class.
LEMMA SameClass ==
    ASSUME class' = class, NEW k \in Object
    PROVE  /\ Good(objects[k])' <=> Good(objects'[k])
           /\ Exists(k)' <=> objects'[k] # None
           /\ Twin(k)' <=> (origin'[k] # None =>
                /\ origin'[k].object # k /\ objects'[k] # None /\ objects'[origin'[k].object] # None
                /\ Likeness(objects'[k], objects'[origin'[k].object], origin'[k].coded))
BY DEF Good, Sound, Tagged, Exists, Twin, Likeness, Same, Read, ReadGeometry, ReadToken,
       ReadFeatureValue, ReadAirspace, ReadDetails, Empty, Holding

\* An object is replaced, deleted or made, and what was a copy of it is not any
\* more.
LEMMA Replaced ==
    ASSUME IInv, Defined, NEW n \in Object, NEW o \in {None} \cup ObjectsOf(class),
           NEW from \in Origins, class' = class,
           objects' = [objects EXCEPT ![n] = o], origin' = Changed(n, from),
           o # None => Good(o),
           from # None => /\ from.object # n /\ o # None /\ Exists(from.object)
                          /\ Likeness(o, objects[from.object], from.coded)
    PROVE  /\ objects' \in [Object -> {None} \cup ObjectsOf(class')]
           /\ origin' \in [Object -> Origins]
           /\ \A k \in Object : (Exists(k)' => Good(objects[k])') /\ Twin(k)'
<1>1. objects \in [Object -> {None} \cup ObjectsOf(class)] /\ origin \in [Object -> Origins]
  BY DEF IInv, FaultsAreKnown
<1>2. objects' \in [Object -> {None} \cup ObjectsOf(class')]
  BY <1>1
<1>3. origin' \in [Object -> Origins]
  BY <1>1 DEF Changed, Origins
<1>4. ASSUME NEW k \in Object
      PROVE  (Exists(k)' => Good(objects[k])') /\ Twin(k)'
  <2>1. (Exists(k) => Good(objects[k])) /\ Twin(k)
    BY DEF IInv
  <2>2. CASE k = n
    <3>1. objects'[k] = o /\ origin'[k] = from
      BY <1>1, <2>2 DEF Changed
    <3>2. from # None => objects'[from.object] = objects[from.object]
      BY <1>1, NoneAssumption DEF Origins
    <3> QED
      BY <3>1, <3>2, <2>2, SameClass DEF Exists
  <2>3. CASE k # n
    <3>1. objects'[k] = objects[k]
      BY <1>1, <2>3
    <3>2. origin'[k] # None => /\ origin'[k] = origin[k] /\ origin[k] # None
                               /\ objects'[origin[k].object] = objects[origin[k].object]
      BY <1>1, <2>3 DEF Changed, Origins
    <3> QED
      BY <2>1, <3>1, <3>2, SameClass DEF Twin, Exists
  <2> QED
    BY <2>2, <2>3
<1> QED
  BY <1>2, <1>3, <1>4

\* The faults of a step are known ones, and it keeps objects good and copies
\* alike unless it is the last.
LEMMA Concludes ==
    ASSUME IInv, class' = class, NEW F, faults' = faults \cup F, \A f \in F : KnownFault(f),
           objects' \in [Object -> {None} \cup ObjectsOf(class')], origin' \in [Object -> Origins],
           Defined' => \A k \in Object : (Exists(k)' => Good(objects[k])') /\ Twin(k)'
    PROVE  IInv'
<1>1. \A f \in faults' : KnownFault(f)'
  BY DEF IInv, FaultsAreKnown, KnownFault
<1>2. class' \in Class
  BY DEF IInv, FaultsAreKnown
<1> QED
  BY <1>1, <1>2 DEF IInv, FaultsAreKnown

\* An object that is there is one of the class, and good.
LEMMA Existing ==
    ASSUME IInv, Defined, NEW n \in Object, Exists(n)
    PROVE  objects[n] \in ObjectsOf(class) /\ Good(objects[n]) /\ Sound(objects[n])
BY DEF IInv, FaultsAreKnown, Exists, Good

\* What destroying a good object leaks.
LEMMA DestroyedLeaks ==
    ASSUME class \in Class, NEW o \in ObjectsOf(class), NEW operation
    PROVE  \A f \in Leak(Destroyed(o), operation) : KnownFault(f)
<1>1. CASE class = "ErrorValue"
  BY <1>1 DEF Leak, KnownFault
<1>2. CASE class # "ErrorValue"
  BY <1>2, DestroyedIsEmpty DEF Leak, Owns
<1> QED
  BY <1>1, <1>2

LEMMA ConstructStep ==
    ASSUME IInv, NEW n \in Object, Construct(n)
    PROVE  IInv'
<1>1. class \in Class
  BY DEF IInv, FaultsAreKnown
<1>2. PICK o \in ObjectsOf(class) : Good(o) /\ objects' = [objects EXCEPT ![n] = o]
  <2>1. CASE class # "Outcome" /\ objects' = [objects EXCEPT ![n] = Empty]
    BY <1>1, <2>1, MadeGood
  <2>2. CASE class # "Airspace" /\ \E t \in Alternatives[class] : \E c \in ContentOf(class, t) \ {"misread"} :
                objects' = [objects EXCEPT ![n] = Holding(t, c, None)]
    <3>1. PICK t \in Alternatives[class] : \E c \in ContentOf(class, t) :
                objects' = [objects EXCEPT ![n] = Holding(t, c, None)]
      BY <2>2
    <3>2. PICK c \in ContentOf(class, t) : objects' = [objects EXCEPT ![n] = Holding(t, c, None)]
      BY <3>1
    <3>3. None \in MembersOf(class)
      BY <2>2 DEF MembersOf
    <3> QED
      BY <1>1, <3>2, <3>3, MadeGood
  <2> QED
    BY <2>1, <2>2 DEF Construct
<1>3. /\ Defined /\ class' = class /\ faults' = faults \cup Leak(Raw, "construct")
      /\ origin' = Changed(n, None)
  BY DEF Construct
<1>4. /\ objects' \in [Object -> {None} \cup ObjectsOf(class')] /\ origin' \in [Object -> Origins]
      /\ \A k \in Object : (Exists(k)' => Good(objects[k])') /\ Twin(k)'
  BY <1>2, <1>3, Replaced DEF Origins
<1>5. \A f \in Leak(Raw, "construct") : KnownFault(f)
  BY <1>1, RawLeaks
<1> QED
  BY <1>3, <1>4, <1>5, Concludes

LEMMA CopyConstructStep ==
    ASSUME IInv, NEW n \in Object, NEW m \in Object, CopyConstruct(n, m)
    PROVE  IInv'
<1> DEFINE o == Copied(Raw, objects[m])
<1>1. /\ Defined /\ ~Exists(n) /\ Exists(m) /\ class' = class
      /\ objects' = [objects EXCEPT ![n] = o] /\ origin' = Changed(n, From(m, FALSE))
      /\ faults' = faults \cup Leak(Raw, "copy") \cup Undefined(objects[m], "copy")
  BY DEF CopyConstruct
<1>2. class \in Class
  BY DEF IInv, FaultsAreKnown
<1>3. objects[m] \in ObjectsOf(class) /\ Good(objects[m]) /\ Sound(objects[m])
  BY <1>1, Existing
<1>4. o \in ObjectsOf(class) /\ Good(o) /\ Same(o, objects[m])
  <2>1. Raw \in ObjectsOf(class) /\ (class # "Outcome" => Raw.held = None)
    BY <1>2, RawStorage
  <2> QED
    BY <1>2, <1>3, <2>1, Typing, CopiedGood
<1>5. Likeness(o, objects[m], FALSE)
  BY <1>4 DEF Likeness
<1>6. o # None
  BY <1>2, <1>4, NoneAssumption
<1>7. From(m, FALSE) \in Origins /\ From(m, FALSE).object = m /\ From(m, FALSE).coded = FALSE
  BY DEF From, Origins
<1>8. m # n
  BY <1>1
<1> HIDE DEF o
<1>9. /\ objects' \in [Object -> {None} \cup ObjectsOf(class')] /\ origin' \in [Object -> Origins]
      /\ \A k \in Object : (Exists(k)' => Good(objects[k])') /\ Twin(k)'
  BY <1>1, <1>4, <1>5, <1>6, <1>7, <1>8, Replaced
<1>10. faults' = faults \cup Leak(Raw, "copy")
  BY <1>1, <1>3 DEF Undefined
<1>11. \A f \in Leak(Raw, "copy") : KnownFault(f)
  BY <1>2, RawLeaks
<1> QED
  BY <1>1, <1>9, <1>10, <1>11, Concludes

\* Assigning another object.
LEMMA AssignOtherStep ==
    ASSUME IInv, NEW n \in Object, NEW m \in Object, n # m, Assign(n, m)
    PROVE  IInv'
<1> DEFINE d == Destroyed(objects[n])
           o == Copied(d, objects[m])
           F == Leak(d, "assign")
<1>1. /\ Defined /\ Exists(n) /\ Exists(m) /\ class' = class
      /\ objects' = [objects EXCEPT ![n] = o] /\ origin' = Changed(n, From(m, FALSE))
      /\ faults' = faults \cup Undefined(objects[n], "assign") \cup F \cup Undefined(objects[m], "assign")
  <2>1. objects[m] \in ObjectsOf(class) /\ Source(n, m) = objects[m]
    BY Existing DEF Assign, Source
  <2>2. AssignedMembers(n, m) = {objects[m].members}
    BY DEF AssignedMembers
  <2>3. [objects[m] EXCEPT !.members = objects[m].members] = objects[m]
    BY <2>1 DEF ObjectsOf
  <2> QED
    BY <2>1, <2>2, <2>3 DEF Assign
<1>2. class \in Class
  BY DEF IInv, FaultsAreKnown
<1>3. /\ objects[n] \in ObjectsOf(class) /\ Sound(objects[n])
      /\ objects[m] \in ObjectsOf(class) /\ Good(objects[m]) /\ Sound(objects[m])
  BY <1>1, Existing
<1>4. o \in ObjectsOf(class) /\ Good(o) /\ Same(o, objects[m])
  <2>1. d \in ObjectsOf(class) /\ (class \notin {"ErrorValue", "Outcome"} => d.held = None)
    BY <1>2, <1>3, Typing, DestroyedIsEmpty
  <2> HIDE DEF d
  <2> QED
    BY <1>2, <1>3, <2>1, Typing, CopiedGood
<1>5. Likeness(o, objects[m], FALSE)
  BY <1>4 DEF Likeness
<1>6. o # None
  BY <1>2, <1>4, NoneAssumption
<1>7. From(m, FALSE) \in Origins /\ From(m, FALSE).object = m /\ From(m, FALSE).coded = FALSE
  BY DEF From, Origins
<1>8. \A f \in F : KnownFault(f)
  BY <1>2, <1>3, DestroyedLeaks
<1>9. faults' = faults \cup F
  BY <1>1, <1>3 DEF Undefined
<1> HIDE DEF o, F
<1>10. /\ objects' \in [Object -> {None} \cup ObjectsOf(class')] /\ origin' \in [Object -> Origins]
       /\ \A k \in Object : (Exists(k)' => Good(objects[k])') /\ Twin(k)'
  BY <1>1, <1>4, <1>5, <1>6, <1>7, Replaced
<1> QED
  BY <1>1, <1>8, <1>9, <1>10, Concludes

\* What an object assigned to itself becomes, and what goes wrong: reading what
\* has been destroyed ends the behaviour.
LEMMA SelfAssigned ==
    ASSUME IInv, NEW n \in Object, Defined, Exists(n), NEW g \in AssignedMembers(n, n)
    PROVE  LET s == Source(n, n)
               o == Copied(Destroyed(objects[n]), [s EXCEPT !.members = g]) IN
           /\ o \in ObjectsOf(class)
           /\ Sound(s) => Good(o)
           /\ ~Sound(s) => class \in {"Airspace", "Optional", "Outcome"}
           /\ o.type # objects[n].type => class \in {"Geometry", "Token", "ErrorValue", "FeatureValue"}
           /\ o.members # objects[n].members => class = "Airspace"
<1>1. class \in Class
  BY DEF IInv, FaultsAreKnown
<1>2. objects[n] \in ObjectsOf(class) /\ Good(objects[n])
  BY Existing
<1>3. g \in MembersOf(class) /\ (class # "Airspace" => g = objects[n].members)
  BY <1>2 DEF AssignedMembers, ObjectsOf, MembersOf, Members
<1>4. CASE class \in {"Airspace", "Outcome"}
  BY <1>1, <1>2, <1>3, <1>4, NothingIsNoAlternative
     DEF Source, Destroyed, Emptied, Copied, Good, Sound, Tagged, ObjectsOf
<1>5. CASE class = "Optional"
  BY <1>1, <1>2, <1>3, <1>5, NothingIsNoAlternative
     DEF Source, Destroyed, Empty, Copied, Good, Sound, Tagged, ObjectsOf
<1>6. CASE class = "ErrorValue"
  BY <1>1, <1>2, <1>3, <1>6, NothingIsNoAlternative
     DEF Source, Destroyed, Untagged, Copied, Good, Sound, Tagged, ObjectsOf
<1>7. CASE class \in {"Geometry", "Token", "FeatureValue"}
  BY <1>1, <1>2, <1>3, <1>7, NothingIsNoAlternative
     DEF Source, Destroyed, Empty, Copied, Good, Sound, Tagged, ObjectsOf, MembersOf
<1> QED
  BY <1>1, <1>4, <1>5, <1>6, <1>7 DEF Class, Alternatives

LEMMA AssignSelfStep ==
    ASSUME IInv, NEW n \in Object, Assign(n, n)
    PROVE  IInv'
<1>1. PICK g \in AssignedMembers(n, n) :
            objects' = [objects EXCEPT ![n] = Copied(Destroyed(objects[n]), [Source(n, n) EXCEPT !.members = g])]
  BY DEF Assign
<1> DEFINE s == Source(n, n)
           d == Destroyed(objects[n])
           o == Copied(d, [s EXCEPT !.members = g])
           Lost == IF o.type # objects[n].type \/ o.members # objects[n].members
                   THEN {<<"lost", "self-assign">>} ELSE {}
           F == Leak(d, "self-assign") \cup Undefined(s, "self-assign") \cup Lost
<1>2. /\ Defined /\ Exists(n) /\ class' = class
      /\ objects' = [objects EXCEPT ![n] = o] /\ origin' = Changed(n, None)
  BY <1>1 DEF Assign
<1>3. class \in Class /\ objects \in [Object -> {None} \cup ObjectsOf(class)]
  BY DEF IInv, FaultsAreKnown
<1>4. objects[n] \in ObjectsOf(class) /\ Sound(objects[n])
  BY <1>2, Existing
<1>5. objects'[n] = o
  BY <1>2, <1>3
<1>6. faults' = faults \cup F
  BY <1>4, <1>5 DEF Assign, Undefined
<1>7. /\ o \in ObjectsOf(class)
      /\ Sound(s) => Good(o)
      /\ ~Sound(s) => class \in {"Airspace", "Optional", "Outcome"}
      /\ o.type # objects[n].type => class \in {"Geometry", "Token", "ErrorValue", "FeatureValue"}
      /\ o.members # objects[n].members => class = "Airspace"
  BY <1>2, SelfAssigned
<1>8. \A f \in F : KnownFault(f)
  <2>1. \A f \in Leak(d, "self-assign") : KnownFault(f)
    BY <1>3, <1>4, DestroyedLeaks
  <2> HIDE DEF s, d, o
  <2> QED
    BY <1>7, <2>1 DEF Undefined, KnownFault
<1>9. Defined' => Sound(s)
  <2>1. SUFFICES ASSUME ~Sound(s) PROVE ~Defined'
    OBVIOUS
  <2>2. <<"undefined", "self-assign">> \in faults'
    BY <1>6, <2>1 DEF Undefined
  <2> HIDE DEF s, d, o
  <2> QED
    BY <2>2 DEF Defined
<1> HIDE DEF s, d, o, F
<1>10. CASE Sound(s)
  <2>1. /\ objects' \in [Object -> {None} \cup ObjectsOf(class')] /\ origin' \in [Object -> Origins]
        /\ \A k \in Object : (Exists(k)' => Good(objects[k])') /\ Twin(k)'
    BY <1>2, <1>7, <1>10, Replaced DEF Origins
  <2> QED
    BY <1>2, <1>6, <1>8, <2>1, Concludes
<1>11. CASE ~Sound(s)
  <2>1. objects' \in [Object -> {None} \cup ObjectsOf(class')]
    BY <1>2, <1>3, <1>7
  <2>2. origin' \in [Object -> Origins]
    BY <1>2 DEF Changed, IInv, Origins
  <2> QED
    BY <1>2, <1>6, <1>8, <1>9, <1>11, <2>1, <2>2, Concludes
<1> QED
  BY <1>10, <1>11

LEMMA DeleteStep ==
    ASSUME IInv, NEW n \in Object, Delete(n)
    PROVE  IInv'
<1> DEFINE F == Leak(Destroyed(objects[n]), "delete")
<1>1. /\ Defined /\ Exists(n) /\ class' = class
      /\ objects' = [objects EXCEPT ![n] = None] /\ origin' = Changed(n, None)
      /\ faults' = faults \cup Undefined(objects[n], "delete") \cup F
  BY DEF Delete
<1>2. class \in Class
  BY DEF IInv, FaultsAreKnown
<1>3. objects[n] \in ObjectsOf(class) /\ Sound(objects[n])
  BY <1>1, Existing
<1>4. \A f \in F : KnownFault(f)
  BY <1>2, <1>3, DestroyedLeaks
<1>5. faults' = faults \cup F
  BY <1>1, <1>3 DEF Undefined
<1> HIDE DEF F
<1>6. /\ objects' \in [Object -> {None} \cup ObjectsOf(class')] /\ origin' \in [Object -> Origins]
      /\ \A k \in Object : (Exists(k)' => Good(objects[k])') /\ Twin(k)'
  BY <1>1, Replaced DEF Origins
<1> QED
  BY <1>1, <1>4, <1>5, <1>6, Concludes

\* An Optional destroys what it holds before it is set; an Airspace does not.
LEMMA SetStep ==
    ASSUME IInv, NEW n \in Object, Set(n)
    PROVE  IInv'
<1> DEFINE F == Leak(Cleared(objects[n]), "set")
<1>1. /\ Defined /\ Exists(n) /\ class' = class /\ class \in {"Optional", "Airspace"}
      /\ origin' = Changed(n, None) /\ faults' = faults \cup F
  BY DEF Set
<1>2. class \in Class /\ objects \in [Object -> {None} \cup ObjectsOf(class)]
  BY DEF IInv, FaultsAreKnown
<1>3. objects[n] \in ObjectsOf(class)
  BY <1>1, Existing
<1>4. PICK o \in ObjectsOf(class) : Good(o) /\ objects' = [objects EXCEPT ![n] = o]
  <2> DEFINE g == objects[n].members
  <2>1. PICK t \in Alternatives[class] : \E x \in ContentOf(class, t) :
            objects' = [objects EXCEPT ![n] = Copied(Cleared(objects[n]), Holding(t, x, g))]
    BY DEF Set
  <2>2. PICK x \in ContentOf(class, t) :
            objects' = [objects EXCEPT ![n] = Copied(Cleared(objects[n]), Holding(t, x, g))]
    BY <2>1
  <2>3. g \in MembersOf(class)
    BY <1>3 DEF ObjectsOf
  <2> HIDE DEF g
  <2>4. Copied(Cleared(objects[n]), Holding(t, x, g)) = Holding(t, x, g)
    BY <1>2, <2>3, MadeGood DEF Copied
  <2> QED
    BY <1>2, <2>2, <2>3, <2>4, MadeGood
<1>5. \A f \in F : KnownFault(f)
  <2>1. CASE class = "Airspace"
    BY <2>1 DEF Leak, KnownFault
  <2>2. CASE class = "Optional"
    BY <2>2, <1>2, <1>3, DestroyedIsEmpty DEF Cleared, Leak, Owns
  <2> QED
    BY <1>1, <2>1, <2>2
<1> HIDE DEF F
<1>6. /\ objects' \in [Object -> {None} \cup ObjectsOf(class')] /\ origin' \in [Object -> Origins]
      /\ \A k \in Object : (Exists(k)' => Good(objects[k])') /\ Twin(k)'
  BY <1>1, <1>4, Replaced DEF Origins
<1> QED
  BY <1>1, <1>5, <1>6, Concludes

LEMMA SetMembersStep ==
    ASSUME IInv, NEW n \in Object, SetMembers(n)
    PROVE  IInv'
<1>1. PICK g \in Members : objects' = [objects EXCEPT ![n] = [objects[n] EXCEPT !.members = g]]
  BY DEF SetMembers
<1> DEFINE o == [objects[n] EXCEPT !.members = g]
           F == {}
<1>2. /\ Defined /\ Exists(n) /\ class' = class /\ class = "Airspace"
      /\ origin' = Changed(n, None) /\ faults' = faults \cup F
  BY DEF SetMembers
<1>3. objects[n] \in ObjectsOf(class) /\ Good(objects[n])
  BY <1>2, Existing
<1>4. o \in ObjectsOf(class) /\ Good(o)
  <2>1. o \in ObjectsOf(class) /\ o.type = objects[n].type /\ o.held = objects[n].held
    BY <1>2, <1>3 DEF ObjectsOf, MembersOf
  <2> HIDE DEF o
  <2> QED
    BY <1>3, <2>1 DEF Good, Sound, Tagged
<1>5. objects' = [objects EXCEPT ![n] = o]
  BY <1>1
<1>6. \A f \in F : KnownFault(f)
  OBVIOUS
<1> HIDE DEF o, F
<1>7. /\ objects' \in [Object -> {None} \cup ObjectsOf(class')] /\ origin' \in [Object -> Origins]
      /\ \A k \in Object : (Exists(k)' => Good(objects[k])') /\ Twin(k)'
  BY <1>2, <1>4, <1>5, Replaced DEF Origins
<1> QED
  BY <1>2, <1>6, <1>7, Concludes

LEMMA ResetStep ==
    ASSUME IInv, NEW n \in Object, Reset(n)
    PROVE  IInv'
<1> DEFINE F == Undefined(objects[n], "reset")
<1>1. /\ Defined /\ Exists(n) /\ class' = class /\ class = "Optional"
      /\ objects' = [objects EXCEPT ![n] = Destroyed(objects[n])]
      /\ origin' = Changed(n, None) /\ faults' = faults \cup F
  BY DEF Reset
<1>2. class \in Class
  BY DEF IInv, FaultsAreKnown
<1>3. Destroyed(objects[n]) \in ObjectsOf(class) /\ Good(Destroyed(objects[n]))
  BY <1>1, <1>2, MadeGood DEF Destroyed
<1>4. F = {}
  BY <1>1, Existing DEF Undefined
<1>5. /\ objects' \in [Object -> {None} \cup ObjectsOf(class')] /\ origin' \in [Object -> Origins]
      /\ \A k \in Object : (Exists(k)' => Good(objects[k])') /\ Twin(k)'
  BY <1>1, <1>3, Replaced DEF Origins
<1> QED
  BY <1>1, <1>4, <1>5, Concludes

LEMMA CompareStep ==
    ASSUME IInv, NEW n \in Object, NEW m \in Object, Compare(n, m)
    PROVE  IInv'
<1> DEFINE F == IF SameMembers(objects[n], objects[m]) /\ objects[n].type \notin Unread
                THEN Undefined([objects[m] EXCEPT !.type = objects[n].type], "compare") ELSE {}
<1>1. /\ Defined /\ class' = class /\ class = "Airspace" /\ objects' = objects /\ origin' = origin
      /\ faults' = faults \cup F
  BY DEF Compare
<1>2. \A f \in F : KnownFault(f)
  BY <1>1 DEF Undefined, KnownFault
<1> HIDE DEF F
<1>3. /\ objects' \in [Object -> {None} \cup ObjectsOf(class')] /\ origin' \in [Object -> Origins]
  BY <1>1 DEF IInv, FaultsAreKnown
<1>4. \A k \in Object : (Exists(k)' => Good(objects[k])') /\ Twin(k)'
  BY <1>1, SameClass DEF IInv, Exists, Twin
<1> QED
  BY <1>1, <1>2, <1>3, <1>4, Concludes

\* Decoding a copy of one object over another, or over the object itself.
LEMMA RecodeStep ==
    ASSUME IInv, NEW n \in Object, NEW m \in Object, Recode(n, m)
    PROVE  IInv'
<1> DEFINE d == Destroyed(objects[n])
           from == IF n = m THEN None ELSE From(m, TRUE)
           F == Leak(d, "decode")
<1>1. PICK read \in Read(objects[m]) : objects' = [objects EXCEPT ![n] = Copied(d, read)]
  BY DEF Recode
<1> DEFINE o == Copied(d, read)
<1>2. /\ Defined /\ Exists(n) /\ Exists(m) /\ class' = class /\ origin' = Changed(n, from)
      /\ faults' = faults \cup Undefined(objects[n], "decode") \cup Undefined(objects[m], "encode") \cup F
  BY DEF Recode
<1>3. class \in Class
  BY DEF IInv, FaultsAreKnown
<1>4. /\ objects[n] \in ObjectsOf(class) /\ Sound(objects[n])
      /\ objects[m] \in ObjectsOf(class) /\ Good(objects[m]) /\ Sound(objects[m])
  BY <1>2, Existing
<1>5. read \in ObjectsOf(class) /\ Good(read)
  BY <1>1, <1>3, <1>4, ReadGood
<1>6. o \in ObjectsOf(class) /\ Good(o) /\ Same(o, read)
  <2>1. d \in ObjectsOf(class) /\ (class \notin {"ErrorValue", "Outcome"} => d.held = None)
    BY <1>3, <1>4, Typing, DestroyedIsEmpty
  <2> HIDE DEF d
  <2> QED
    BY <1>3, <1>5, <2>1, Typing, CopiedGood
<1>7. Likeness(o, objects[m], TRUE)
  BY <1>1, <1>6 DEF Likeness
<1>8. o # None
  BY <1>3, <1>6, NoneAssumption
<1>9. from \in Origins /\ (from # None => from.object = m /\ from.coded = TRUE /\ from.object # n)
  BY DEF From, Origins
<1>10. \A f \in F : KnownFault(f)
  BY <1>3, <1>4, DestroyedLeaks
<1>11. faults' = faults \cup F
  BY <1>2, <1>4 DEF Undefined
<1>12. objects' = [objects EXCEPT ![n] = o]
  BY <1>1
<1> HIDE DEF o, F, from
<1>13. /\ objects' \in [Object -> {None} \cup ObjectsOf(class')] /\ origin' \in [Object -> Origins]
       /\ \A k \in Object : (Exists(k)' => Good(objects[k])') /\ Twin(k)'
  BY <1>2, <1>6, <1>7, <1>8, <1>9, <1>12, Replaced
<1> QED
  BY <1>2, <1>10, <1>11, <1>13, Concludes

-----------------------------------------------------------------------------
\* Every object that is read holds what its tag names, whatever was made, copied,
\* assigned, decoded and deleted before, and a copy is like its original.
THEOREM ValuesInvariant == Spec => []IInv
<1>1. Init => IInv
  BY DEF Init, IInv, FaultsAreKnown, Defined, Exists, Twin, Origins
<1>2. IInv /\ [Next]_vars => IInv'
  <2> SUFFICES ASSUME IInv, [Next]_vars PROVE IInv'
    OBVIOUS
  <2>1. ASSUME NEW n \in Object, Construct(n) \/ Delete(n) \/ Set(n) \/ SetMembers(n) \/ Reset(n)
        PROVE  IInv'
    BY <2>1, ConstructStep, DeleteStep, SetStep, SetMembersStep, ResetStep
  <2>2. ASSUME NEW n \in Object, NEW m \in Object, CopyConstruct(n, m) PROVE IInv'
    BY <2>2, CopyConstructStep
  <2>3. ASSUME NEW n \in Object, NEW m \in Object, Assign(n, m) PROVE IInv'
    BY <2>3, AssignOtherStep, AssignSelfStep
  <2>4. ASSUME NEW n \in Object, NEW m \in Object, Compare(n, m) PROVE IInv'
    BY <2>4, CompareStep
  <2>5. ASSUME NEW n \in Object, NEW m \in Object, Recode(n, m) PROVE IInv'
    BY <2>5, RecodeStep
  <2>6. CASE UNCHANGED vars
    <3>1. class' = class /\ objects' = objects /\ origin' = origin /\ faults' = faults
      BY <2>6 DEF vars
    <3>2. \A k \in Object : (Good(objects[k])' <=> Good(objects[k])) /\ (Twin(k)' <=> Twin(k))
      BY <3>1, SameClass DEF Twin, Exists
    <3> QED
      BY <3>1, <3>2 DEF IInv, FaultsAreKnown, KnownFault, Defined, Exists
  <2> QED
    BY <2>1, <2>2, <2>3, <2>4, <2>5, <2>6 DEF Next
<1> QED
  BY <1>1, <1>2, PTL DEF Spec

\* Outside the operations named, no alternative is ever read before it is
\* constructed, or lost without being destroyed.
THEOREM FaultsStayKnown == Spec => []FaultsAreKnown
<1>1. IInv => FaultsAreKnown
  BY DEF IInv
<1> QED
  BY <1>1, ValuesInvariant, PTL

\* Objects that say the same are equal, but for what is never equal.
LEMMA SameIsEqual ==
    ASSUME class \in Class, NEW o, NEW r, Same(o, r)
    PROVE  (Equal(o, r) <=> ~NeverEqual(r)) /\ (Equal(r, o) <=> ~NeverEqual(r))
BY DEF Same, Equal, EqualAirspaces, SameMembers, EqualIfTagged, EqualGeometries, NeverEqual, Tagged

\* An Airspace is equal to what was read from it, if its type and its members
\* are carried by JSON.  The class of a controlled airspace is not, nor compared.
LEMMA ReadAirspacesAreEqual ==
    ASSUME class = "Airspace", NEW r \in ObjectsOf(class), Good(r), NEW read \in ReadAirspace(r),
           ~NeverEqual(r), ~LostInJSON(r), NEW o, Same(o, read)
    PROVE  Equal(o, r) /\ Equal(r, o)
<1>1. r.members = "plain"
  BY DEF ObjectsOf, MembersOf, Members, NeverEqual, LostInJSON
<1>2. read.members = "plain" /\ read.type = r.type /\ (r.type # "controlled_airspace" => read.held = r.held)
  BY <1>1, AirspaceRead DEF LostInJSON, Unset
<1>3. SameMembers(o, r) /\ SameMembers(r, o) /\ o.type = r.type
  BY <1>1, <1>2 DEF Same, SameMembers
<1>4. CASE r.type = "controlled_airspace"
  BY <1>3, <1>4 DEF Equal, EqualAirspaces, Unread
<1>5. CASE r.type # "controlled_airspace"
  BY <1>2, <1>3, <1>5 DEF Equal, EqualAirspaces, Same, Tagged
<1> QED
  BY <1>4, <1>5

\* What is read from a good object of another class is the object, unless it has a
\* number that JSON does not carry.
LEMMA ReadIsSame ==
    ASSUME class \in Class, class # "Airspace", NEW r \in ObjectsOf(class), Good(r), NEW read \in Read(r),
           ~NeverEqual(r), ~LostInJSON(r)
    PROVE  Same(read, r)
<1>1. CASE class = "Geometry"
  <2>1. Tagged(r) /\ read = Holding(r.type, Reread(r.held.content), None)
    BY <1>1 DEF Read, ReadGeometry
  <2>2. r = Holding(r.type, r.held.content, r.members) /\ r.members = None
    BY <1>1, <2>1, GoodHolds DEF ObjectsOf, MembersOf
  <2>3. Reread(r.held.content) = r.held.content
    BY <1>1, <2>1 DEF NeverEqual, LostInJSON, Reread
  <2> QED
    BY <2>1, <2>2, <2>3 DEF Same
<1>2. CASE class # "Geometry"
  BY <1>2 DEF Read, ReadToken, ReadFeatureValue, Same
<1> QED
  BY <1>1, <1>2

\* A copy, or what is decoded from one, equals the original until either changes.
THEOREM CopiesStayEqual == Spec => []CopiesAreEqual
<1>1. ASSUME IInv PROVE CopiesAreEqual
  <2>1. SUFFICES ASSUME NEW n \in Object, Defined, origin[n] # None
                 PROVE  LET o == objects[n]
                            r == objects[origin[n].object] IN
                        /\ Copies(n, FALSE) => Same(o, r) /\ (Equal(o, r) <=> ~NeverEqual(r))
                        /\ Copies(n, TRUE) =>
                            (Equal(o, r) /\ Equal(r, o)) \/ NeverEqual(r) \/ LostInJSON(r)
    BY DEF CopiesAreEqual, Copies
  <2> DEFINE o == objects[n]
             r == objects[origin[n].object]
  <2>2. class \in Class /\ origin[n].object \in Object
    BY <1>1, <2>1 DEF IInv, FaultsAreKnown, Origins
  <2>3. Exists(origin[n].object) /\ Likeness(o, r, origin[n].coded)
    BY <1>1, <2>1 DEF IInv, Twin
  <2>4. r \in ObjectsOf(class) /\ Good(r)
    BY <1>1, <2>1, <2>2, <2>3, Existing
  <2> HIDE DEF o, r
  <2>5. Copies(n, FALSE) => Same(o, r)
    BY <2>3 DEF Copies, Likeness
  <2>6. ASSUME Copies(n, TRUE), ~NeverEqual(r), ~LostInJSON(r)
        PROVE  Equal(o, r) /\ Equal(r, o)
    <3>1. PICK read \in Read(r) : Same(o, read)
      BY <2>3, <2>6 DEF Copies, Likeness
    <3>2. CASE class = "Airspace"
      BY <2>4, <2>6, <3>1, <3>2, ReadAirspacesAreEqual DEF Read
    <3>3. CASE class # "Airspace"
      <4>1. Same(read, r)
        BY <2>2, <2>4, <2>6, <3>3, ReadIsSame
      <4>2. Same(o, r)
        BY <3>1, <4>1 DEF Same, Tagged
      <4> QED
        BY <2>2, <2>6, <4>2, SameIsEqual
    <3> QED
      BY <3>2, <3>3
  <2>7. Copies(n, FALSE) => Same(o, r) /\ (Equal(o, r) <=> ~NeverEqual(r))
    BY <2>2, <2>5, SameIsEqual
  <2> QED
    BY <2>6, <2>7 DEF o, r
<1> QED
  BY <1>1, ValuesInvariant, PTL
=============================================================================
