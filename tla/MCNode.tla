------------------------------- MODULE MCNode -------------------------------
(* Instances of Node: a scalar feature, a composite that needs a           *)
(* transformation, two composites that lean on each other, one that leans  *)
(* on itself, one whose record cannot be printed.                          *)
EXTENDS Node

CONSTANTS pitch, chord, scale, add, u1, u2

MCFeatureNames == {pitch, chord, scale}
MCTransformationNames == {add}
MCNoNames == {}
MCUsers == {u1, u2}

Over(name, transforms) == [feature_name |-> name, transformations |-> transforms]

Pitch == [name |-> pitch, dimensions |-> <<>>]
Chord == [name |-> chord, dimensions |-> <<Over(pitch, {add})>>]
RingChord == [name |-> chord, dimensions |-> <<Over(pitch, {}), Over(scale, {add})>>]
Scale == [name |-> scale, dimensions |-> <<Over(chord, {})>>]

SelfPitch == [name |-> pitch, dimensions |-> <<Over(pitch, {})>>]

\* A chord whose record cannot be printed as JSON
Unprintable == [name |-> chord, dimensions |-> <<Over(pitch, {})>>]

Add == [name |-> add, sol_src |-> "x + 1"]
BadAdd == [name |-> add, sol_src |-> "x / 0"]

MCFeatures == {Pitch, SelfPitch, Chord, RingChord, Scale, Unprintable}
MCTransformations == {Add, BadAdd}
MCContracts == MCFeatures \cup MCTransformations
MCConstructible == MCContracts \ {BadAdd}
MCPrintable == MCContracts \ {Unprintable}
MCAddresses == [creator : MCUsers, code : MCContracts]

\* For the run about versions: one name, and two owners that deploy it.
MCVersionedNames == {pitch}
MCVersionedFeatures == {Pitch}
MCVersionedAddresses == [creator : MCUsers, code : MCVersionedFeatures]
=============================================================================
