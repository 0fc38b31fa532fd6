----------------------------- MODULE MCRegistry -----------------------------
(* Instances of Registry: two composite features that can lean on each     *)
(* other, a scalar one, and one whose second dimension names a feature     *)
(* that nobody may have deployed.                                          *)
EXTENDS Registry, TLC

CONSTANTS pitch, chord, scale, add, c1, a1, a2, u1, u2

MCFeatureNames == {pitch, chord, scale, EmptyName}
MCTransformationNames == {add, EmptyName}
MCConditionNames == {c1}
MCAddresses == {a1, a2}
MCUsers == {u1, u2}
MCOneUser == {u1}

Over(name, transforms) == [feature_name |-> name, transformations |-> transforms]

MCTransformations ==
  {[name |-> add, sol_src |-> "x + 1"], [name |-> EmptyName, sol_src |-> "x"]}

\* For the run about sub-features, where a name is deployed once: a scalar, features over it, one
\* over itself, one with a second dimension.
MCFeatures ==
  {[name |-> pitch, dimensions |-> <<>>],
   [name |-> chord, dimensions |-> <<Over(pitch, {add})>>],
   [name |-> chord, dimensions |-> <<Over(chord, {})>>],
   [name |-> scale, dimensions |-> <<Over(pitch, {}), Over(chord, {add})>>],
   [name |-> pitch, dimensions |-> <<Over(scale, {})>>],
   [name |-> scale, dimensions |-> <<Over(scale, {})>>],
   [name |-> EmptyName, dimensions |-> <<>>]}

\* For the run with several versions of a name: fewer features, so that two
\* versions and two owners stay small; one of each kind cannot be printed.
Unprintable == [name |-> pitch, dimensions |-> <<Over(pitch, {add})>>]

UnprintableAdd == [name |-> add, sol_src |-> "x + 2"]

MCVersionedFeatures ==
  {[name |-> pitch, dimensions |-> <<>>],
   [name |-> chord, dimensions |-> <<Over(pitch, {add})>>],
   [name |-> pitch, dimensions |-> <<Over(chord, {})>>],
   Unprintable}

MCVersionedTransformations == MCTransformations \cup {UnprintableAdd}

MCVersionedNames == {pitch, chord}

MCPrintable ==
  (MCVersionedFeatures \cup MCTransformations) \ {Unprintable}

\* Addresses are only compared, and so are owners.
MCSymmetry == Permutations(MCAddresses) \cup Permutations(MCUsers)

\* addCondition reads and changes nothing of the rest, so conditions are added while
\* there are no features only.
MCConditionsApart ==
  \/ \A n \in ConditionNames : conditions[n] = {}
  \/ \A n \in FeatureNames : isFeatureBucketEmpty(n)

MCAllPrintable == MCFeatures \cup MCTransformations

=============================================================================
