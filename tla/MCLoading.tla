------------------------------ MODULE MCLoading ------------------------------
(* Three records over each other in any way: rings, missing sub-features,   *)
(* dimensions without one.  The program prints more than the pipe holds.    *)
EXTENDS Loading

CONSTANTS pitch, chord, scale

MCNames == {pitch, chord, scale}
MCLists ==
  {<<>>, <<chord>>, <<scale>>, <<pitch, chord>>, <<chord, pitch>>, <<NoName, scale>>}
=============================================================================
