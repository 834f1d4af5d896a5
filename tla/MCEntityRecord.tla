--------------------------- MODULE MCEntityRecord ---------------------------
(* Two calls of two workers on an entity of any kind, at once or one after *)
(* the other, followed by any of its fields.                               *)
EXTENDS EntityRecord, TLC
CONSTANTS w1, w2
Workers == {w1, w2}
Priorities == {"medium"}
Values == {"given"}
Symmetry == Permutations(Workers)
=============================================================================
