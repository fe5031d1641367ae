----------------------------- MODULE MCFileSync -----------------------------
(***************************************************************************)
(* Values for the constants of FileSync: two contents of one length, so    *)
(* that the sizes alone do not tell them apart, and one of another.        *)
(***************************************************************************)
EXTENDS FileSync

CONSTANTS a, b, c

TwoContents == {a, b}
TwoSizes    == [x \in TwoContents |-> 1]

ThreeContents == {a, b, c}
ThreeSizes    == [x \in ThreeContents |-> IF x = c THEN 2 ELSE 1]
=============================================================================
