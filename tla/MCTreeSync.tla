----------------------------- MODULE MCTreeSync -----------------------------
(***************************************************************************)
(* Two small trees for TreeSync: two folders side by side, each with one   *)
(* file, and a folder in a folder.                                         *)
(***************************************************************************)
EXTENDS TreeSync

CONSTANTS a, b, d, e, dx, ex, ds, dsx, y

OneContent  == {a}
OneSize     == [x \in OneContent |-> 1]
TwoContents == {a, b}
TwoSizes    == [x \in TwoContents |-> 1]

\* d/x and e/x
PairPath    == {d, e, dx, ex}
PairFolders == {d, e}
PairParent  == [p \in PairPath |-> IF p = dx THEN d ELSE IF p = ex THEN e ELSE Root]

\* d/s/x and y
ChainPath    == {d, ds, dsx, y}
ChainFolders == {d, ds}
ChainParent  == [p \in ChainPath |-> IF p = dsx THEN ds ELSE IF p = ds THEN d ELSE Root]
=============================================================================
