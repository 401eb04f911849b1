------------------------------ MODULE MCSession ------------------------------
(* Instances of Session for TLC.                                           *)
EXTENDS Session

CONSTANTS x, y, none, c1

MCNames == {x, y}
MCNoRename == {}
MCOneCaller == {c1}

Symmetry == Permutations({x, y})
=============================================================================
