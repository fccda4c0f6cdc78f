----------------------------- MODULE MCWebserver ------------------------------
(***************************************************************************)
(* Small instances of Webserver for TLC.                                   *)
(***************************************************************************)
EXTENDS Webserver

CONSTANTS c1, c2, c3

TwoConns == {c1, c2}
ThreeConns == {c1, c2, c3}
Symmetry2 == Permutations(TwoConns)
Symmetry3 == Permutations(ThreeConns)

===============================================================================
