------------------------------- MODULE MCRoom -------------------------------
(***************************************************************************)
(* Instances of RoomEscrow for TLC.                                        *)
(***************************************************************************)
EXTENDS RoomProperties, TLC

CONSTANTS r1, r2, k1, k2, o1, o2

Symmetry == Permutations({r1, r2}) \union Permutations({k1, k2}) \union Permutations({o1, o2})
=============================================================================
