---------------------------- MODULE MCModeration ----------------------------
(***************************************************************************)
(* Two slugs of one owner, for TLC: one is read, the other is created by a *)
(* session that outlives the ban.                                          *)
(***************************************************************************)
EXTENDS OwnerBan

CONSTANTS s1, s2

Spending(o, f, r) == [operator |-> o, faults |-> f, reads |-> r]
OneEach == {Spending(1, 0, 1), Spending(0, 1, 0), Spending(1, 0, 0)}
=============================================================================
