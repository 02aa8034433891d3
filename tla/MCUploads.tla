----------------------------- MODULE MCUploads ------------------------------
(***************************************************************************)
(* Three uploads of one owner, pastes or sites, for TLC: two slots, one    *)
(* create at a time, and a write that is larger than the whole budget.     *)
(***************************************************************************)
EXTENDS UploadLifecycle

OneOwner == [u \in Uploads |-> "o"]

Pastes == [u \in Uploads |-> "paste"]
OneSite == [Pastes EXCEPT !["u2"] = "site"]
Two(a, b) == [u \in Uploads |-> CASE u = "u1" -> a [] u = "u2" -> b [] OTHER -> "never"]
Mix(k, f, d, s) == [kind |-> k, bounds |-> [faults |-> f, deletes |-> d, stops |-> s]]
Works ==
    {Mix(Pastes, 0, 0, 0), Mix(OneSite, 1, 0, 0), Mix(OneSite, 0, 1, 0), Mix(OneSite, 0, 0, 1)}
    \union {Mix(Two("paste", b), 1, 1, 1) : b \in {"paste", "site"}}

Sizes == [u \in Uploads |-> IF u = "u1" THEN 3 ELSE 1]
=============================================================================
