------------------------------- MODULE Fence -------------------------------
(***************************************************************************)
(* The version fence of the allocation ledgers (worker/src/cells/          *)
(* records.js, fence).  An owner's Identity cell keeps one record per      *)
(* artifact and per app, an app's Paste cell one per room; every change of *)
(* a charge is a decision at the record's next version.                    *)
(***************************************************************************)
EXTENDS Integers

FenceRecord == [version: Nat, allocated: Nat, target: Nat]

\* What a ledger without a record reads as.
NoRecord == [version |-> 0, allocated |-> 0, target |-> 0]

\* Only the next version decides; every other version is answered from the
\* record and changes nothing.
Decides(current, version) == version = current.version + 1

\* Defect: the ceiling is compared with the total before the growth.
GrantsBeforeGrowth(current, total, target, cap) ==
    target <= current.allocated \/ cap = 0 \/ total <= cap

\* A shrink is always granted, as is growth without a ceiling (cap 0).
Grants(current, total, target, cap) ==
    \/ target <= current.allocated
    \/ cap = 0
    \/ total - current.allocated + target <= cap

\* The record a decision at the next version persists, granted or refused.
Decided(current, total, version, target, cap) ==
    [version   |-> version,
     allocated |-> IF Grants(current, total, target, cap)
                   THEN target ELSE current.allocated,
     target    |-> target]

\* Defect: a replay is taken for a stale version.
ReplayConflicts(current, total, version, target, cap) ==
    IF ~Decides(current, version) THEN "conflict"
    ELSE IF Grants(current, total, target, cap) THEN "granted" ELSE "refused"

\* The answer: 200 is "granted", 507 "refused", 409 "conflict" (a stale
\* version, a gap, or a replay with another target).
FenceAnswer(current, total, version, target, cap) ==
    CASE Decides(current, version) ->
            IF Grants(current, total, target, cap) THEN "granted" ELSE "refused"
      [] version = current.version /\ target = current.target ->
            IF current.target = current.allocated THEN "granted" ELSE "refused"
      [] OTHER -> "conflict"
=============================================================================
