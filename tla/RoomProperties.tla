--------------------------- MODULE RoomProperties ---------------------------
(***************************************************************************)
(* What the room escrow promises (docs/SPEC.md, "Room storage" and "Room   *)
(* removal").                                                              *)
(***************************************************************************)
EXTENDS RoomEscrow

\* The bytes of a room's values.
Stored(r) == Total(doc[r].kv)

\* Escrow: the values a room holds, summed key by key, never exceed what the
\* app's cell has allocated to it, whatever is pending, late or stopped.
StoredEscrowed == \A r \in Room : Stored(r) <= allocation[r].allocated

\* The app's total is the sum of its rooms' allocations, so the ceilings and
\* the owner's quota are compared with what the rooms really hold.
TotalIsSum == roomAllocated = Total([r \in Room |-> allocation[r].allocated])

\* All the values of all rooms of an app stay within its ceiling, however
\* their puts, deletes and removals interleave.
AppCapRespected ==
    \A cap \in AppCaps : (cap > 0 /\ AppCaps = {cap})
        => Total([r \in Room |-> Stored(r)]) <= cap

\* "Stable state has equality": a room without a pending operation is
\* allocated exactly what it stores, so no allocation leaks.
StableExact ==
    \A r \in Room : doc[r].live /\ doc[r].pending.kind = "none" /\ r \notin gone
        => allocation[r].allocated = Stored(r)

\* The app's ledger of allocations is exact: over what its rooms store, equal to
\* it in stable state, and summed up.
EscrowExact == StoredEscrowed /\ StableExact /\ TotalIsSum

OwnerCovered == charge[ownerCharge.owner].allocated >= roomAllocated

\* The owner's record is one the app decided, or is about to.
OwnerKnown ==
    LET held == charge[ownerCharge.owner] IN
    \/ held.version < ownerCharge.version
    \/ held.version = ownerCharge.version /\ held.target = ownerCharge.target

\* The owner is charged for at least what the app holds: growth is charged
\* before it is committed, a shrink after, and a lost answer is replayed.  A
\* record that a seed overwrote without the app's knowing (a move to another
\* owner that was not recorded) is left out.
OwnerCovers == (ownerCharge # NoCharge /\ OwnerKnown) => OwnerCovered

\* The rooms counted against the app's limit include every live room that the
\* operator did not remove.
RoomsCounted == Cardinality({r \in Room : doc[r].live} \ gone) <= roomTotal

\* Neither ceiling of an app, its bytes or its number of rooms, is passed by
\* what its rooms really are.
CeilingsKept == AppCapRespected /\ RoomsCounted

\* Every pending budget operation ends: the alarm alone gets it decided.
BudgetSettles ==
    \A r \in Room : doc[r].pending.kind # "none" ~> (doc[r].pending.kind = "none" \/ r \in gone)

\* An operator who keeps asking gets the room's bytes back for its app.
RemovalReleases ==
    \A r \in Room : r \in asked ~> (Stored(r) = 0 /\ allocation[r].allocated = 0)

\* docs/SPEC.md:4979: a removal that is asked again completes.
RemovalEnds == \A r \in Room : r \in asked ~> ~doc[r].live
=============================================================================
