------------------------ MODULE ArtifactProperties ------------------------
(***************************************************************************)
(* What artifact accounting promises (docs/SPEC.md, "Artifact accounting   *)
(* on celld").                                                             *)
(***************************************************************************)
EXTENDS ArtifactAccounting

Present(g) == row[SlugOf(g)].gen = g
Failed(s) == row[s].status = "failed"
Visible(g) == Present(g) /\ ~Failed(SlugOf(g))

\* No visible retained version is uncharged: the owner's entry of a slug with a
\* row that has not failed is charged at least the live versions, while an
\* append, a shrink or a create is anywhere between its steps.
VisibleCharged ==
    \A g \in Generation :
       Visible(g) => /\ Listed(g)
                     /\ LiveCharge(versions[SlugOf(g)]) <= EntryOf(g).charged

\* The charge of an entry is the allocation its last decision left: the two
\* records move together over releases, drops and later incarnations.
ChargeIsAllocation ==
    \A g \in Generation : Listed(g) => EntryOf(g).charged = account[g].allocated

\* No owner is charged above the quota, whatever shrinks and grows at once.
CapRespected == \A o \in Owner : OwnerTotal(o) <= UserCap

\* A cell with no operation pending lists exactly what it serves, and is
\* charged exactly for its live versions.
SettledAgrees ==
    \A g \in Generation :
       Visible(g) /\ pending[SlugOf(g)].kind = "none" =>
          LET s == SlugOf(g)
              r == row[s]
              e == EntryOf(g)
          IN
          /\ e.charged = LiveCharge(versions[s])
          /\ e.listing.status = r.status
          /\ e.listing.served = r.served /\ e.listing.pinned = r.pinned
          /\ e.listing.name = r.name /\ e.listing.latest = Len(versions[s])

\* Bytes stay reserved only for a row, for a removal that is releasing them, or
\* for a create that recovery still resolves.
NothingStranded ==
    \A g \in Generation :
       Listed(g) => Present(g) \/ tombstone[SlugOf(g)] = g \/ g \in intents

\* A refused append never publishes later: its caller deletes the bytes.
RefusalFinal ==
    \A p \in Op, s \in Slug :
       KindOf(p) = "append" /\ caller[p] = "refused" =>
          \A v \in DOMAIN versions[s] : versions[s][v].upload # p

\* However often an append is retried, it publishes one version.
AppendOnce ==
    \A s \in Slug : \A v, w \in DOMAIN versions[s] :
       versions[s][v].upload = versions[s][w].upload => v = w

\* An append is published once, or refused for good.
AppendsFinal == AppendOnce /\ RefusalFinal

\* The row serves a version whose bytes are retained.
ServesLive ==
    \A g \in Generation : Present(g) =>
       LET r == row[SlugOf(g)] IN
       /\ r.served \in LiveVersions(versions[SlugOf(g)])
       /\ r.pinned \in {0, r.served}

\* Once recovery has found a create absent its row never appears.
AbortFences == \A g \in aborted : ~Present(g)

\* A delayed call of one incarnation neither charges, releases nor rewrites
\* another.
IncarnationsApart ==
    [][\A m \in late \ late' : \A g \in Generation \ {m.gen} :
          /\ account'[g] = account[g]
          /\ Listed(g) => EntryOf(g)' = EntryOf(g)]_vars

-----------------------------------------------------------------------------
(* The book the cells keep between them.                                   *)

Removing(g) == tombstone[SlugOf(g)] = g

\* What has become of a create, read off the cells.
LifeOf(g) ==
    CASE create[g] = "new" -> "new"
      [] create[g] # "new" /\ Visible(g) -> "shown"
      [] create[g] # "new" /\ ~Visible(g) /\ ~Listed(g) -> "over"
      [] create[g] # "new" /\ ~Visible(g) /\ Listed(g) ->
            IF Present(g) \/ Removing(g) THEN "down" ELSE "reserved"

LiveUploads(vs) == {vs[v].upload : v \in LiveVersions(vs)}

\* What a visitor may ask for.
HeldOf(g) ==
    LET vs == versions[SlugOf(g)] IN
    IF Visible(g) THEN [uploads |-> LiveUploads(vs), bytes |-> LiveCharge(vs)]
                  ELSE [uploads |-> {}, bytes |-> 0]

Book == INSTANCE ArtifactBook WITH
    life <- [g \in Generation |-> LifeOf(g)],
    bill <- [o \in Owner |-> [s \in Slug |-> entries[o][s].charged]],
    held <- [g \in Generation |-> HeldOf(g)],
    outcome <- receipts

\* Whatever is lost, late or stopped, a visitor, an owner and a caller see the
\* steps of one book: nothing is shown before it is paid for, again after it
\* was taken down, or for a create that recovery gave up; nothing shown is
\* released; and the outcome of a request is decided once, with its effect.
KeepsBook == Book!BookSpec

-----------------------------------------------------------------------------
(* Liveness.  The cells' own work is fair: an armed alarm fires again, and *)
(* a lock is granted in the order it is asked for, so a cell that asks     *)
(* again and again is answered (strong fairness).  Nothing is assumed of   *)
(* the front end or of an owner, who may stop between any two steps.       *)

LocalStep(s) ==
    \/ Retry(s) \/ SettleAbsent(s) \/ Refuse(s) \/ Publish(s) \/ AbandonAppend(s)
    \/ Advance(s) \/ Clear(s) \/ FinishDrop(s) \/ GoesOn(s)

Fairness ==
    /\ \A g \in Generation : SF_vars(ResolveIntent(g))
    /\ \A o \in Owner :
          SF_vars(AbortCreate(o)) /\ WF_vars(IntentAnswered(o)) /\ WF_vars(ResolverFails(o))
    /\ \A s \in Slug :
          SF_vars(IdentityAnswers(s)) /\ SF_vars(Alarm(s)) /\ WF_vars(LocalStep(s))

FairSpec == Spec /\ Fairness

\* Every pending operation ends, whoever stops and whatever is lost: its charge
\* is settled and its listing refreshed.
PendingEnds == \A s \in Slug : pending[s].kind # "none" ~> pending[s].kind = "none"

\* So it does on an artifact that has not failed, unless it is a removal whose
\* create recovery finds absent meanwhile, and releases.
OperationEnds ==
    \A s \in Slug :
       pending[s].kind # "none" ~>
          pending[s].kind = "none" \/ pending[s].gen \in aborted \/ Failed(s)

\* Every create that has not failed is confirmed or released in the end,
\* without its caller.
CreateSettles == \A g \in Generation : g \in intents ~> g \notin intents \/ Failed(SlugOf(g))

\* Response loss strands no charge: an artifact that failed or was removed
\* leaves its owner's list and its total.
ChargeReleased ==
    \A g \in Generation :
       (Present(g) /\ Failed(SlugOf(g))) \/ tombstone[SlugOf(g)] = g
       ~> ~Listed(g)
=============================================================================
