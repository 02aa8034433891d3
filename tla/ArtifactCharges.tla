-------------------------- MODULE ArtifactCharges ---------------------------
(***************************************************************************)
(* Proofs: what an owner is charged, and what is charged and listed.       *)
(* Nothing reserved is stranded (LifeInv), no owner is charged above the   *)
(* quota (ChargeInv, which ties each entry's charge to the live versions   *)
(* and the decision under way), and a delayed call touches its own         *)
(* incarnation only.  What is visible is charged (VisibleInv), and its     *)
(* owner's list shows it as it is once nothing is pending (ShownInv,       *)
(* SettledInv).  At the end, the two cells implement one book              *)
(* (ArtifactBook), by BookInv and a case for each of their actions.        *)
(*                                                                         *)
(* The last three need more of the network than the quota does: a put that *)
(* arrives after its artifact was removed, or two projections at one       *)
(* version in the other order, are what their hypotheses exclude.          *)
(***************************************************************************)
EXTENDS ArtifactLedgers

(* The life of an artifact.                                                *)

Outstanding(s) == pending[s].kind # "none"
HasPending(g) == Outstanding(SlugOf(g)) /\ pending[SlugOf(g)].gen = g

\* Nothing knows of a create that has not begun.
Unborn == \A g \in Generation : create[g] = "new" =>
    /\ ~Listed(g) /\ ~Present(g) /\ ~Removing(g)
    /\ g \notin intents /\ \A o \in Owner : resolver[o].gen # g
    /\ \A m \in late : m.gen # g

\* A pending operation is of the incarnation whose row is there, or whose
\* removal the tombstone names; a slug has a tombstone only for that long.
AnchoredAt(s) ==
    /\ pending[s].kind = "remove" =>
          row[s].gen = None /\ tombstone[s] = pending[s].gen
    /\ pending[s].kind \notin {"none", "remove"} => row[s].gen = pending[s].gen
    /\ pending[s].kind # "remove" => tombstone[s] = None
    /\ row[s].gen # None => SlugOf(row[s].gen) = s
    /\ tombstone[s] # None => SlugOf(tombstone[s]) = s

\* The stages of an operation, and the answers each of them gets.
StagedAt(s) ==
    LET q == pending[s] IN
    /\ Outstanding(s) =>
          /\ q.stage \in IF q.kind \in DropKinds THEN {"decide", "drop"} ELSE {"decide", "project"}
          /\ q.kind \in DropKinds => q.target = 0
          /\ q.kind = "projection" => q.stage = "project"
          /\ q.kind = "fail" => Failed(s)
    /\ handler[s].at \in {"absent", "granted", "refused"} => q.stage = "decide"
    /\ handler[s].at = "refused" => q.kind \notin DropKinds
    /\ handler[s].at = "projected" => q.stage = "project"
    /\ handler[s].at = "dropped" => q.stage = "drop"
    /\ handler[s].at \in {"absent", "dropped"} => ~Listed(q.gen)
    /\ handler[s].at = "next" => ~Outstanding(s)

Cells == \A s \in Slug : AnchoredAt(s) /\ StagedAt(s)

\* A refused decision asked for more than it left allocated.
Records == \A g \in Generation : account[g].allocated <= account[g].target

\* What a create that was confirmed is held by.
Held(g) == Present(g) \/ Removing(g) \/ ~Listed(g)

Confirmed == \A g \in Generation :
    \/ create[g] = "confirm"
    \/ \E o \in Owner : resolver[o].gen = g /\ resolver[o].found \notin {"asking", "absent"}
    => Held(g)

LifeInv == Shape /\ Unborn /\ Cells /\ Records /\ Confirmed /\ NothingStranded

(* The amounts.                                                            *)

LiveOf(s) == LiveCharge(versions[s])

\* What an operation that is being decided asks for.
TargetsAt(s) == LET q == pending[s] IN
    Outstanding(s) /\ q.stage = "decide" =>
       /\ q.cap \in {0, UserCap}
       /\ q.kind \notin DropKinds \union {"append"} => q.target = LiveOf(s)
       /\ q.kind = "append" => q.target = LiveOf(s) + q.charge /\ q.cap = UserCap

\* The record of an artifact that has no row yet.
Fresh(g) == ~Present(g) /\ ~Removing(g) =>
    account[g] = [version |-> 0, allocated |-> Creates[g].size, target |-> Creates[g].size]

\* Between two decisions the record is at the row's version and allocates the
\* live versions.
Steady(g) ==
    LET s == SlugOf(g) IN
    Present(g) /\ (~Outstanding(s) \/ pending[s].stage = "project") =>
        account[g].version = row[s].version /\ account[g].allocated = LiveOf(s)

\* While one is asked for, the record is one version before it, or at it.
Deciding(g) ==
    LET s == SlugOf(g)
        q == pending[s]
        a == account[g]
    IN
    HasPending(g) /\ q.stage = "decide" =>
       \/ /\ q.version = a.version + 1
          /\ handler[s].at \notin {"granted", "refused"}
          /\ q.kind \notin DropKinds => a.allocated >= LiveOf(s)
          /\ q.kind = "append" => a.allocated = LiveOf(s)
       \/ /\ q.version = a.version /\ q.target = a.target
          /\ a.allocated = q.target \/ (q.kind = "append" /\ a.allocated = LiveOf(s))
          /\ handler[s].at = "granted" => a.allocated = q.target
          /\ handler[s].at = "refused" => q.kind = "append" /\ a.allocated = LiveOf(s)

\* A delayed decision was taken, or is the one still asked for.
Delayed(g) == \A m \in late : m.type = "decide" /\ m.gen = g =>
    \/ m.version <= account[g].version
    \/ HasPending(g) /\ m = StageRequest(SlugOf(g))

ChargedFor(g) == Fresh(g) /\ Steady(g) /\ Deciding(g) /\ Delayed(g)

Finite == \A o \in Owner : IsFiniteSet(Units([s \in Slug |-> entries[o][s].charged]))

ChargeInv ==
    /\ LifeInv /\ ChargeIsAllocation /\ Finite /\ CapRespected
    /\ \A s \in Slug : TargetsAt(s)
    /\ \A g \in Generation : Listed(g) => ChargedFor(g)

-----------------------------------------------------------------------------
(* Sums of charges.                                                        *)

\* What each version number adds to the live charge.
Weights(vs) == [i \in Nat |-> IF i \in LiveVersions(vs) THEN vs[i].charge ELSE 0]

LEMMA LiveWeights ==
  ASSUME NEW vs \in Seq(Version)
  PROVE  /\ Weights(vs) \in [Nat -> Nat]
         /\ IsFiniteSet(Units(Weights(vs)))
         /\ LiveCharge(vs) = Total(Weights(vs))
<1> DEFINE live == LiveVersions(vs)
           charge == [i \in live |-> vs[i].charge]
<1>1. live \subseteq 1..Len(vs) /\ Len(vs) \in Nat /\ \A i \in 1..Len(vs) : vs[i] \in Version
  BY LiveVersionsFinite
<1>2. charge \in [live -> Nat] /\ Weights(vs) \in [Nat -> Nat]
  BY <1>1 DEF Weights, Version
<1>3. IsFiniteSet(live)
  <2>1. Len(vs) \in Int /\ 1 \in Int
    BY <1>1
  <2>2. IsFiniteSet(1..Len(vs))
    BY <2>1, FS_Interval
  <2>3. QED
    BY <1>1, <2>2, FS_Subset
<1>4. Units(Weights(vs)) = Units(charge)
  <2> DEFINE W == Weights(vs)
  <2>1. /\ DOMAIN W = Nat /\ DOMAIN charge = live /\ live \subseteq Nat
        /\ \A i \in live : W[i] = charge[i]
        /\ \A i \in Nat \ live : W[i] = 0
    BY <1>1 DEF Weights
  <2>2. 1..0 = {}
    OBVIOUS
  <2> HIDE DEF W, charge, live
  <2>3. ASSUME NEW u
        PROVE  u \in Units(W) <=> \E i \in live : u \in {i} \X (1..W[i])
    BY <2>1, <2>2 DEF Units
  <2>4. ASSUME NEW u
        PROVE  u \in Units(charge) <=> \E i \in live : u \in {i} \X (1..charge[i])
    BY <2>1 DEF Units
  <2>5. ASSUME NEW u
        PROVE  u \in Units(W) <=> u \in Units(charge)
    BY <2>1, <2>3, <2>4
  <2>6. Units(W) = Units(charge)
    BY <2>5
  <2>7. QED
    BY <2>6 DEF W
<1>5. IsFiniteSet(Units(charge))
  <2> HIDE DEF charge, live
  <2> QED BY <1>2, <1>3, TotalNat
<1>6. QED
  BY <1>2, <1>4, <1>5 DEF LiveCharge, Total

\* TotalMoves for two functions that differ at one number.
LEMMA Reweighed ==
  ASSUME NEW W \in [Nat -> Nat], IsFiniteSet(Units(W)), NEW i \in Nat,
         NEW V \in [Nat -> Nat], \A k \in Nat \ {i} : V[k] = W[k]
  PROVE  /\ IsFiniteSet(Units(V))
         /\ Total(W) \in Nat /\ Total(V) \in Nat /\ W[i] <= Total(W) /\ W[i] \in Nat
         /\ Total(V) = Total(W) - W[i] + V[i]
<1>1. V = [W EXCEPT ![i] = V[i]] /\ V[i] \in Nat /\ W[i] \in Nat
  OBVIOUS
<1>2. /\ IsFiniteSet(Units([W EXCEPT ![i] = V[i]])) /\ Total(W) \in Nat
      /\ Total([W EXCEPT ![i] = V[i]]) = Total(W) - W[i] + V[i]
      /\ W[i] <= Total(W)
  BY <1>1, TotalMoves, Zenon
<1>3. /\ IsFiniteSet(Units(V)) /\ Total(V) = Total(W) - W[i] + V[i]
  BY <1>1, <1>2, Zenon
<1>4. QED
  BY <1>1, <1>2, <1>3

\* Publishing a version adds its charge (liveCharge).
LEMMA AppendCharge ==
  ASSUME NEW vs \in Seq(Version), NEW x \in Version, x.deleted = FALSE
  PROVE  LiveCharge(Append(vs, x)) = LiveCharge(vs) + x.charge
<1> DEFINE n == Len(vs) + 1
           W == Weights(vs)
<1>1. /\ Append(vs, x) \in Seq(Version) /\ n \in Nat /\ x.charge \in Nat
      /\ LiveVersions(Append(vs, x)) = LiveVersions(vs) \union {n}
      /\ LiveVersions(vs) \subseteq 1..Len(vs)
  <2>1. x.charge \in Nat /\ n \in Nat
    BY DEF Version
  <2>2. /\ Append(vs, x) \in Seq(Version)
        /\ LiveVersions(Append(vs, x)) = LiveVersions(vs) \union {n}
    BY AppendSound, Zenon
  <2>3. LiveVersions(vs) \subseteq 1..Len(vs)
    BY LiveVersionsFinite, Zenon
  <2>4. QED
    BY <2>1, <2>2, <2>3
<1>2. Append(vs, x)[n] = x /\ \A i \in 1..Len(vs) : Append(vs, x)[i] = vs[i]
  OBVIOUS
<1>3. n \notin LiveVersions(vs)
  BY <1>1
<1>4. /\ Weights(Append(vs, x))[n] = x.charge /\ W[n] = 0
      /\ \A i \in Nat \ {n} : Weights(Append(vs, x))[i] = W[i]
  BY <1>1, <1>2, <1>3 DEF Weights
<1>5. /\ W \in [Nat -> Nat] /\ IsFiniteSet(Units(W)) /\ LiveCharge(vs) = Total(W)
      /\ LiveCharge(Append(vs, x)) = Total(Weights(Append(vs, x)))
      /\ Weights(Append(vs, x)) \in [Nat -> Nat]
  BY <1>1, LiveWeights
<1> HIDE DEF W, n
<1>6. Total(Weights(Append(vs, x))) = Total(W) - W[n] + Weights(Append(vs, x))[n] /\ Total(W) \in Nat
  BY <1>1, <1>4, <1>5, Reweighed
<1>7. LiveCharge(Append(vs, x)) = LiveCharge(vs) - 0 + x.charge
  BY <1>4, <1>5, <1>6, Zenon
<1>8. LiveCharge(vs) \in Nat /\ x.charge \in Nat
  BY <1>1, <1>5, <1>6, Zenon
<1>9. QED
  BY <1>7, <1>8

LEMMA Shrinks ==
  ASSUME NEW a \in Nat, NEW b \in Nat, NEW c \in Nat, c <= b
  PROVE  /\ (a - b + 0) <= a
         /\ \A d \in Nat : (a - b + 0) - d + (d + c) <= a
OBVIOUS

\* A deletion never adds to the charge: what the next version takes over was
\* the deleted version's (freedBy).
LEMMA TombstonedCharge ==
  ASSUME NEW vs \in Seq(Version), NEW v \in LiveVersions(vs),
         NEW inherited \in Nat, inherited <= vs[v].charge
  PROVE  LiveCharge(Tombstoned(vs, v, inherited)) <= LiveCharge(vs)
<1> DEFINE after == Tombstoned(vs, v, inherited)
           W == Weights(vs)
           V == [W EXCEPT ![v] = 0]
<1>1. /\ after \in Seq(Version) /\ LiveVersions(after) = LiveVersions(vs) \ {v}
      /\ LiveVersions(vs) \subseteq 1..Len(vs)
  BY TombstonedSound, LiveVersionsFinite
<1>2. /\ W \in [Nat -> Nat] /\ IsFiniteSet(Units(W)) /\ LiveCharge(vs) = Total(W)
      /\ Weights(after) \in [Nat -> Nat]
      /\ LiveCharge(after) = Total(Weights(after))
  BY <1>1, LiveWeights
<1>3. v \in Nat /\ W[v] = vs[v].charge
  BY <1>1 DEF Weights
<1>4. /\ V \in [Nat -> Nat] /\ IsFiniteSet(Units(V)) /\ Total(W) \in Nat
      /\ Total(V) = Total(W) - W[v] + 0 /\ W[v] \in Nat
  <2> HIDE DEF W
  <2>1. V \in [Nat -> Nat] /\ V[v] = 0 /\ 0 \in Nat /\ \A k \in Nat \ {v} : V[k] = W[k]
    BY <1>2, <1>3
  <2> HIDE DEF V
  <2> HIDE DEF after
  <2>2. /\ IsFiniteSet(Units(V)) /\ Total(W) \in Nat
        /\ W[v] <= Total(W) /\ W[v] \in Nat
        /\ Total(V) = Total(W) - W[v] + V[v]
    <3>1. /\ W \in [Nat -> Nat] /\ IsFiniteSet(Units(W)) /\ v \in Nat
      BY <1>2, <1>3
    <3>2. V \in [Nat -> Nat] /\ \A k \in Nat \ {v} : V[k] = W[k]
      BY <2>1
    <3>3. QED
      BY <3>1, <3>2, Reweighed
  <2>3. Total(V) = Total(W) - W[v] + 0
    BY <2>1, <2>2, Zenon
  <2>4. QED
    BY <2>1, <2>2, <2>3, Zenon
<1>5. LiveCharge(vs) \in Nat /\ inherited <= W[v] /\ Total(V) = LiveCharge(vs) - W[v] + 0 /\ W[v] \in Nat
  BY <1>2, <1>3, <1>4, Zenon
<1>10. \A i \in LiveVersions(vs) \ {v} :
         after[i] = IF i \in NextLive(vs, v) THEN [vs[i] EXCEPT !.charge = @ + inherited] ELSE vs[i]
  BY <1>1 DEF Tombstoned, LiveVersions
<1>6. \A i \in LiveVersions(vs) : vs[i] \in Version /\ i \in Nat
  BY <1>1
<1>7. CASE \E j \in LiveVersions(vs) : j \in NextLive(vs, v)
  <2>1. PICK j \in LiveVersions(vs) : j \in NextLive(vs, v)
    BY <1>7
  <2>2. j \in Nat /\ j # v /\ \A i \in LiveVersions(vs) \ {v, j} : i \notin NextLive(vs, v)
    <3>1. \A i, k \in NextLive(vs, v) : i \in Nat /\ k \in Nat /\ i > v /\ i <= k /\ k <= i
      BY <1>6 DEF NextLive
    <3>2. j \in Nat /\ j > v
      BY <2>1, <3>1
    <3>3. ASSUME NEW i \in LiveVersions(vs) \ {v, j}, i \in NextLive(vs, v)
          PROVE  FALSE
      BY <2>1, <3>1, <3>3
    <3>4. QED
      BY <1>3, <3>2, <3>3
  <2>3. after[j].charge = vs[j].charge + inherited /\ V[j] = vs[j].charge
    BY <1>3, <1>10, <1>6, <2>1, <2>2 DEF Version, Weights
  <2>4. /\ Weights(after)[j] = V[j] + inherited
        /\ \A i \in Nat \ {j} : Weights(after)[i] = V[i]
    <3>1. \A i \in Nat : Weights(after)[i] = IF i = j THEN V[j] + inherited ELSE V[i]
      <4> TAKE i \in Nat
      <4>1. CASE i = j
        BY <1>1, <2>1, <2>2, <2>3, <4>1 DEF Weights
      <4>2. CASE i = v
        BY <1>1, <1>3, <2>2, <4>2 DEF Weights
      <4>3. CASE i \notin {v, j}
        BY <1>1, <1>10, <2>2, <4>3 DEF Weights
      <4>4. QED
        BY <4>1, <4>2, <4>3
    <3> HIDE DEF V, after
    <3>2. QED
      BY <2>2, <3>1
  <2>5. V[j] \in Nat /\ V[j] + inherited \in Nat
    BY <1>4, <2>2
  <2> HIDE DEF V, W, after
  <2>6. Total(Weights(after)) = Total(V) - V[j] + Weights(after)[j] /\ Total(V) \in Nat
    BY <1>2, <1>4, <2>2, <2>4, <2>5, Reweighed
  <2>7. LiveCharge(after) = (LiveCharge(vs) - W[v] + 0) - V[j] + (V[j] + inherited)
    BY <1>2, <1>5, <2>4, <2>6, Zenon
  <2>8. (LiveCharge(vs) - W[v] + 0) - V[j] + (V[j] + inherited) <= LiveCharge(vs)
    BY <1>5, <2>5, Shrinks, Zenon
  <2>9. QED
    BY <2>7, <2>8, Zenon DEF after
<1>8. CASE ~\E j \in LiveVersions(vs) : j \in NextLive(vs, v)
  <2>1. Weights(after) = V
    <3>1. \A i \in Nat : Weights(after)[i] = V[i]
      BY <1>1, <1>2, <1>3, <1>10, <1>8 DEF Weights
    <3>2. Weights(after) = [i \in Nat |-> Weights(after)[i]]
      BY DEF Weights
    <3> HIDE DEF V, after
    <3>3. QED
      BY <1>4, <3>1, <3>2
  <2> HIDE DEF V, W, after
  <2>2. LiveCharge(after) = LiveCharge(vs) - W[v] + 0
    BY <1>2, <1>5, <2>1, Zenon
  <2>3. LiveCharge(vs) - W[v] + 0 <= LiveCharge(vs)
    BY <1>5, Shrinks, Zenon
  <2>4. QED
    BY <2>2, <2>3, Zenon DEF after
<1>9. QED
  BY <1>7, <1>8

\* Writing one entry changes its owner's total by the difference of the charges.
LEMMA EnterTotals ==
  ASSUME LedgerTyped, Finite, NEW g \in Generation, NEW e \in Entry, Enter(g, e), NEW o \in Owner
  PROVE  /\ IsFiniteSet(Units([s \in Slug |-> entries[o][s].charged]))'
         /\ OwnerTotal(o) \in Nat
         /\ OwnerTotal(o)' = IF o = OwnerOf(g)
                             THEN OwnerTotal(o) - EntryOf(g).charged + e.charged ELSE OwnerTotal(o)
<1> DEFINE f == [s \in Slug |-> entries[o][s].charged]
           s0 == SlugOf(g)
<1>1. /\ f \in [Slug -> Nat] /\ IsFiniteSet(Units(f))
      /\ s0 \in Slug /\ OwnerOf(g) \in Owner /\ e.charged \in Nat
  BY GenerationFields DEF LedgerTyped, Entry, Finite
<1>2. CASE o = OwnerOf(g)
  <2>1. [s \in Slug |-> entries'[o][s].charged] = [f EXCEPT ![s0] = e.charged]
    BY <1>1, <1>2 DEF LedgerTyped, Enter
  <2>2. f[s0] = EntryOf(g).charged
    BY <1>1, <1>2 DEF EntryOf
  <2> HIDE DEF f, s0
  <2>3. QED
    BY <1>1, <1>2, <2>1, <2>2, TotalMoves DEF OwnerTotal, f
<1>3. CASE o # OwnerOf(g)
  <2>1. [s \in Slug |-> entries'[o][s].charged] = f
    BY <1>1, <1>3 DEF LedgerTyped, Enter
  <2>2. Total(f) \in Nat
    BY <1>1, FS_CardinalityType DEF Total
  <2>3. QED
    BY <1>1, <1>3, <2>1, <2>2 DEF OwnerTotal
<1>4. QED
  BY <1>2, <1>3
-----------------------------------------------------------------------------
(* What a step does to the ledgers.                                        *)

\* A request for a stage that is outstanding, or a copy of an earlier one.
Asking(m) == m \in late \/ \E s \in Slug : Outstanding(s) /\ m = StageRequest(s)

\* The status a confirm carries: what the create asked for, or what recovery
\* found.
Asserted(h, status) ==
    \/ create[h] = "confirm" /\ status = Creates[h].status
    \/ \E o \in Owner : resolver[o].gen = h /\ resolver[o].found = status

\* A listing that a projection or a confirm brings.
Shows(h, l) ==
    \/ \E m \in Message : m.type = "project" /\ m.gen = h /\ Asking(m) /\ l = m.listing
    \/ \E status \in Status :
          /\ Asserted(h, status)
          /\ l = [EntryOf(h).listing EXCEPT !.status = IF @ = "pending" THEN status ELSE @]

\* The listing of an entry is rewritten, its charge is not.
Relists(h) ==
    /\ Listed(h) /\ UNCHANGED account
    /\ \E e \in Entry :
          /\ Enter(h, e) /\ e.gen = h /\ e.charged = EntryOf(h).charged
          /\ Shows(h, e.listing)

\* An entry goes: its create was refused or found absent, or its drop arrived.
MayUnlist(h) ==
    \/ create[h] = "release"
    \/ \E o \in Owner : resolver[o].gen = h /\ resolver[o].found = "absent"
    \/ \E m \in Message : m.type = "drop" /\ m.gen = h /\ Asking(m)

Unlists(h) ==
    /\ EntryOf(h).gen \in {h, None} /\ Enter(h, NoEntry) /\ MayUnlist(h)
    /\ \A x \in Generation \ {h} : account'[x] = account[x]
    /\ account'[h] = account[h] \/ account'[h].allocated = account'[h].target

\* A decision is taken.
Settles(m) ==
    /\ m.type = "decide" /\ Asking(m)
    /\ Listed(m.gen) /\ Decides(account[m.gen], m.version)
    /\ ArtifactDecide(m)

LEMMA ReleaseMoves ==
  ASSUME LedgerTyped, NEW h \in Generation, ReleaseEntry(h), MayUnlist(h)
  PROVE  UNCHANGED <<entries, account>> \/ Unlists(h)
<1>1. CASE ~UNCHANGED <<entries, account>>
  <2>1. /\ EntryOf(h).gen \in {h, None} /\ Enter(h, NoEntry)
        /\ account' = [account EXCEPT ![h] =
                         [version |-> account[h].version + 1, allocated |-> 0, target |-> 0]]
    BY <1>1 DEF ReleaseEntry
  <2>2. /\ \A x \in Generation \ {h} : account'[x] = account[x]
        /\ account'[h].allocated = account'[h].target
    BY <2>1 DEF LedgerTyped
  <2>3. QED
    BY <2>1, <2>2 DEF Unlists
<1>2. QED
  BY <1>1

LEMMA ConfirmMoves ==
  ASSUME LedgerTyped, NEW h \in Generation, NEW status \in Status, ConfirmEntry(h, status),
         Asserted(h, status), UNCHANGED account
  PROVE  UNCHANGED <<entries, account>> \/ Relists(h)
<1>1. CASE Listed(h)
  <2> DEFINE e == [EntryOf(h) EXCEPT !.listing.status = IF @ = "pending" THEN status ELSE @]
  <2>1. EntryOf(h) \in Entry /\ EntryOf(h).gen = h
    BY <1>1, EntryTyped DEF Listed
  <2>2. e \in Entry /\ e.gen = h /\ e.charged = EntryOf(h).charged
    BY <2>1 DEF Entry, Listing
  <2>3. Enter(h, e)
    BY <1>1 DEF ConfirmEntry
  <2>4. e.listing = [EntryOf(h).listing EXCEPT !.status = IF @ = "pending" THEN status ELSE @]
    BY <2>1 DEF Entry
  <2>5. Shows(h, e.listing)
    BY <2>4 DEF Shows
  <2> HIDE DEF e
  <2>6. QED
    BY <1>1, <2>2, <2>3, <2>5 DEF Relists
<1>2. QED
  BY <1>1 DEF ConfirmEntry

LEMMA StageMoves ==
  ASSUME LedgerTyped, NEW m \in Message, Asking(m), StageEffect(m)
  PROVE  UNCHANGED <<entries, account>> \/ Relists(m.gen) \/ Unlists(m.gen) \/ Settles(m)
<1>1. m.gen \in Generation /\ EntryOf(m.gen) \in Entry /\ m.listing \in Listing
  BY EntryTyped DEF Message
<1>2. CASE m.type = "decide" /\ ArtifactDecide(m)
  BY <1>2 DEF ArtifactDecide, Settles
<1>3. CASE m.type = "project" /\ ArtifactProject(m)
  <2> DEFINE e == [EntryOf(m.gen) EXCEPT !.listing = m.listing]
  <2>1. CASE MayProject(m)
    <3>1. e \in Entry /\ e.gen = EntryOf(m.gen).gen /\ e.charged = EntryOf(m.gen).charged
      BY <1>1 DEF Entry
    <3>2. Enter(m.gen, e) /\ UNCHANGED account /\ Listed(m.gen)
      BY <1>3, <2>1 DEF ArtifactProject, MayProject
    <3>3. Shows(m.gen, e.listing)
      BY <1>1, <1>3 DEF Shows, Entry
    <3> HIDE DEF e
    <3>4. QED
      BY <3>1, <3>2, <3>3 DEF Relists, Listed
  <2>2. QED
    BY <1>3, <2>1 DEF ArtifactProject
<1>4. CASE m.type = "drop" /\ ArtifactDrop(m)
  <2>1. CASE MayDrop(m)
    BY <1>1, <1>4, <2>1 DEF ArtifactDrop, MayDrop, Unlists, MayUnlist
  <2>2. QED
    BY <1>4, <2>1 DEF ArtifactDrop
<1>5. QED
  BY <1>2, <1>3, <1>4 DEF StageEffect

\* Every step of the system moves the ledgers in one of these ways.
LEMMA LedgerMoves ==
  ASSUME Shape, [Next]_vars
  PROVE  \/ UNCHANGED <<entries, account>>
         \/ \E h \in Generation : Reserve(h) \/ Relists(h) \/ Unlists(h)
         \/ \E m \in Message : Settles(m)
<1>1. LedgerTyped
  BY DEF Shape
<1>2. ASSUME NEW g \in Generation, CreateStep(g)
      PROVE  UNCHANGED <<entries, account>> \/ Reserve(g) \/ Relists(g) \/ Unlists(g)
  <2>1. CASE Confirm(g)
    <3>1. Creates[g].status \in Status
      BY GenerationFields DEF Status
    <3>2. QED
      BY <1>1, <2>1, <3>1, ConfirmMoves DEF Confirm, Asserted
  <2>2. CASE Release(g)
    BY <1>1, <2>2, ReleaseMoves DEF Release, MayUnlist
  <2>3. QED
    BY <1>2, <2>1, <2>2 DEF CreateStep, Put, PutLost, Forgotten, identityVars
<1>3. ASSUME NEW o \in Owner, IdentityStep(o)
      PROVE  \/ UNCHANGED <<entries, account>>
             \/ \E h \in Generation : Relists(h) \/ Unlists(h)
  <2>1. CASE IntentAnswered(o)
    <3>1. /\ resolver[o].gen \in Generation
          /\ resolver[o].found \in Status \union {"absent"}
      BY <2>1 DEF IntentAnswered, Shape, IntentsTyped, Answer
    <3>2. QED
      BY <1>1, <2>1, <3>1, ReleaseMoves, ConfirmMoves
         DEF IntentAnswered, MayUnlist, Asserted
  <2>2. QED
    BY <1>3, <2>1 DEF IdentityStep, ResolveIntent, AbortCreate, ResolverFails
<1>4. ASSUME NEW s \in Slug, SagaStep(s)
      PROVE  \/ UNCHANGED <<entries, account>>
             \/ \E h \in Generation : Relists(h) \/ Unlists(h)
             \/ \E m \in Message : Settles(m)
  <2>1. CASE IdentityAnswers(s)
    <3>1. Outstanding(s)
      BY <2>1 DEF IdentityAnswers, Shape, Named, Outstanding
    <3>2. StageRequest(s) \in Message /\ StageRequest(s).gen \in Generation
      BY <3>1, StageRequestTyped DEF Outstanding, Message
    <3>3. Asking(StageRequest(s))
      BY <3>1 DEF Asking
    <3>4. QED
      BY <1>1, <2>1, <3>2, <3>3, StageMoves DEF IdentityAnswers
  <2>2. CASE ~IdentityAnswers(s)
    BY <1>4, <2>2
       DEF SagaStep, CallFails, PasteStops, Alarm, GoesOn, Project, Retry, SettleAbsent,
           Refuse, Publish, AbandonAppend, Advance, Clear, FinishDrop, identityVars
  <2>3. QED
    BY <2>1, <2>2
<1>5. ASSUME NEW p \in Op, RequestStep(p)
      PROVE  UNCHANGED <<entries, account>>
  BY <1>5
     DEF RequestStep, Issue, Replay, Busy, Resume, Mismatch, StartAppend,
         AppendRefused, StartDelete, DeleteNothing, StartPin, StartRemove, StartFail,
         StartProjection, Project, Answered, identityVars
<1>6. ASSUME NEW m \in late, LateArrives(m)
      PROVE  \/ UNCHANGED <<entries, account>>
             \/ Relists(m.gen) \/ Unlists(m.gen) \/ Settles(m)
  <2>1. m \in Message /\ Asking(m)
    BY DEF Shape, NetTyped, Asking
  <2>2. QED
    BY <1>1, <1>6, <2>1, StageMoves DEF LateArrives, identityVars
<1>7. ASSUME NEW m \in late PROVE m \in Message /\ m.gen \in Generation
  BY DEF Shape, NetTyped, Message
<1>8. CASE UNCHANGED vars
  BY <1>8 DEF vars, identityVars
<1>9. CASE Next
  BY <1>2, <1>3, <1>4, <1>5, <1>6, <1>7, <1>9 DEF Next
<1>10. QED
  BY <1>8, <1>9

\* Writing the entry of one incarnation lists no other, and takes no other off
\* the list when it finds its own or none.
LEMMA EnterListed ==
  ASSUME LedgerTyped, NEW h \in Generation, NEW e \in Entry, Enter(h, e), e.gen \in {h, None},
         NEW g \in Generation
  PROVE  /\ EntryOf(h)' = e /\ (Listed(h)' <=> e.gen = h)
         /\ g # h /\ Listed(g)' => Listed(g) /\ EntryOf(g)' = EntryOf(g)
         /\ g # h /\ Listed(g) /\ EntryOf(h).gen \in {h, None} => Listed(g)'
<1>1. /\ OwnerOf(h) \in Owner /\ SlugOf(h) \in Slug /\ h # None
      /\ OwnerOf(g) \in Owner /\ SlugOf(g) \in Slug /\ g # None
  BY GenerationFields
<1>2. entries'[OwnerOf(h)][SlugOf(h)] = e
  BY <1>1 DEF Enter, LedgerTyped
<1>3. CASE OwnerOf(g) = OwnerOf(h) /\ SlugOf(g) = SlugOf(h)
  BY <1>1, <1>2, <1>3 DEF Listed, EntryOf
<1>4. CASE ~(OwnerOf(g) = OwnerOf(h) /\ SlugOf(g) = SlugOf(h))
  <2>1. entries'[OwnerOf(g)][SlugOf(g)] = entries[OwnerOf(g)][SlugOf(g)]
    BY <1>1, <1>4 DEF Enter, LedgerTyped
  <2>2. QED
    BY <1>1, <1>2, <2>1 DEF Listed, EntryOf
<1>5. QED
  BY <1>3, <1>4

\* A decision rewrites the charge of an entry, and whose it is stays.
LEMMA SettlesEnters ==
  ASSUME LedgerTyped, NEW m \in Message, Settles(m)
  PROVE  /\ m.gen \in Generation /\ Listed(m.gen)
         /\ \E e \in Entry :
              /\ Enter(m.gen, e) /\ e.gen = m.gen
              /\ e.charged = IF DecideAnswer(m) = "granted" THEN m.target ELSE EntryOf(m.gen).charged
<1> DEFINE e == [EntryOf(m.gen) EXCEPT !.charged = IF DecideAnswer(m) = "granted" THEN m.target ELSE @]
<1>1. /\ m.gen \in Generation /\ m.target \in Nat /\ Listed(m.gen)
      /\ EntryOf(m.gen) \in Entry /\ EntryOf(m.gen).gen = m.gen
  BY EntryTyped DEF Message, Settles, Listed
<1>2. e \in Entry /\ e.gen = m.gen /\ Enter(m.gen, e)
  BY <1>1 DEF Entry, Settles, ArtifactDecide
<1>3. e.charged = IF DecideAnswer(m) = "granted" THEN m.target ELSE EntryOf(m.gen).charged
  BY <1>1 DEF Entry
<1> HIDE DEF e
<1>4. QED
  BY <1>1, <1>2, <1>3

\* What a reservation that is not refused writes.
Reserves(h) ==
    /\ Reserve(h) /\ EntryOf(h).gen = None
    /\ ~(OwnerTotal(OwnerOf(h)) + Creates[h].size > UserCap)
    /\ h \in intents' /\ create'[h] # "new"
    /\ account'[h] = [version |-> 0, allocated |-> Creates[h].size, target |-> Creates[h].size]
    /\ \A x \in Generation \ {h} : account'[x] = account[x]
    /\ \E e \in Entry : Enter(h, e) /\ e.gen = h /\ e.charged = Creates[h].size

LEMMA ReserveMoves ==
  ASSUME Shape, NEW h \in Generation, Reserve(h)
  PROVE  UNCHANGED <<entries, account>> \/ Reserves(h)
<1> DEFINE size == Creates[h].size
           e == [gen |-> h, charged |-> size,
                 listing |-> [status |-> Creates[h].status, served |-> 1,
                              latest |-> 1, pinned |-> 0, name |-> 0]]
           r == [version |-> 0, allocated |-> size, target |-> size]
<1>1. e \in Entry /\ e.gen = h /\ e.charged = size
  BY GenerationFields, ConstantsAssumption DEF Entry, Listing, Status, Names
<1>2. CASE ~UNCHANGED <<entries, account>>
  <2>1. /\ EntryOf(h).gen = None /\ ~(OwnerTotal(OwnerOf(h)) + size > UserCap)
        /\ Enter(h, e) /\ account' = [account EXCEPT ![h] = r] /\ h \in intents'
        /\ create' = [create EXCEPT ![h] = "put"] \/ create' = [create EXCEPT ![h] = "failed"]
    BY <1>2 DEF Reserve
  <2>2. account'[h] = r /\ (\A x \in Generation \ {h} : account'[x] = account[x])
    BY <2>1 DEF Shape, LedgerTyped
  <2>3. create'[h] # "new"
    BY <2>1 DEF Shape, FrontTyped
  <2> HIDE DEF e
  <2>4. QED
    BY <1>1, <2>1, <2>2, <2>3 DEF Reserves
<1>3. QED
  BY <1>2

\* What becomes of one incarnation's entry and record.
LEMMA ListedMoves ==
  ASSUME Shape, [Next]_vars, NEW g \in Generation, Listed(g)'
  PROVE  \/ Reserves(g)
         \/ Listed(g) /\ account'[g] = account[g]
         \/ Listed(g) /\ \E m \in Message : m.gen = g /\ Settles(m)
<1>1. LedgerTyped
  BY DEF Shape
<1>2. CASE UNCHANGED <<entries, account>>
  BY <1>2 DEF Listed, EntryOf
<1>3. ASSUME NEW h \in Generation, Reserves(h)
      PROVE  Reserves(g) \/ (Listed(g) /\ account'[g] = account[g])
  BY <1>1, <1>3, EnterListed DEF Reserves
<1>4. ASSUME NEW h \in Generation, Relists(h)
      PROVE  Listed(g) /\ account'[g] = account[g]
  BY <1>1, <1>4, EnterListed DEF Relists
<1>5. ASSUME NEW h \in Generation, Unlists(h)
      PROVE  Listed(g) /\ account'[g] = account[g]
  <2>1. NoEntry \in Entry /\ NoEntry.gen = None /\ h # None
    BY EmptyRecords, GenerationFields DEF NoEntry
  <2>2. QED
    BY <1>1, <1>5, <2>1, EnterListed DEF Unlists
<1>6. ASSUME NEW m \in Message, Settles(m)
      PROVE  \/ Listed(g) /\ account'[g] = account[g]
             \/ Listed(g) /\ m.gen = g
  <2>1. PICK e \in Entry : Enter(m.gen, e) /\ e.gen = m.gen
    BY <1>1, <1>6, SettlesEnters
  <2>2. m.gen \in Generation /\ Listed(m.gen) /\ EntryOf(m.gen).gen = m.gen
    BY <1>1, <1>6, SettlesEnters DEF Listed
  <2>3. \A x \in Generation \ {m.gen} : account'[x] = account[x]
    BY <1>1, <1>6, <2>2 DEF Settles, ArtifactDecide, LedgerTyped
  <2>4. CASE g = m.gen
    BY <2>2, <2>4
  <2>5. CASE g # m.gen
    BY <1>1, <2>1, <2>2, <2>3, <2>5, EnterListed
  <2>6. QED
    BY <2>4, <2>5
<1>7. QED
  BY <1>2, <1>3, <1>4, <1>5, <1>6, LedgerMoves, ReserveMoves
-----------------------------------------------------------------------------
(* What a step does to a Paste cell.                                       *)

Removals == \E p \in Op : KindOf(p) = "remove"

\* A put of the generation may still arrive.
LatePut(g) == \E m \in late : m.type = "put" /\ m.gen = g
PutWaits(g) == create[g] \in {"new", "put", "retry"} \/ LatePut(g)

Kept(s) == UNCHANGED <<row[s], versions[s], pending[s], tombstone[s]>>

\* The lock moves and nothing else: a call fails, the cell stops, the alarm or
\* a repeat calls again.
Waits(s) == Kept(s) /\ handler'[s].at \in {"idle", "call"}

\* A put writes the row.
Written(s) ==
    \E g \in Generation :
       /\ SlugOf(g) = s /\ MayPut(g) /\ create[g] # "new" /\ PutWaits(g)
       /\ row'[s].gen = g /\ row'[s].version = 0 /\ row'[s].status = Creates[g].status
       /\ row'[s].served = 1 /\ row'[s].pinned = 0 /\ row'[s].name = 0
       /\ versions'[s] = <<[upload |-> g, charge |-> Creates[g].size, deleted |-> FALSE]>>
       /\ UNCHANGED <<pending[s], tombstone[s], handler[s]>>

Projects(s) ==
    \E p \in Op :
       /\ TargetOf(p) = s /\ Project(p) /\ row[s].gen = GenOf(p)
       /\ \/ handler[s].at = "next" /\ handler[s].then = p
          \/ Turn(p, KindOf(p)) /\ (KindOf(p) = "ready" => row[s].status = "pending")

Begun(s) ==
    \/ Projects(s)
    \/ \E p \in Op : TargetOf(p) = s /\
          (StartAppend(p) \/ StartDelete(p) \/ StartPin(p) \/ StartRemove(p) \/ StartFail(p))

Settling(s) ==
    \/ SettleAbsent(s) \/ Refuse(s) \/ Publish(s) \/ AbandonAppend(s)
    \/ Advance(s) \/ Clear(s) \/ FinishDrop(s)

LEMMA WriteMoves ==
  ASSUME Shape, NEW g \in Generation, WriteRow(g), create[g] # "new", PutWaits(g),
         UNCHANGED <<pending, tombstone, handler>>, NEW s \in Slug
  PROVE  (Kept(s) /\ UNCHANGED handler[s]) \/ Written(s)
<1>1. CASE MayPut(g) /\ s = SlugOf(g)
  <2>1. /\ row'[s] = [gen |-> g, status |-> Creates[g].status, version |-> 0, served |-> 1,
                      pinned |-> 0, name |-> 0]
        /\ versions'[s] = <<[upload |-> g, charge |-> Creates[g].size, deleted |-> FALSE]>>
    BY <1>1 DEF WriteRow, Shape, RowsTyped
  <2>2. /\ row'[s].gen = g /\ row'[s].version = 0 /\ row'[s].status = Creates[g].status
        /\ row'[s].served = 1 /\ row'[s].pinned = 0 /\ row'[s].name = 0
    BY <2>1
  <2>3. UNCHANGED <<pending[s], tombstone[s], handler[s]>>
    OBVIOUS
  <2>4. QED
    BY <1>1, <2>1, <2>2, <2>3, Zenon DEF Written
<1>2. CASE ~(MayPut(g) /\ s = SlugOf(g))
  BY <1>2 DEF WriteRow, Shape, RowsTyped, Kept
<1>3. QED
  BY <1>1, <1>2

\* A step of one cell's work leaves every other as it is.
LEMMA SagaElsewhere ==
  ASSUME Shape, NEW x \in Slug, Settling(x) \/ IdentityAnswers(x) \/ CallFails(x)
                                \/ PasteStops(x) \/ Alarm(x) \/ Retry(x),
         NEW s \in Slug \ {x}
  PROVE  Kept(s) /\ UNCHANGED handler[s]
<1>1. RowsTyped /\ WorkTyped /\ FencesTyped
  BY DEF Shape
<1>2. CASE SettleAbsent(x) \/ Refuse(x) \/ Clear(x) \/ FinishDrop(x)
  BY <1>1, <1>2
     DEF SettleAbsent, Refuse, Clear, FinishDrop, Cleared, RowsTyped, WorkTyped, FencesTyped, Kept
<1>3. CASE Publish(x) \/ AbandonAppend(x) \/ Advance(x)
  BY <1>1, <1>3 DEF Publish, AbandonAppend, Advance, GoOn, RowsTyped, WorkTyped, Kept
<1>4. CASE IdentityAnswers(x) \/ CallFails(x) \/ PasteStops(x) \/ Alarm(x) \/ Retry(x)
  BY <1>1, <1>4 DEF IdentityAnswers, CallFails, PasteStops, Alarm, Retry, WorkTyped, Kept
<1>5. QED
  BY <1>2, <1>3, <1>4 DEF Settling

LEMMA BegunElsewhere ==
  ASSUME Shape, NEW p \in Op, NEW s \in Slug \ {TargetOf(p)},
         \/ StartAppend(p) \/ StartDelete(p) \/ StartPin(p) \/ StartRemove(p) \/ StartFail(p)
         \/ Project(p)
  PROVE  Kept(s) /\ UNCHANGED handler[s]
<1> DEFINE x == TargetOf(p)
<1>1. RowsTyped /\ WorkTyped /\ FencesTyped /\ x \in Slug /\ s # x
  BY RequestFields DEF Shape
<1> HIDE DEF x
<1>2. \A q : Begin(x, q) => UNCHANGED <<pending[s], handler[s]>>
  BY <1>1 DEF Begin, WorkTyped
<1>3. CASE StartAppend(p) \/ StartPin(p) \/ StartFail(p) \/ Project(p)
  <2>1. UNCHANGED <<versions, tombstone>> /\ (\E q : Begin(x, q))
        /\ (UNCHANGED row \/ \E r : row' = [row EXCEPT ![x] = r])
    BY <1>3 DEF StartAppend, StartPin, StartFail, Project, x
  <2>2. QED
    BY <1>1, <1>2, <2>1 DEF RowsTyped, Kept
<1>4. CASE StartDelete(p)
  <2>1. UNCHANGED tombstone /\ (\E q : Begin(x, q))
        /\ (\E r : row' = [row EXCEPT ![x] = r]) /\ (\E vs : versions' = [versions EXCEPT ![x] = vs])
    BY <1>4, Zenon DEF StartDelete, x
  <2>2. QED
    BY <1>1, <1>2, <2>1 DEF RowsTyped, Kept
<1>5. CASE StartRemove(p)
  <2>1. UNCHANGED versions /\ (\E q : Begin(x, q))
        /\ (\E r : row' = [row EXCEPT ![x] = r]) /\ (\E g : tombstone' = [tombstone EXCEPT ![x] = g])
    BY <1>5 DEF StartRemove, x
  <2>2. QED
    BY <1>1, <1>2, <2>1 DEF RowsTyped, FencesTyped, Kept
<1>6. QED
  BY <1>3, <1>4, <1>5

LEMMA WaitMoves ==
  ASSUME Shape, NEW s \in Slug, Alarm(s) \/ CallFails(s) \/ PasteStops(s) \/ Retry(s)
  PROVE  Waits(s)
<1>1. /\ UNCHANGED <<row, versions, pending, tombstone>>
      /\ handler' = [handler EXCEPT ![s] = Idle] \/ handler' = [handler EXCEPT ![s].at = "call"]
  BY DEF Alarm, CallFails, PasteStops, Retry
<1>2. handler'[s].at \in {"idle", "call"}
  BY <1>1 DEF Shape, WorkTyped, Handler, Idle
<1>3. QED
  BY <1>1, <1>2 DEF Kept, Waits

\* Every step of the system moves a Paste cell in one of these ways.
LEMMA CellMoves ==
  ASSUME Shape, Cells, Unborn, [Next]_vars, NEW s \in Slug
  PROVE  \/ Kept(s) /\ UNCHANGED handler[s]
         \/ Waits(s) \/ Written(s) \/ Begun(s) \/ IdentityAnswers(s) \/ Settling(s)
<1> DEFINE Goal == \/ Kept(s) /\ UNCHANGED handler[s]
                   \/ Waits(s) \/ Written(s) \/ Begun(s) \/ IdentityAnswers(s) \/ Settling(s)
<1>1. ASSUME NEW g \in Generation, CreateStep(g)
      PROVE  Goal
  <2>1. CASE Put(g)
    BY <2>1, WriteMoves DEF Put, PutWaits
  <2>2. QED
    BY <1>1, <2>1 DEF CreateStep, Reserve, PutLost, Confirm, Release, Forgotten, pasteVars, Kept
<1>2. ASSUME NEW o \in Owner, IdentityStep(o)
      PROVE  Goal
  BY <1>2 DEF IdentityStep, ResolveIntent, AbortCreate, IntentAnswered, ResolverFails,
              pasteVars, Kept
<1>3. ASSUME NEW x \in Slug, SagaStep(x)
      PROVE  Goal
  <2>1. CASE GoesOn(x)
    <3> DEFINE p == handler[x].then
    <3>1. p \in Op /\ GenOf(p) \in Generation /\ GenOf(p) # None
      BY <2>1, RequestFields, GenerationFields DEF GoesOn, Shape, Named
    <3>2. CASE row[x].gen = GenOf(p) /\ Project(p)
      <4>1. TargetOf(p) = x
        BY <3>1, <3>2 DEF Cells, AnchoredAt, TargetOf
      <4>2. CASE s = x
        BY <2>1, <3>1, <3>2, <4>1, <4>2 DEF GoesOn, Begun, Projects
      <4>3. CASE s # x
        BY <3>1, <3>2, <4>1, <4>3, BegunElsewhere
      <4>4. QED
        BY <4>2, <4>3
    <3>3. CASE /\ row[x].gen # GenOf(p) /\ handler' = [handler EXCEPT ![x] = Idle]
               /\ UNCHANGED <<row, versions, pending, tombstone>>
      BY <3>3 DEF Shape, WorkTyped, Kept, Waits, Idle
    <3>4. QED
      BY <2>1, <3>2, <3>3 DEF GoesOn
  <2>2. CASE ~GoesOn(x) /\ s = x
    BY <1>3, <2>2, WaitMoves DEF SagaStep, Settling
  <2>3. CASE ~GoesOn(x) /\ s # x
    BY <1>3, <2>3, SagaElsewhere DEF SagaStep, Settling
  <2>4. QED
    BY <2>1, <2>2, <2>3
<1>4. ASSUME NEW p \in Op, RequestStep(p)
      PROVE  Goal
  <2>1. TargetOf(p) \in Slug
    BY RequestFields
  <2>2. CASE Resume(p)
    <3> DEFINE x == TargetOf(p)
    <3>1. /\ UNCHANGED <<row, versions, pending, tombstone>>
          /\ \/ handler' = [handler EXCEPT ![x].at = "call"]
             \/ handler' = [handler EXCEPT ![x] = [at |-> "call", then |-> p]]
      BY <2>2 DEF Resume
    <3> HIDE DEF x
    <3>2. IF s = x THEN handler'[s].at = "call" ELSE handler'[s] = handler[s]
      BY <3>1 DEF Shape, WorkTyped, Handler
    <3>3. QED
      BY <3>1, <3>2 DEF Kept, Waits
  <2>3. CASE StartAppend(p) \/ StartDelete(p) \/ StartPin(p) \/ StartRemove(p) \/ StartFail(p)
    BY <2>3, BegunElsewhere DEF Begun
  <2>4. CASE StartProjection(p)
    <3>1. /\ Project(p) /\ Turn(p, KindOf(p)) /\ row[TargetOf(p)].gen = GenOf(p)
          /\ KindOf(p) = "ready" => row[TargetOf(p)].status = "pending"
      BY <2>4 DEF StartProjection, Turn
    <3>2. QED
      BY <3>1, BegunElsewhere DEF Begun, Projects
  <2>5. QED
    BY <1>4, <2>2, <2>3, <2>4
       DEF RequestStep, Issue, Replay, Busy, Mismatch, AppendRefused, DeleteNothing, Answered,
           pasteVars, Kept
<1>5. ASSUME NEW m \in late, LateArrives(m)
      PROVE  Goal
  <2>1. m.gen \in Generation /\ create[m.gen] # "new"
    BY DEF Shape, NetTyped, Message, Unborn
  <2>2. CASE m.type = "put" /\ WriteRow(m.gen) /\ UNCHANGED <<pending, tombstone, handler>>
    BY <2>1, <2>2, WriteMoves DEF PutWaits, LatePut
  <2>3. QED
    BY <1>5, <2>2 DEF LateArrives, pasteVars, Kept
<1>6. CASE UNCHANGED vars
  BY <1>6 DEF vars, pasteVars, Kept
<1>7. CASE Next
  BY <1>1, <1>2, <1>3, <1>4, <1>5, <1>7 DEF Next
<1>8. QED
  BY <1>6, <1>7
LEMMA FencedFields ==
  ASSUME Shape, NEW s \in Slug, NEW v \in Nat
  PROVE  /\ Fenced(s, v).gen = row[s].gen /\ Fenced(s, v).status = row[s].status
         /\ Fenced(s, v).version = IF row[s].gen = None THEN row[s].version ELSE v
BY DEF Shape, RowsTyped, Row, Fenced

LEMMA RolledFields ==
  ASSUME NEW r \in Row, NEW pinned, NEW vs
  PROVE  LET rolled == RollServed(r, pinned, vs) IN
         /\ rolled.gen = r.gen /\ rolled.status = r.status /\ rolled.version = r.version
BY DEF RollServed, Row

\* What an operation that begins asks for, of the incarnation whose row is there.
Asks(s) ==
    LET q == pending'[s] IN
    /\ ~Outstanding(s) /\ row[s].gen # None /\ q.gen = row[s].gen /\ handler'[s].at = "call"
    /\ \/ /\ q.kind = "append" /\ q.stage = "decide" /\ q.version = row[s].version + 1
          /\ q.target = LiveOf(s) + q.charge /\ q.cap = UserCap
          /\ UNCHANGED <<row[s], versions[s], tombstone[s]>>
       \/ /\ q.kind \in {"deleteVersion", "pin"} /\ q.stage = "decide"
          /\ q.version = row[s].version + 1
          /\ q.target = LiveOf(s)' /\ LiveOf(s)' <= LiveOf(s) /\ q.cap = 0
          /\ UNCHANGED <<row[s].gen, row[s].status, row[s].version, tombstone[s]>>
       \/ /\ q.kind = "remove" /\ q.stage = "decide" /\ q.version = row[s].version + 1
          /\ q.target = 0 /\ q.cap = 0 /\ Removals
          /\ row'[s].gen = None /\ tombstone'[s] = q.gen /\ UNCHANGED versions[s]
       \/ /\ q.kind = "fail" /\ q.stage = "decide" /\ q.version = row[s].version + 1
          /\ q.target = 0 /\ q.cap = 0
          /\ row'[s].status = "failed"
          /\ UNCHANGED <<row[s].gen, row[s].version, versions[s], tombstone[s]>>
       \/ /\ q.kind = "projection" /\ q.stage = "project" /\ Projects(s)
          /\ UNCHANGED <<row[s].gen, row[s].version, versions[s], tombstone[s]>>

LEMMA BegunAsks ==
  ASSUME Shape, Cells, NEW s \in Slug, Begun(s)
  PROVE  Asks(s)
<1>1. PICK p \in Op :
         /\ TargetOf(p) = s
         /\ \/ StartAppend(p) \/ StartDelete(p) \/ StartPin(p) \/ StartRemove(p) \/ StartFail(p)
            \/ /\ Projects(s) /\ Project(p) /\ row[s].gen = GenOf(p)
               /\ handler[s].at = "next" \/ Turn(p, KindOf(p))
  BY DEF Begun, Projects
<1>2. RowsTyped /\ WorkTyped /\ FencesTyped /\ row[s] \in Row /\ versions[s] \in Seq(Version)
  BY DEF Shape, RowsTyped
<1>3. /\ row[s].gen = GenOf(p) /\ row[s].gen # None /\ ~Outstanding(s)
  <2>1. row[s].gen = GenOf(p) /\ ~Outstanding(s)
    BY <1>1 DEF StartAppend, StartDelete, StartPin, StartRemove, StartFail, Turn, Outstanding,
                Cells, StagedAt
  <2>2. QED
    BY <2>1, RequestFields, GenerationFields
<1>4. \A q : Begin(s, q) => pending'[s] = q /\ handler'[s].at = "call"
  BY <1>2 DEF Begin, WorkTyped
<1>5. \A kind, target, cap, latest, charge :
         LET q == Decide(p, kind, target, cap, latest, charge) IN
         /\ q.kind = kind /\ q.stage = "decide" /\ q.gen = row[s].gen
         /\ q.version = row[s].version + 1 /\ q.target = target /\ q.cap = cap /\ q.charge = charge
  BY <1>1, <1>3 DEF Decide
<1>6. CASE StartAppend(p)
  <2>1. PICK charge \in Charges :
           Begin(s, Decide(p, "append", LiveOf(s) + charge, UserCap, Len(versions[s]) + 1, charge))
    BY <1>1, <1>6 DEF StartAppend, LiveOf
  <2>2. UNCHANGED <<row[s], versions[s], tombstone[s]>>
    BY <1>6 DEF StartAppend
  <2>3. QED
    BY <1>3, <1>4, <1>5, <2>1, <2>2 DEF Asks
<1>7. CASE StartDelete(p)
  <2>1. PICK v \in LiveVersions(versions[s]) :
          \E inherited \in IF NextLive(versions[s], v) = {} THEN {0} ELSE 0 .. versions[s][v].charge :
              LET vs == Tombstoned(versions[s], v, inherited) IN
              /\ versions' = [versions EXCEPT ![s] = vs]
              /\ row' = [row EXCEPT ![s] = RollServed(row[s], row[s].pinned, vs)]
              /\ Begin(s, Decide(p, "deleteVersion", LiveCharge(vs), 0, Len(versions[s]), 0))
    BY <1>1, <1>7, Zenon DEF StartDelete
  <2>2. versions[s][v].charge \in Nat
    <3>1. v \in 1..Len(versions[s])
      BY <1>2, LiveVersionsFinite
    <3>2. versions[s][v] \in Version
      BY <1>2, <3>1
    <3>3. QED
      BY <3>2 DEF Version
  <2>3. PICK inherited \in 0 .. versions[s][v].charge :
              LET vs == Tombstoned(versions[s], v, inherited) IN
              /\ versions' = [versions EXCEPT ![s] = vs]
              /\ row' = [row EXCEPT ![s] = RollServed(row[s], row[s].pinned, vs)]
              /\ Begin(s, Decide(p, "deleteVersion", LiveCharge(vs), 0, Len(versions[s]), 0))
    <3>1. 0 \in 0 .. versions[s][v].charge
      BY <2>2
    <3>2. QED
      BY <2>1, <3>1, Zenon
  <2> DEFINE vs == Tombstoned(versions[s], v, inherited)
  <2>4. LiveCharge(vs) <= LiveCharge(versions[s])
    <3>1. inherited \in Nat /\ inherited <= versions[s][v].charge
      BY <2>2
    <3>2. QED
      BY <1>2, <3>1, TombstonedCharge
  <2>5. /\ versions'[s] = vs /\ row'[s] = RollServed(row[s], row[s].pinned, vs)
        /\ Begin(s, Decide(p, "deleteVersion", LiveCharge(vs), 0, Len(versions[s]), 0))
        /\ UNCHANGED tombstone[s]
    BY <1>2, <1>7, <2>3 DEF RowsTyped, StartDelete
  <2> HIDE DEF vs
  <2>6. UNCHANGED <<row[s].gen, row[s].status, row[s].version>>
    BY <1>2, <2>5, RolledFields
  <2>7. LiveOf(s)' = LiveCharge(vs)
    BY <2>5 DEF LiveOf
  <2>8. pending'[s].kind \in {"deleteVersion", "pin"}
    BY <1>4, <1>5, <2>5
  <2>9. QED
    BY <1>3, <1>4, <1>5, <2>4, <2>5, <2>6, <2>7, <2>8 DEF Asks, LiveOf
<1>8. CASE StartPin(p)
  <2>1. PICK v : row' = [row EXCEPT ![s] = RollServed(row[s], v, versions[s])]
    BY <1>1, <1>8 DEF StartPin
  <2>2. UNCHANGED <<row[s].gen, row[s].status, row[s].version>>
    <3>1. row'[s] = RollServed(row[s], v, versions[s])
      BY <1>2, <2>1 DEF RowsTyped
    <3>2. QED
      BY <1>2, <3>1, RolledFields
  <2>3. /\ Begin(s, Decide(p, "pin", LiveOf(s), 0, Len(versions[s]), 0))
        /\ UNCHANGED <<versions[s], tombstone[s]>>
    BY <1>1, <1>8 DEF StartPin, LiveOf
  <2>4. LiveOf(s)' = LiveOf(s) /\ LiveOf(s) <= LiveOf(s)
    BY <1>2, <2>3, LiveVersionsFinite DEF LiveOf
  <2>5. pending'[s].kind \in {"deleteVersion", "pin"}
    BY <1>4, <1>5, <2>3
  <2>6. QED
    BY <1>3, <1>4, <1>5, <2>2, <2>3, <2>4, <2>5 DEF Asks
<1>9. CASE StartRemove(p)
  <2>1. /\ row' = [row EXCEPT ![s] = NoRow] /\ tombstone' = [tombstone EXCEPT ![s] = GenOf(p)]
        /\ Begin(s, Decide(p, "remove", 0, 0, Len(versions[s]), 0)) /\ UNCHANGED versions
        /\ KindOf(p) = "remove"
    BY <1>1, <1>9 DEF StartRemove, Turn
  <2>2. row'[s].gen = None /\ tombstone'[s] = row[s].gen /\ UNCHANGED versions[s] /\ Removals
    BY <1>2, <1>3, <2>1 DEF RowsTyped, FencesTyped, NoRow, Removals
  <2>3. QED
    BY <1>3, <1>4, <1>5, <2>1, <2>2 DEF Asks
<1>10. CASE StartFail(p)
  <2>1. /\ row' = [row EXCEPT ![s].status = "failed"] /\ UNCHANGED <<versions, tombstone>>
        /\ Begin(s, Decide(p, "fail", 0, 0, Len(versions[s]), 0))
    BY <1>1, <1>10 DEF StartFail
  <2>2. row'[s].status = "failed" /\ UNCHANGED <<row[s].gen, row[s].version, versions[s], tombstone[s]>>
    BY <1>2, <2>1 DEF RowsTyped, Row
  <2>3. QED
    BY <1>3, <1>4, <1>5, <2>1, <2>2 DEF Asks
<1>11. CASE Projects(s) /\ Project(p)
  <2> DEFINE q == [NoPending EXCEPT !.kind = "projection", !.stage = "project", !.gen = GenOf(p),
                                    !.version = row[s].version, !.latest = Len(versions[s])]
  <2>1. /\ \/ row' = [row EXCEPT ![s].status = "ready"]
           \/ \E n \in Names : row' = [row EXCEPT ![s].name = n]
        /\ Begin(s, q) /\ UNCHANGED <<versions, tombstone>>
    BY <1>1, <1>11 DEF Project
  <2>2. q.kind = "projection" /\ q.stage = "project" /\ q.gen = row[s].gen
    BY <1>3 DEF NoPending
  <2> HIDE DEF q
  <2>3. UNCHANGED <<row[s].gen, row[s].version, versions[s], tombstone[s]>>
    BY <1>2, <2>1 DEF RowsTyped, Row
  <2>4. QED
    BY <1>3, <1>4, <1>11, <2>1, <2>2, <2>3 DEF Asks
<1>12. QED
  BY <1>1, <1>6, <1>7, <1>8, <1>9, <1>10, <1>11

\* What the answer of a stage makes of a pending operation.
FencedAt(s) == row'[s].version = IF row[s].gen = None THEN row[s].version ELSE pending[s].version

Concludes(s) ==
    LET q == pending[s]
        after == pending'[s]
        at == handler[s].at
    IN
    /\ Outstanding(s) /\ UNCHANGED <<row[s].gen, row[s].status>>
    /\ \/ /\ after.kind = "none" /\ handler'[s].at \in {"idle", "next"} /\ UNCHANGED versions[s]
          /\ \/ /\ at \in {"absent", "dropped"}
                /\ \/ q.kind = "remove" /\ tombstone[s] = q.gen /\ tombstone'[s] = None
                   \/ q.kind # "remove" /\ UNCHANGED tombstone[s]
             \/ at = "refused" /\ FencedAt(s) /\ UNCHANGED tombstone[s]
             \/ at = "projected" /\ UNCHANGED <<row[s], tombstone[s]>>
       \/ /\ at = "granted" /\ handler'[s].at = "call" /\ after.gen = q.gen
          /\ UNCHANGED tombstone[s]
          /\ \/ /\ q.kind = "append" /\ after.kind = "append" /\ after.stage = "project"
                /\ after.version = q.version /\ FencedAt(s)
                /\ LiveOf(s)' = LiveOf(s) + q.charge
             \/ /\ q.kind = "append" /\ after.kind = "abandon" /\ after.stage = q.stage
                /\ after.version = q.version + 1 /\ after.target = q.target - q.charge
                /\ after.cap = q.cap /\ UNCHANGED <<row[s], versions[s]>>
             \/ /\ q.kind # "append" /\ after.kind = q.kind /\ after.stage = AfterDecide(q.kind)
                /\ after.version = q.version /\ after.target = q.target /\ FencedAt(s)
                /\ UNCHANGED versions[s]

LEMMA ClearedFields ==
  ASSUME Shape, NEW s \in Slug, Cleared(s)
  PROVE  pending'[s].kind = "none" /\ handler'[s].at \in {"idle", "next"}
BY DEF Shape, WorkTyped, Cleared, NoPending, Idle

LEMMA GoOnFields ==
  ASSUME Shape, NEW s \in Slug, NEW q, GoOn(s, q)
  PROVE  pending'[s] = q /\ handler'[s].at = "call"
BY DEF Shape, WorkTyped, Handler, GoOn

LEMMA SettlingConcludes ==
  ASSUME Shape, NEW s \in Slug, Settling(s)
  PROVE  Concludes(s)
<1> DEFINE q == pending[s]
<1>1. /\ RowsTyped /\ WorkTyped /\ FencesTyped /\ row[s] \in Row /\ versions[s] \in Seq(Version)
      /\ q \in Pending
  BY DEF Shape, RowsTyped, WorkTyped
<1>2. Outstanding(s)
  BY DEF Settling, SettleAbsent, Refuse, Publish, AbandonAppend, Advance, Clear, FinishDrop,
         Outstanding, Shape, Named
<1>3. q.version \in Nat /\ q.charge \in Nat /\ q.target \in Nat
  BY <1>1 DEF Pending
<1>4. row' = [row EXCEPT ![s] = Fenced(s, q.version)] =>
         FencedAt(s) /\ UNCHANGED <<row[s].gen, row[s].status>>
  BY <1>1, <1>3, FencedFields DEF RowsTyped, FencedAt
<1>5. CASE SettleAbsent(s)
  <2>1. UNCHANGED <<row[s].gen, row[s].status>>
    BY <1>1, <1>4, <1>5 DEF SettleAbsent
  <2>2. handler[s].at = "absent" /\ UNCHANGED versions[s] /\ Cleared(s)
        /\ \/ q.kind = "remove" /\ tombstone[s] = q.gen /\ tombstone'[s] = None
           \/ q.kind # "remove" /\ UNCHANGED tombstone[s]
    BY <1>1, <1>5 DEF SettleAbsent, FencesTyped
  <2>3. QED
    BY <1>2, <2>1, <2>2, ClearedFields DEF Concludes
<1>6. CASE FinishDrop(s)
  <2>1. UNCHANGED <<row[s].gen, row[s].status>> /\ UNCHANGED versions[s]
        /\ handler[s].at = "dropped" /\ Cleared(s)
        /\ \/ q.kind = "remove" /\ tombstone[s] = q.gen /\ tombstone'[s] = None
           \/ q.kind # "remove" /\ UNCHANGED tombstone[s]
    BY <1>1, <1>6 DEF FinishDrop, FencesTyped
  <2>2. QED
    BY <1>2, <2>1, ClearedFields DEF Concludes
<1>7. CASE Refuse(s) \/ Clear(s)
  <2>1. Cleared(s) /\ UNCHANGED <<versions[s], tombstone[s]>>
        /\ \/ handler[s].at = "refused" /\ row' = [row EXCEPT ![s] = Fenced(s, q.version)]
           \/ handler[s].at = "projected" /\ UNCHANGED row
    BY <1>7 DEF Refuse, Clear
  <2>2. QED
    BY <1>2, <1>4, <2>1, ClearedFields DEF Concludes
<1>8. CASE Publish(s)
  <2> DEFINE x == [upload |-> q.op, charge |-> q.charge, deleted |-> FALSE]
             vs == Append(versions[s], x)
  <2>1. /\ handler[s].at = "granted" /\ q.kind = "append" /\ UNCHANGED tombstone[s]
        /\ versions' = [versions EXCEPT ![s] = vs]
        /\ row' = [row EXCEPT ![s] = RollServed(Fenced(s, q.version), row[s].pinned, vs)]
        /\ GoOn(s, [q EXCEPT !.stage = "project"])
    BY <1>8 DEF Publish
  <2>2. x \in Version /\ x.deleted = FALSE /\ x.charge = q.charge
    <3>1. q.op \in Op
      BY <2>1 DEF Shape, Named
    <3>2. QED
      BY <1>3, <3>1, Zenon DEF Version
  <2>3. LiveCharge(vs) = LiveOf(s) + q.charge
    <3> HIDE DEF x
    <3> QED BY <1>1, <2>2, AppendCharge DEF LiveOf
  <2>4. Fenced(s, q.version) \in Row
    BY <1>1, <1>3, FencedSound
  <2> HIDE DEF vs
  <2>5. versions'[s] = vs /\ row'[s] = RollServed(Fenced(s, q.version), row[s].pinned, vs)
    BY <1>1, <2>1 DEF RowsTyped
  <2>6. FencedAt(s) /\ UNCHANGED <<row[s].gen, row[s].status>>
    BY <1>3, <2>4, <2>5, RolledFields, FencedFields DEF FencedAt
  <2>7. LiveOf(s)' = LiveOf(s) + q.charge
    BY <2>3, <2>5 DEF LiveOf
  <2>8. /\ [q EXCEPT !.stage = "project"].kind = q.kind
        /\ [q EXCEPT !.stage = "project"].stage = "project"
        /\ [q EXCEPT !.stage = "project"].gen = q.gen
        /\ [q EXCEPT !.stage = "project"].version = q.version
    BY <1>1 DEF Pending
  <2>9. QED
    BY <1>2, <2>1, <2>6, <2>7, <2>8, GoOnFields DEF Concludes
<1>9. CASE AbandonAppend(s)
  <2> DEFINE after == [q EXCEPT !.kind = "abandon", !.version = @ + 1, !.target = @ - q.charge,
                                !.latest = Len(versions[s]), !.charge = 0]
  <2>1. /\ handler[s].at = "granted" /\ q.kind = "append" /\ GoOn(s, after)
        /\ UNCHANGED <<row[s], versions[s], tombstone[s]>>
    BY <1>9 DEF AbandonAppend
  <2>2. /\ after.kind = "abandon" /\ after.stage = q.stage /\ after.version = q.version + 1
        /\ after.target = q.target - q.charge /\ after.cap = q.cap /\ after.gen = q.gen
    BY <1>1 DEF Pending
  <2> HIDE DEF after
  <2>3. QED
    BY <1>2, <2>1, <2>2, GoOnFields DEF Concludes
<1>10. CASE Advance(s)
  <2> DEFINE after == [q EXCEPT !.stage = AfterDecide(q.kind)]
  <2>1. /\ handler[s].at = "granted" /\ q.kind # "append" /\ GoOn(s, after)
        /\ row' = [row EXCEPT ![s] = Fenced(s, q.version)]
        /\ UNCHANGED <<versions[s], tombstone[s]>>
    BY <1>10 DEF Advance
  <2>2. /\ after.kind = q.kind /\ after.stage = AfterDecide(q.kind) /\ after.version = q.version
        /\ after.target = q.target /\ after.gen = q.gen
    BY <1>1 DEF Pending
  <2> HIDE DEF after
  <2>3. QED
    BY <1>2, <1>4, <2>1, <2>2, GoOnFields DEF Concludes
<1>11. QED
  BY <1>5, <1>6, <1>7, <1>8, <1>9, <1>10 DEF Settling
-----------------------------------------------------------------------------
(* The life of an artifact, step by step.                                  *)

\* What the saga and the requests leave to the creates and to the recovery.
LEMMA SagaKeeps ==
  ASSUME NEW s \in Slug, SagaStep(s)
  PROVE  UNCHANGED <<create, intents, resolver, aborted>>
<1>1. CASE IdentityAnswers(s) \/ CallFails(s) \/ PasteStops(s) \/ Alarm(s) \/ GoesOn(s)
  BY <1>1 DEF IdentityAnswers, CallFails, PasteStops, Alarm, GoesOn, Project, frontVars, identityVars
<1>2. CASE Retry(s) \/ SettleAbsent(s) \/ Refuse(s) \/ Publish(s)
  BY <1>2 DEF Retry, SettleAbsent, Refuse, Publish, frontVars, identityVars
<1>3. CASE AbandonAppend(s) \/ Advance(s) \/ Clear(s) \/ FinishDrop(s)
  BY <1>3 DEF AbandonAppend, Advance, Clear, FinishDrop, frontVars, identityVars
<1>4. QED
  BY <1>1, <1>2, <1>3 DEF SagaStep

LEMMA RequestKeeps ==
  ASSUME NEW p \in Op, RequestStep(p)
  PROVE  UNCHANGED <<create, intents, resolver, aborted>>
<1>1. CASE Issue(p) \/ Replay(p) \/ Busy(p) \/ Resume(p) \/ Mismatch(p) \/ AppendRefused(p) \/ DeleteNothing(p)
  BY <1>1 DEF Issue, Replay, Busy, Resume, Mismatch, AppendRefused, DeleteNothing, Answered,
              frontVars, pasteVars, identityVars
<1>2. CASE StartAppend(p) \/ StartDelete(p) \/ StartPin(p) \/ StartRemove(p) \/ StartFail(p) \/ StartProjection(p)
  BY <1>2 DEF StartAppend, StartDelete, StartPin, StartRemove, StartFail, StartProjection, Project,
              frontVars, identityVars
<1>3. QED
  BY <1>1, <1>2 DEF RequestStep

\* So each of these four is written by the steps it is for.
LEMMA RecoveryMoves ==
  ASSUME [Next]_vars
  PROVE  /\ (\E h \in Generation : CreateStep(h)) \/ UNCHANGED create
         /\ \/ UNCHANGED resolver
            \/ \E x \in Owner : \/ \E g \in Generation : OwnerOf(g) = x /\ ResolveIntent(g)
                                \/ AbortCreate(x) \/ IntentAnswered(x) \/ ResolverFails(x)
         /\ \/ UNCHANGED intents
            \/ \E h \in Generation : Reserve(h) \/ Confirm(h) \/ Release(h)
            \/ \E o \in Owner : IntentAnswered(o)
         /\ \/ UNCHANGED aborted
            \/ \E o \in Owner : AbortCreate(o)
            \/ \E m \in late : LateArrives(m)
<1> DEFINE Recovers(x) == \/ \E g \in Generation : OwnerOf(g) = x /\ ResolveIntent(g)
                      \/ AbortCreate(x) \/ IntentAnswered(x) \/ ResolverFails(x)
<1>1. ASSUME NEW h \in Generation, CreateStep(h)
      PROVE  /\ UNCHANGED <<resolver, aborted>>
             /\ UNCHANGED intents \/ Reserve(h) \/ Confirm(h) \/ Release(h)
  BY <1>1 DEF CreateStep, Reserve, Put, PutLost, Confirm, Release, Forgotten, identityVars, pasteVars
<1>2. ASSUME NEW o \in Owner, IdentityStep(o)
      PROVE  /\ Recovers(o) /\ UNCHANGED create
             /\ UNCHANGED intents \/ IntentAnswered(o)
             /\ UNCHANGED aborted \/ AbortCreate(o)
  BY <1>2 DEF IdentityStep, ResolveIntent, AbortCreate, IntentAnswered, ResolverFails,
              frontVars, pasteVars
<1>3. ASSUME NEW m \in late, LateArrives(m)
      PROVE  UNCHANGED <<create, intents, resolver>>
  BY <1>3 DEF LateArrives, frontVars, identityVars
<1>4. UNCHANGED vars => UNCHANGED <<create, intents, resolver, aborted>>
  BY DEF vars, identityVars, pasteVars, frontVars
<1> HIDE DEF Recovers
<1>5. \/ \E h \in Generation : CreateStep(h)
      \/ \E o \in Owner : IdentityStep(o)
      \/ \E m \in late : LateArrives(m)
      \/ UNCHANGED <<create, intents, resolver, aborted>>
  <2>1. ASSUME NEW s \in Slug, SagaStep(s)
        PROVE  UNCHANGED <<create, intents, resolver, aborted>>
    BY <2>1, SagaKeeps
  <2>2. ASSUME NEW p \in Op, RequestStep(p)
        PROVE  UNCHANGED <<create, intents, resolver, aborted>>
    BY <2>2, RequestKeeps
  <2>3. QED
    BY <1>4, <2>1, <2>2 DEF Next
<1>6. QED
  BY <1>1, <1>2, <1>3, <1>5 DEF Recovers

LEMMA CreateStays ==
  ASSUME Shape, [Next]_vars, NEW g \in Generation, create'[g] = "new"
  PROVE  create[g] = "new"
<1>1. create \in [Generation -> {"new", "put", "retry", "confirm", "release", "done", "failed"}]
  BY DEF Shape, FrontTyped
<1>2. ASSUME NEW h \in Generation, CreateStep(h)
      PROVE  create[g] = "new"
  BY <1>1, <1>2 DEF CreateStep, Reserve, Put, PutLost, Confirm, Release, Forgotten
<1>3. CASE UNCHANGED create
  BY <1>3
<1>4. (\E h \in Generation : CreateStep(h)) \/ UNCHANGED create
  BY RecoveryMoves
<1>5. QED
  BY <1>2, <1>3, <1>4

LEMMA UnlistedStays ==
  ASSUME Shape, [Next]_vars, NEW g \in Generation, create[g] # "new", ~Listed(g)
  PROVE  ~Listed(g)'
BY ListedMoves DEF Reserves, Reserve

\* Whatever holds a create goes only when the next thing does.
LEMMA HeldStep ==
  ASSUME Shape, Cells, Unborn, [Next]_vars, NEW g \in Generation, create[g] # "new", Held(g)
  PROVE  Held(g)'
<1> DEFINE s == SlugOf(g)
<1>1. s \in Slug /\ g # None /\ AnchoredAt(s) /\ StagedAt(s)
  BY GenerationFields DEF Cells
<1>2. CASE ~Listed(g)
  BY <1>2, UnlistedStays DEF Held
<1>3. CASE Present(g) \/ Removing(g)
  <2>1. row[s].gen = g \/ tombstone[s] = g
    BY <1>3 DEF Present, Removing
  <2> SUFFICES row'[s].gen = g \/ tombstone'[s] = g \/ ~Listed(g)
    BY <1>2 DEF Held, Present, Removing
  <2> HIDE DEF s
  <2>2. CASE Kept(s)
    BY <2>1, <2>2 DEF Kept
  <2>3. CASE Written(s)
    BY <1>1, <2>1, <2>3 DEF Written, MayPut
  <2>4. CASE Begun(s)
    <3>1. Asks(s)
      BY <1>1, <2>4, BegunAsks
    <3>2. tombstone[s] = None
      BY <1>1, <3>1 DEF Asks, AnchoredAt, Outstanding
    <3>3. QED
      BY <1>1, <2>1, <3>1, <3>2 DEF Asks
  <2>5. CASE IdentityAnswers(s)
    BY <2>1, <2>5 DEF IdentityAnswers
  <2>6. CASE Settling(s)
    <3>1. Concludes(s)
      BY <1>1, <2>6, SettlingConcludes
    <3>2. QED
      BY <1>1, <2>1, <3>1 DEF Concludes, StagedAt
  <2>7. QED
    BY <1>1, <2>2, <2>3, <2>4, <2>5, <2>6, CellMoves DEF Waits
<1>4. QED
  BY <1>2, <1>3 DEF Held

LEMMA AnchoredStep ==
  ASSUME Shape, Cells, Unborn, [Next]_vars, NEW s \in Slug
  PROVE  AnchoredAt(s)'
<1>1. /\ AnchoredAt(s) /\ StagedAt(s)
      /\ pending[s].kind # "none" => pending[s].gen \in Generation /\ pending[s].gen # None
  BY GenerationFields DEF Cells, Shape, Named
<1>2. CASE Kept(s)
  BY <1>1, <1>2 DEF Kept, AnchoredAt
<1>3. CASE Written(s)
  <2>1. PICK g \in Generation :
           /\ SlugOf(g) = s /\ MayPut(g) /\ row'[s].gen = g
           /\ UNCHANGED <<pending[s], tombstone[s], handler[s]>>
    BY <1>3 DEF Written
  <2>2. tombstone[s] = None /\ row[s].gen = None /\ g # None
    BY <2>1, GenerationFields DEF MayPut
  <2>3. pending[s].kind = "none"
    BY <1>1, <2>2 DEF AnchoredAt
  <2>4. QED
    BY <2>1, <2>2, <2>3 DEF AnchoredAt
<1>4. CASE Begun(s)
  <2>1. Asks(s)
    BY <1>4, BegunAsks
  <2>2. tombstone[s] = None
    BY <1>1, <2>1 DEF Asks, AnchoredAt, Outstanding
  <2>3. QED
    BY <1>1, <2>1, <2>2 DEF Asks, AnchoredAt
<1>5. CASE IdentityAnswers(s)
  BY <1>1, <1>5 DEF IdentityAnswers, AnchoredAt
<1>6. CASE Settling(s)
  <2>1. Concludes(s)
    BY <1>6, SettlingConcludes
  <2>2. QED
    BY <1>1, <2>1 DEF Concludes, AnchoredAt, StagedAt, Outstanding, DropKinds
<1>7. QED
  BY <1>2, <1>3, <1>4, <1>5, <1>6, CellMoves DEF Waits

\* The fence gives each stage its own answers.
LEMMA AnswerMoves ==
  ASSUME Shape, Cells, Records, NEW s \in Slug, IdentityAnswers(s)
  PROVE  LET q == pending[s]
             at == handler'[s].at
         IN
         /\ Kept(s) /\ Outstanding(s) /\ at = StageAnswer(StageRequest(s)) /\ at # "next"
         /\ at \in {"absent", "granted", "refused"} => q.stage = "decide"
         /\ at = "refused" => q.kind \notin DropKinds
         /\ at = "projected" => q.stage = "project"
         /\ at = "dropped" => q.stage = "drop"
         /\ at \in {"absent", "dropped"} => ~Listed(q.gen)'
<1> DEFINE m == StageRequest(s)
           q == pending[s]
           a == account[q.gen]
<1>1. Outstanding(s)
  BY DEF IdentityAnswers, Outstanding, Shape, Named
<1>2. /\ Kept(s) /\ handler'[s].at = StageAnswer(m) /\ StageEffect(m)
  BY DEF IdentityAnswers, Kept, Shape, WorkTyped, Handler
<1>3. /\ m \in Message /\ m.gen = q.gen /\ q.gen \in Generation /\ q.gen # None
      /\ a \in FenceRecord /\ a.allocated <= a.target
  BY <1>1, StageRequestTyped, EntryTyped, GenerationFields
     DEF Outstanding, Shape, Message, Records
<1>4. /\ m.type = q.stage /\ m.version = q.version
      /\ q.stage = "decide" => m.target = q.target /\ m.cap = q.cap
  BY DEF StageRequest
<1>5. q.target \in Nat /\ q.version \in Nat /\ q.stage \in Stages
  BY DEF Shape, WorkTyped, Pending
<1>6. CASE q.stage = "decide"
  <2>1. /\ StageAnswer(m) = DecideAnswer(m)
        /\ DecideAnswer(m) \in {"absent", "granted", "refused", "conflict"}
    BY <1>4, <1>6 DEF StageAnswer, DecideAnswer, FenceAnswer
  <2>2. ASSUME DecideAnswer(m) = "absent"
        PROVE  ~Listed(q.gen)'
    <3>1. ~Listed(q.gen)
      BY <1>3, <2>2 DEF DecideAnswer, FenceAnswer, Listed
    <3>2. UNCHANGED entries
      BY <1>2, <1>3, <1>4, <1>6, <3>1 DEF StageEffect, ArtifactDecide
    <3>3. QED
      BY <1>2, <3>1, <3>2 DEF Listed, EntryOf, Kept
  <2>3. ASSUME DecideAnswer(m) = "refused", q.kind \in DropKinds
        PROVE  FALSE
    <3>1. q.target = 0
      BY <1>1, <2>3 DEF Cells, StagedAt
    <3>2. FenceAnswer(a, OwnerTotal(OwnerOf(q.gen)), q.version, 0, q.cap) = "refused"
      BY <1>3, <1>4, <1>6, <2>3, <3>1 DEF DecideAnswer
    <3>3. a.allocated \in Nat /\ a.target \in Nat
      BY <1>3 DEF FenceRecord
    <3>4. QED
      BY <1>3, <3>2, <3>3 DEF FenceAnswer, Grants
  <2>4. QED
    BY <1>1, <1>2, <1>6, <2>1, <2>2, <2>3
<1>7. CASE q.stage = "project"
  BY <1>1, <1>2, <1>4, <1>7 DEF StageAnswer
<1>8. CASE q.stage = "drop"
  <2>1. StageAnswer(m) = IF MayDrop(m) THEN "dropped" ELSE "conflict"
    BY <1>4, <1>8 DEF StageAnswer
  <2>2. ASSUME MayDrop(m)
        PROVE  ~Listed(q.gen)'
    <3>1. Enter(q.gen, NoEntry)
      BY <1>2, <1>3, <1>4, <1>8, <2>2 DEF StageEffect, ArtifactDrop
    <3>2. NoEntry \in Entry /\ NoEntry.gen = None
      BY EmptyRecords DEF NoEntry
    <3>3. Listed(pending[s].gen)' <=> NoEntry.gen = pending[s].gen
      <4>1. \A h \in Generation : Enter(h, NoEntry) => (Listed(h)' <=> NoEntry.gen = h)
        BY <3>2, EnterListed DEF Shape
      <4>2. pending'[s].gen = pending[s].gen
        BY <1>2 DEF Kept
      <4>3. QED
        BY <1>3, <3>1, <4>1, <4>2
    <3>4. QED
      BY <1>3, <3>2, <3>3
  <2>3. QED
    BY <1>1, <1>2, <1>8, <2>1, <2>2
<1>9. QED
  BY <1>5, <1>6, <1>7, <1>8 DEF Stages

\* An operation that is pending is of a create that began.
LEMMA PendingBegan ==
  ASSUME Shape, Cells, Unborn, NEW s \in Slug, Outstanding(s)
  PROVE  /\ pending[s].gen \in Generation /\ SlugOf(pending[s].gen) = s
         /\ create[pending[s].gen] # "new"
<1>1. /\ pending[s].gen \in Generation /\ pending[s].gen # None /\ AnchoredAt(s)
  BY GenerationFields DEF Cells, Shape, Named, Outstanding
<1>2. row[s].gen = pending[s].gen \/ tombstone[s] = pending[s].gen
  BY <1>1 DEF AnchoredAt, Outstanding
<1>3. SlugOf(pending[s].gen) = s
  BY <1>1, <1>2 DEF AnchoredAt
<1>4. QED
  BY <1>1, <1>2, <1>3 DEF Unborn, Present, Removing

LEMMA StagedStep ==
  ASSUME Shape, Cells, Unborn, Records, [Next]_vars, NEW s \in Slug
  PROVE  StagedAt(s)'
<1>1. AnchoredAt(s) /\ StagedAt(s) /\ (handler[s].at \notin {"idle", "next"} => Outstanding(s))
  BY DEF Cells, Shape, Named, Outstanding
<1>2. CASE Kept(s) /\ UNCHANGED handler[s]
  <2>1. UNCHANGED <<row[s], pending[s], handler[s]>>
    BY <1>2 DEF Kept
  <2>2. ASSUME handler[s].at \in {"absent", "dropped"}
        PROVE  ~Listed(pending[s].gen)'
    <3>1. pending[s].gen \in Generation /\ create[pending[s].gen] # "new" /\ ~Listed(pending[s].gen)
      BY <1>1, <2>2, PendingBegan DEF StagedAt
    <3>2. \A g \in Generation : create[g] # "new" /\ ~Listed(g) => ~Listed(g)'
      BY UnlistedStays
    <3>3. QED
      BY <2>1, <3>1, <3>2 DEF Listed, EntryOf
  <2>3. QED
    BY <1>1, <2>1, <2>2 DEF StagedAt, Outstanding, Failed
<1>3. CASE Waits(s)
  BY <1>1, <1>3 DEF Waits, Kept, StagedAt, Outstanding, Failed
<1>4. CASE Written(s)
  <2>1. UNCHANGED <<pending[s], handler[s]>> /\ row[s].gen = None /\ tombstone[s] = None
    BY <1>4 DEF Written, MayPut
  <2>2. ~Outstanding(s)
    BY <1>1, <2>1, PendingBegan, GenerationFields DEF AnchoredAt, Outstanding
  <2>3. QED
    BY <1>1, <2>1, <2>2 DEF StagedAt, Outstanding
<1>5. CASE Begun(s)
  <2>1. Asks(s)
    BY <1>5, BegunAsks
  <2>2. QED
    BY <2>1 DEF Asks, StagedAt, Outstanding, Failed, DropKinds
<1>6. CASE IdentityAnswers(s)
  <2>1. UNCHANGED <<row[s], pending[s]>>
    BY <1>6 DEF IdentityAnswers
  <2>2. ASSUME handler'[s].at \in {"absent", "dropped"}
        PROVE  ~Listed(pending[s].gen)'
    BY <1>6, <2>2, AnswerMoves
  <2>3. QED
    BY <1>1, <1>6, <2>1, <2>2, AnswerMoves DEF StagedAt, Outstanding, Failed
<1>7. CASE Settling(s)
  <2>1. Concludes(s)
    BY <1>7, SettlingConcludes
  <2>2. QED
    BY <1>1, <2>1 DEF Concludes, StagedAt, Outstanding, Failed, AfterDecide, DropKinds
<1>8. QED
  BY <1>2, <1>3, <1>4, <1>5, <1>6, <1>7, CellMoves

\* A request whose copy is left on its way.
Left(m) ==
    /\ m.type \in LateKinds
    /\ \/ \E g \in Generation : m = BareMessage("put", g) /\ create[g] \in {"put", "retry"}
       \/ \E o \in Owner : resolver[o].gen # None /\ m = BareMessage("abort", resolver[o].gen)
       \/ \E s \in Slug : Outstanding(s) /\ m = StageRequest(s)
    /\ UNCHANGED <<entries, account, row, versions, pending, tombstone>>

LEMMA LateMoves ==
  ASSUME Shape, [Next]_vars, NEW m, m \in late'
  PROVE  m \in late \/ Left(m)
<1>1. \A g \in Generation : PutLost(g) => m \in late \/ Left(m)
  BY DEF PutLost, LateCopy, BareMessage, identityVars, pasteVars, Left
<1>2. \A o \in Owner : ResolverFails(o) => m \in late \/ Left(m)
  BY DEF ResolverFails, LateCopy, BareMessage, pasteVars, NoFault, netVars, Left
<1>3. \A s \in Slug : CallFails(s) => m \in late \/ Left(m)
  BY DEF CallFails, LateCopy, StageRequest, NoFault, netVars, identityVars, Left, Outstanding,
         Shape, Named
<1>4. ASSUME NEW g \in Generation, CreateStep(g)
      PROVE  m \in late \/ Left(m)
  BY <1>1, <1>4 DEF CreateStep, Reserve, Put, Confirm, Release, Forgotten, NoFault, netVars
<1>5. ASSUME NEW o \in Owner, IdentityStep(o)
      PROVE  m \in late \/ Left(m)
  BY <1>2, <1>5 DEF IdentityStep, ResolveIntent, AbortCreate, IntentAnswered, NoFault, netVars
<1>6. ASSUME NEW s \in Slug, SagaStep(s)
      PROVE  m \in late \/ Left(m)
  BY <1>3, <1>6
     DEF SagaStep, IdentityAnswers, PasteStops, Alarm, GoesOn, Project, Retry, SettleAbsent,
         Refuse, Publish, AbandonAppend, Advance, Clear, FinishDrop, NoFault, netVars
<1>7. ASSUME NEW p \in Op, RequestStep(p)
      PROVE  m \in late
  BY <1>7
     DEF RequestStep, Issue, Replay, Busy, Resume, Mismatch, StartAppend, AppendRefused,
         StartDelete, DeleteNothing, StartPin, StartRemove, StartFail, StartProjection, Project,
         Answered, NoFault, netVars
<1>8. (\E x \in late : LateArrives(x)) \/ UNCHANGED vars => m \in late
  BY DEF LateArrives, vars, netVars
<1>9. QED
  BY <1>4, <1>5, <1>6, <1>7, <1>8 DEF Next

\* What the Identity cell's alarm works on, and the intents it works through.
LEMMA ResolverMoves ==
  ASSUME Shape, [Next]_vars, NEW o \in Owner
  PROVE  \/ UNCHANGED resolver[o] \/ resolver'[o].gen = None
         \/ resolver'[o].gen \in intents /\ resolver'[o].found = "asking"
         \/ /\ resolver'[o].gen = resolver[o].gen /\ UNCHANGED <<row, versions, pending, tombstone>>
            /\ aborted' = Fencing(resolver[o].gen)
            /\ resolver'[o].found # "absent" <=> Present(resolver[o].gen)
            /\ Present(resolver[o].gen) => resolver'[o].found = row[SlugOf(resolver[o].gen)].status
<1> DEFINE Goal ==
         \/ UNCHANGED resolver[o] \/ resolver'[o].gen = None
         \/ resolver'[o].gen \in intents /\ resolver'[o].found = "asking"
         \/ /\ resolver'[o].gen = resolver[o].gen /\ UNCHANGED <<row, versions, pending, tombstone>>
            /\ aborted' = Fencing(resolver[o].gen)
            /\ resolver'[o].found # "absent" <=> Present(resolver[o].gen)
            /\ Present(resolver[o].gen) => resolver'[o].found = row[SlugOf(resolver[o].gen)].status
<1>1. resolver \in [Owner -> Answer]
  BY DEF Shape, IntentsTyped
<1>2. ASSUME NEW x \in Owner, NEW g \in Generation, OwnerOf(g) = x, ResolveIntent(g)
      PROVE  Goal
  BY <1>1, <1>2 DEF ResolveIntent
<1>3. ASSUME NEW x \in Owner, AbortCreate(x)
      PROVE  Goal
  <2>1. \A s \in Slug : row[s].status # "absent"
    BY DEF Shape, RowsTyped, Row, Status
  <2>2. resolver[x].gen \in Generation
    BY <1>1, <1>3 DEF AbortCreate, Answer
  <2>3. SlugOf(resolver[x].gen) \in Slug
    BY <2>2, GenerationFields
  <2>4. QED
    BY <1>1, <1>3, <2>1, <2>3 DEF AbortCreate, Answer, Present
<1>4. ASSUME NEW x \in Owner, IntentAnswered(x) \/ ResolverFails(x)
      PROVE  Goal
  BY <1>1, <1>4 DEF IntentAnswered, ResolverFails, NoAnswer
<1>5. CASE UNCHANGED resolver
  BY <1>5
<1>6. \/ UNCHANGED resolver
      \/ \E x \in Owner : \/ \E g \in Generation : OwnerOf(g) = x /\ ResolveIntent(g)
                          \/ AbortCreate(x) \/ IntentAnswered(x) \/ ResolverFails(x)
  BY RecoveryMoves
<1>7. QED
  BY <1>2, <1>3, <1>4, <1>5, <1>6

LEMMA IntentMoves ==
  ASSUME Shape, [Next]_vars, NEW g \in Generation
  PROVE  /\ g \in intents' => g \in intents \/ create'[g] # "new"
         /\ g \in intents /\ g \notin intents' =>
               \/ create[g] = "confirm" \/ ReleaseEntry(g)
               \/ \E o \in Owner : resolver[o].gen = g /\ resolver[o].found \notin {"asking", "absent"}
<1> DEFINE Goal ==
         /\ g \in intents' => g \in intents \/ create'[g] # "new"
         /\ g \in intents /\ g \notin intents' =>
               \/ create[g] = "confirm" \/ ReleaseEntry(g)
               \/ \E o \in Owner : resolver[o].gen = g /\ resolver[o].found \notin {"asking", "absent"}
<1>1. ASSUME NEW h \in Generation, Reserve(h)
      PROVE  Goal
  BY <1>1 DEF Reserve, Shape, FrontTyped
<1>2. ASSUME NEW h \in Generation, Confirm(h)
      PROVE  Goal
  BY <1>2 DEF Confirm, ConfirmEntry
<1>3. ASSUME NEW h \in Generation, Release(h)
      PROVE  Goal
  BY <1>3 DEF Release, ReleaseEntry
<1>4. ASSUME NEW o \in Owner, IntentAnswered(o)
      PROVE  Goal
  BY <1>4 DEF IntentAnswered, ReleaseEntry, ConfirmEntry
<1>5. CASE UNCHANGED intents
  BY <1>5
<1>6. \/ UNCHANGED intents
      \/ \E h \in Generation : Reserve(h) \/ Confirm(h) \/ Release(h)
      \/ \E o \in Owner : IntentAnswered(o)
  BY RecoveryMoves
<1>7. QED
  BY <1>1, <1>2, <1>3, <1>4, <1>5, <1>6

LEMMA RecordsStep ==
  ASSUME Shape, Records, [Next]_vars
  PROVE  Records'
<1> SUFFICES ASSUME NEW g \in Generation
             PROVE  account'[g].allocated <= account'[g].target
  BY DEF Records
<1>1. account[g] \in FenceRecord /\ account[g].allocated <= account[g].target
  BY EntryTyped DEF Shape, Records
<1>2. CASE UNCHANGED account
  BY <1>1, <1>2
<1>3. ASSUME NEW h \in Generation, Reserves(h)
      PROVE  account'[g].allocated <= account'[g].target
  <2>1. Creates[h].size \in Nat
    BY GenerationFields
  <2>2. QED
    BY <1>1, <1>3, <2>1 DEF Reserves
<1>4. ASSUME NEW h \in Generation, Unlists(h)
      PROVE  account'[g].allocated <= account'[g].target
  <2>1. account' \in [Generation -> FenceRecord]
    BY ShapeStep DEF Shape, LedgerTyped
  <2>2. account'[g].allocated \in Nat /\ account'[g].target \in Nat
    BY <2>1 DEF FenceRecord
  <2>3. QED
    BY <1>1, <1>4, <2>2 DEF Unlists
<1>5. ASSUME NEW m \in Message, Settles(m)
      PROVE  account'[g].allocated <= account'[g].target
  <2>1. m.target \in Nat /\ m.gen \in Generation
    BY DEF Message
  <2>2. account' = [account EXCEPT ![m.gen] = Decision(m)]
    BY <1>5 DEF Settles, ArtifactDecide
  <2>3. account'[g] = IF g = m.gen THEN Decision(m) ELSE account[g]
    BY <2>1, <2>2 DEF Shape, LedgerTyped
  <2>4. CASE g = m.gen
    <3>1. account[g].allocated \in Nat
      BY <1>1 DEF FenceRecord
    <3>2. account'[g].target = m.target
          /\ \/ account'[g].allocated = m.target
             \/ account'[g].allocated = account[g].allocated /\ ~(m.target <= account[g].allocated)
      BY <2>3, <2>4 DEF Decision, Decided, Grants
    <3>3. QED
      BY <2>1, <3>1, <3>2
  <2>5. QED
    BY <1>1, <2>3, <2>4
<1>6. QED
  BY <1>2, <1>3, <1>4, <1>5, LedgerMoves, ReserveMoves DEF Relists

LEMMA UnbornStep ==
  ASSUME Shape, Cells, Unborn, [Next]_vars
  PROVE  Unborn'
<1> SUFFICES ASSUME NEW g \in Generation, create'[g] = "new"
             PROVE  /\ ~Listed(g)' /\ ~Present(g)' /\ ~Removing(g)'
                    /\ g \notin intents' /\ \A o \in Owner : resolver'[o].gen # g
                    /\ \A m \in late' : m.gen # g
  BY DEF Unborn
<1>1. create[g] = "new"
  BY CreateStays
<1>2. /\ ~Listed(g) /\ ~Present(g) /\ ~Removing(g)
      /\ g \notin intents /\ \A o \in Owner : resolver[o].gen # g
      /\ \A m \in late : m.gen # g
  BY <1>1 DEF Unborn
<1>3. ~Listed(g)'
  BY <1>2, ListedMoves DEF Reserves
<1>4. ~Present(g)' /\ ~Removing(g)'
  <2> DEFINE s == SlugOf(g)
  <2>1. s \in Slug /\ g # None /\ row[s].gen # g /\ tombstone[s] # g
    BY <1>2, GenerationFields DEF Present, Removing
  <2> SUFFICES row'[s].gen # g /\ tombstone'[s] # g
    BY DEF Present, Removing
  <2> HIDE DEF s
  <2>2. CASE Kept(s)
    BY <2>1, <2>2 DEF Kept
  <2>3. CASE Written(s)
    BY <1>1, <2>1, <2>3 DEF Written
  <2>4. CASE Begun(s)
    BY <2>1, <2>4, BegunAsks DEF Asks
  <2>5. CASE IdentityAnswers(s)
    BY <2>1, <2>5 DEF IdentityAnswers
  <2>6. CASE Settling(s)
    BY <2>1, <2>6, SettlingConcludes DEF Concludes
  <2>7. QED
    BY <2>1, <2>2, <2>3, <2>4, <2>5, <2>6, CellMoves DEF Waits
<1>5. g \notin intents'
  BY <1>2, IntentMoves
<1>6. ASSUME NEW o \in Owner
      PROVE  resolver'[o].gen # g
  BY <1>2, GenerationFields, ResolverMoves
<1>7. ASSUME NEW m \in late'
      PROVE  m.gen # g
  <2>1. CASE m \in late
    BY <1>2, <2>1
  <2>2. CASE Left(m)
    <3>1. \A h \in Generation : create[h] \in {"put", "retry"} => BareMessage("put", h).gen # g
      BY <1>1 DEF BareMessage
    <3>2. \A o \in Owner : BareMessage("abort", resolver[o].gen).gen # g
      BY <1>2 DEF BareMessage
    <3>3. \A s \in Slug : Outstanding(s) => StageRequest(s).gen # g
      BY <1>1, PendingBegan DEF StageRequest
    <3>4. QED
      BY <2>2, <3>1, <3>2, <3>3 DEF Left
  <2>3. QED
    BY <2>1, <2>2, LateMoves
<1>8. QED
  BY <1>3, <1>4, <1>5, <1>6, <1>7

LEMMA ConfirmedStep ==
  ASSUME LifeInv, [Next]_vars
  PROVE  Confirmed'
<1> USE DEF LifeInv
<1> SUFFICES ASSUME NEW g \in Generation,
                    \/ create'[g] = "confirm"
                    \/ \E o \in Owner : resolver'[o].gen = g
                                        /\ resolver'[o].found \notin {"asking", "absent"}
             PROVE  Held(g)'
  BY DEF Confirmed
<1>1. ASSUME create[g] = "confirm"
      PROVE  Held(g)'
  BY <1>1, HeldStep DEF Confirmed
<1>2. ASSUME NEW o \in Owner, resolver[o].gen = g, resolver[o].found \notin {"asking", "absent"}
      PROVE  Held(g)'
  BY <1>2, HeldStep DEF Confirmed, Unborn
<1>3. ASSUME create'[g] = "confirm", create[g] # "confirm"
      PROVE  Held(g)'
  <2>1. Put(g)
    <3>1. create \in [Generation -> {"new", "put", "retry", "confirm", "release", "done", "failed"}]
      BY DEF Shape, FrontTyped
    <3>2. ASSUME NEW h \in Generation, CreateStep(h)
          PROVE  Put(g)
      BY <1>3, <3>1, <3>2 DEF CreateStep, Reserve, Put, PutLost, Confirm, Release, Forgotten
    <3>3. (\E h \in Generation : CreateStep(h)) \/ UNCHANGED create
      BY RecoveryMoves
    <3>4. QED
      BY <1>3, <3>2, <3>3
  <2>2. MayPut(g) \/ row[SlugOf(g)].gen = g
    BY <1>3, <2>1 DEF Put, Shape, FrontTyped
  <2>3. row'[SlugOf(g)].gen = g
    BY <2>1, <2>2, GenerationFields DEF Put, WriteRow, MayPut, Shape, RowsTyped
  <2>4. QED
    BY <2>3 DEF Held, Present
<1>4. ASSUME NEW o \in Owner, resolver'[o].gen = g, resolver'[o].found \notin {"asking", "absent"},
             ~UNCHANGED resolver[o]
      PROVE  Held(g)'
  <2>1. Present(g) /\ UNCHANGED row
    BY <1>4, GenerationFields, ResolverMoves
  <2>2. QED
    BY <2>1 DEF Held, Present
<1>5. QED
  BY <1>1, <1>2, <1>3, <1>4

LEMMA StrandedStep ==
  ASSUME LifeInv, [Next]_vars
  PROVE  NothingStranded'
<1> USE DEF LifeInv
<1> SUFFICES ASSUME NEW g \in Generation, Listed(g)', g \notin intents'
             PROVE  Present(g)' \/ Removing(g)'
  BY DEF NothingStranded, Removing
<1>1. ~Reserves(g)
  BY DEF Reserves
<1>2. Listed(g) /\ create[g] # "new"
  BY <1>1, ListedMoves DEF Unborn
<1>3. ASSUME Held(g)
      PROVE  Present(g)' \/ Removing(g)'
  BY <1>2, <1>3, HeldStep DEF Held
<1>4. ASSUME ~Held(g)
      PROVE  FALSE
  <2>1. g \in intents
    BY <1>2, <1>4 DEF NothingStranded, Held, Removing
  <2>2. ReleaseEntry(g)
    BY <1>4, <2>1, IntentMoves DEF Confirmed
  <2>3. Enter(g, NoEntry) /\ NoEntry \in Entry /\ NoEntry.gen = None /\ g # None
    BY <1>2, <2>2, EmptyRecords, GenerationFields DEF ReleaseEntry, Listed, NoEntry
  <2>4. QED
    BY <2>3, EnterListed DEF Shape
<1>5. QED
  BY <1>3, <1>4

LEMMA LifeInit == Init => LifeInv
<1> SUFFICES ASSUME Init
             PROVE  LifeInv
  OBVIOUS
<1>1. Shape
  BY ShapeInit
<1>2. \A g \in Generation : ~Listed(g) /\ ~Present(g) /\ ~Removing(g) /\ g # None
  BY GenerationFields
     DEF Init, Listed, EntryOf, NoEntry, Present, NoRow, Removing
<1>3. Unborn
  BY <1>2 DEF Init, Unborn, NoAnswer
<1>4. Cells
  BY DEF Init, Cells, AnchoredAt, StagedAt, NoPending, NoRow, Idle, Outstanding
<1>5. Records
  BY DEF Init, Records, NoRecord
<1>6. Confirmed /\ NothingStranded
  BY <1>2 DEF Init, Confirmed, Held, NothingStranded
<1>7. QED
  BY <1>1, <1>3, <1>4, <1>5, <1>6 DEF LifeInv

LEMMA LifeStep == LifeInv /\ [Next]_vars => LifeInv'
<1> SUFFICES ASSUME LifeInv, [Next]_vars
             PROVE  LifeInv'
  OBVIOUS
<1>1. Shape' /\ Unborn' /\ Records'
  BY ShapeStep, UnbornStep, RecordsStep DEF LifeInv
<1>2. Cells'
  BY AnchoredStep, StagedStep DEF LifeInv, Cells
<1>3. QED
  BY <1>1, <1>2, ConfirmedStep, StrandedStep DEF LifeInv

\* So every reservation stays accounted for, along every run (reserve, confirm,
\* release, resolveCreateIntent).
THEOREM LifeInvariant == Spec => []LifeInv
<1>1. QED
  BY LifeInit, LifeStep, PTL DEF Spec

\* A reservation with neither a row, a removal nor an intent is never left
\* behind: the confirm of a create and its recovery discharge the intent only
\* of what has a row, or no longer an entry (confirm, release,
\* resolveCreateIntent).
THEOREM AlwaysNothingStranded == Spec => []NothingStranded
<1>1. LifeInv => NothingStranded
  BY DEF LifeInv
<1>2. QED
  BY <1>1, LifeInvariant, PTL-----------------------------------------------------------------------------
(* The amounts, step by step.                                              *)

LEMMA LiveNat ==
  ASSUME Shape, NEW s \in Slug
  PROVE  LiveOf(s) \in Nat
BY LiveVersionsFinite DEF Shape, RowsTyped, LiveOf

\* The record of a generation and the pending operation, in numbers.
LEMMA Amounts ==
  ASSUME Shape, NEW s \in Slug
  PROVE  /\ row[s].version \in Nat /\ LiveOf(s) \in Nat
         /\ pending[s].version \in Nat /\ pending[s].target \in Nat /\ pending[s].charge \in Nat
         /\ pending[s].stage \in Stages
         /\ \A g \in Generation : /\ account[g].version \in Nat /\ account[g].allocated \in Nat
                                  /\ account[g].target \in Nat
BY EntryTyped, LiveNat DEF Shape, RowsTyped, WorkTyped, Row, Pending, FenceRecord

\* A first version is charged what its create reserved.
LEMMA FirstCharge ==
  ASSUME NEW g \in Generation
  PROVE  LiveCharge(<<[upload |-> g, charge |-> Creates[g].size, deleted |-> FALSE]>>)
            = Creates[g].size
<1> DEFINE x == [upload |-> g, charge |-> Creates[g].size, deleted |-> FALSE]
           none == [i \in LiveVersions(<<>>) |-> <<>>[i].charge]
<1>1. x \in Version /\ x.deleted = FALSE /\ x.charge = Creates[g].size /\ x.charge \in Nat
  <2>1. Creates[g].size \in Nat
    BY GenerationFields
  <2>2. QED
    BY <2>1, Zenon DEF Version
<1>2. LiveCharge(<<>>) = 0
  <2>1. LiveVersions(<<>>) = {}
    BY DEF LiveVersions
  <2>2. DOMAIN none = {}
    BY <2>1
  <2>3. Units(none) = {}
    BY <2>2 DEF Units
  <2>4. QED
    BY <2>3, FS_EmptySet DEF LiveCharge, Total
<1> HIDE DEF x
<1>3. <<>> \in Seq(Version) /\ Append(<<>>, x) = <<x>>
  BY <1>1
<1>4. LiveCharge(<<x>>) = 0 + x.charge
  BY <1>1, <1>2, <1>3, AppendCharge
<1>5. LiveCharge(<<x>>) = x.charge
  BY <1>1, <1>4
<1>6. QED
  BY <1>1, <1>5 DEF x

LEMMA TargetsStep ==
  ASSUME LifeInv, [Next]_vars, NEW s \in Slug, TargetsAt(s)
  PROVE  TargetsAt(s)'
<1> USE DEF LifeInv
<1>1. Kept(s) => TargetsAt(s)'
  BY DEF Kept, TargetsAt, LiveOf, Outstanding
<1>2. CASE Written(s)
  <2>1. UNCHANGED pending[s] /\ row[s].gen = None /\ tombstone[s] = None
    BY <1>2 DEF Written, MayPut
  <2>2. ~Outstanding(s)
    BY <2>1, PendingBegan, GenerationFields DEF Cells, AnchoredAt, Outstanding
  <2>3. QED
    BY <2>1, <2>2 DEF TargetsAt, Outstanding
<1>3. CASE Begun(s)
  <2>1. Asks(s)
    BY <1>3, BegunAsks
  <2>2. QED
    BY <2>1 DEF Asks, TargetsAt, LiveOf, DropKinds
<1>4. CASE Settling(s)
  <2>1. Concludes(s) /\ StagedAt(s)
    BY <1>4, SettlingConcludes DEF Cells
  <2>2. QED
    BY <2>1, Amounts DEF Concludes, StagedAt, TargetsAt, LiveOf, Outstanding, AfterDecide, DropKinds
<1>5. QED
  BY <1>1, <1>2, <1>3, <1>4, CellMoves DEF Waits, IdentityAnswers, Kept

\* A decision is taken for the operation that is pending, once.
LEMMA SettlesPending ==
  ASSUME ChargeInv, NEW m \in Message, Settles(m)
  PROVE  LET g == m.gen
             s == SlugOf(g)
             q == pending[s]
             a == account[g]
         IN
         /\ g \in Generation /\ s \in Slug /\ HasPending(g) /\ m = StageRequest(s)
         /\ q.stage = "decide" /\ m.version = q.version /\ m.target = q.target /\ m.cap = q.cap
         /\ q.version = a.version + 1 /\ handler[s].at \notin {"granted", "refused"}
         /\ q.kind \notin DropKinds => a.allocated >= LiveOf(s)
         /\ q.kind = "append" => a.allocated = LiveOf(s)
         /\ q.cap \in {0, UserCap}
         /\ q.kind \notin DropKinds \union {"append"} => q.target = LiveOf(s)
         /\ q.kind \in DropKinds => q.target = 0
         /\ q.kind = "append" => q.cap = UserCap
<1> DEFINE g == m.gen
           s == SlugOf(g)
<1>1. g \in Generation /\ s \in Slug /\ m.version \in Nat
  BY GenerationFields DEF Message
<1>2. m.type = "decide" /\ Asking(m) /\ Listed(g) /\ m.version = account[g].version + 1
  BY DEF Settles, Decides
<1>3. HasPending(g) /\ m = StageRequest(s)
  <2>1. CASE m \in late
    BY <1>1, <1>2, <2>1, Amounts DEF ChargeInv, LifeInv, ChargedFor, Delayed
  <2>2. CASE \E x \in Slug : Outstanding(x) /\ m = StageRequest(x)
    <3>1. PICK x \in Slug : Outstanding(x) /\ m = StageRequest(x)
      BY <2>2
    <3>2. pending[x].gen = g /\ x = s
      BY <3>1, PendingBegan DEF StageRequest, ChargeInv, LifeInv
    <3>3. QED
      BY <3>1, <3>2 DEF HasPending
  <2>3. QED
    BY <1>2, <2>1, <2>2 DEF Asking
<1>4. /\ pending[s].stage = "decide" /\ m.version = pending[s].version
      /\ m.target = pending[s].target /\ m.cap = pending[s].cap
  BY <1>2, <1>3 DEF StageRequest
<1>5. Deciding(g) /\ TargetsAt(s) /\ StagedAt(s)
  BY <1>1, <1>2 DEF ChargeInv, ChargedFor, LifeInv, Cells
<1> HIDE DEF g, s
<1>6. s = SlugOf(g) /\ account[g].version \in Nat
  BY <1>1, Amounts DEF s, ChargeInv, LifeInv
<1>7. QED
  BY <1>1, <1>2, <1>3, <1>4, <1>5, <1>6 DEF Deciding, TargetsAt, StagedAt, HasPending, g, s

\* A grant without a ceiling is a shrink.
LEMMA SettlesAmount ==
  ASSUME ChargeInv, NEW m \in Message, Settles(m)
  PROVE  LET a == account[m.gen]
             total == OwnerTotal(OwnerOf(m.gen))
         IN
         /\ m.target \in Nat /\ m.gen \in Generation
         /\ account'[m.gen].version = m.version /\ account'[m.gen].target = m.target
         /\ \A x \in Generation \ {m.gen} : account'[x] = account[x]
         /\ \/ /\ DecideAnswer(m) = "granted" /\ account'[m.gen].allocated = m.target
               /\ m.target <= a.allocated \/ total - a.allocated + m.target <= UserCap
            \/ /\ DecideAnswer(m) = "refused" /\ account'[m.gen].allocated = a.allocated
               /\ ~(m.target <= a.allocated)
<1> DEFINE s == SlugOf(m.gen)
           q == pending[s]
           a == account[m.gen]
           total == OwnerTotal(OwnerOf(m.gen))
<1>1. /\ s \in Slug /\ m.gen \in Generation /\ m.target \in Nat /\ m.target = q.target
      /\ m.cap = q.cap /\ q.cap \in {0, UserCap}
      /\ q.cap = 0 => q.target = 0 \/ (q.target = LiveOf(s) /\ a.allocated >= LiveOf(s))
  BY SettlesPending, ConstantsAssumption DEF Message
<1>2. Listed(m.gen) /\ Decides(a, m.version) /\ ArtifactDecide(m)
  BY DEF Settles
<1>3. account' = [account EXCEPT ![m.gen] = Decision(m)]
  BY <1>2 DEF ArtifactDecide
<1>4. account'[m.gen] = Decision(m) /\ \A x \in Generation \ {m.gen} : account'[x] = account[x]
  BY <1>1, <1>3 DEF ChargeInv, LifeInv, Shape, LedgerTyped
<1>5. EntryOf(m.gen).gen = m.gen /\ m.gen # None
  BY <1>1, <1>2, GenerationFields DEF Listed
<1>6. DecideAnswer(m) = IF Grants(a, total, m.target, m.cap) THEN "granted" ELSE "refused"
  <2>1. a.version \in Nat
    BY <1>1, Amounts DEF ChargeInv, LifeInv
  <2>2. Decides(a, m.version) /\ ~(m.version = a.version)
    BY <1>2, <2>1 DEF Decides
  <2>3. FenceAnswer(a, total, m.version, m.target, m.cap)
           = IF Grants(a, total, m.target, m.cap) THEN "granted" ELSE "refused"
    BY <2>2 DEF FenceAnswer
  <2>4. QED
    BY <1>2, <1>5, <2>3 DEF DecideAnswer
<1>7. LiveOf(s) \in Nat /\ a.allocated \in Nat
  BY <1>1, Amounts DEF ChargeInv, LifeInv
<1>8. m.cap = 0 => m.target <= a.allocated
  BY <1>1, <1>7
<1>9. CASE Grants(a, total, m.target, m.cap)
  BY <1>1, <1>4, <1>6, <1>8, <1>9 DEF Grants, Decision, Decided
<1>10. CASE ~Grants(a, total, m.target, m.cap)
  BY <1>1, <1>4, <1>6, <1>10 DEF Grants, Decision, Decided
<1>11. QED
  BY <1>9, <1>10

LEMMA CapStep ==
  ASSUME ChargeInv, [Next]_vars
  PROVE  CapRespected' /\ Finite'
<1>1. /\ Shape /\ LedgerTyped /\ Finite /\ NoEntry \in Entry /\ NoEntry.charged = 0
      /\ UserCap \in Nat
  BY EmptyRecords, ConstantsAssumption DEF ChargeInv, LifeInv, Shape, NoEntry
<1> SUFFICES ASSUME NEW o \in Owner
             PROVE  /\ OwnerTotal(o)' <= UserCap
                    /\ IsFiniteSet(Units([s \in Slug |-> entries[o][s].charged]))'
  BY DEF CapRespected, Finite
<1>2. OwnerTotal(o) <= UserCap
  BY DEF ChargeInv, CapRespected
<1>3. CASE UNCHANGED entries
  BY <1>1, <1>2, <1>3 DEF OwnerTotal, Finite
<1>4. ASSUME NEW h \in Generation, NEW e \in Entry, Enter(h, e),
             OwnerTotal(OwnerOf(h)) - EntryOf(h).charged + e.charged <= UserCap
      PROVE  /\ OwnerTotal(o)' <= UserCap
             /\ IsFiniteSet(Units([s \in Slug |-> entries[o][s].charged]))'
  BY <1>1, <1>2, <1>4, EnterTotals
<1>5. ASSUME NEW h \in Generation
      PROVE  /\ OwnerTotal(OwnerOf(h)) \in Nat /\ OwnerTotal(OwnerOf(h)) <= UserCap
             /\ EntryOf(h).charged \in Nat
  <2>1. OwnerOf(h) \in Owner /\ EntryOf(h) \in Entry
    BY <1>1, GenerationFields, EntryTyped
  <2>2. OwnerTotal(OwnerOf(h)) \in Nat
    BY <1>1, <2>1, FS_CardinalityType DEF Finite, OwnerTotal, Total
  <2>3. QED
    BY <2>1, <2>2 DEF ChargeInv, CapRespected, Entry
<1>6. CASE \E h \in Generation : Reserves(h)
  <2>1. PICK h \in Generation : Reserves(h)
    BY <1>6
  <2>2. PICK e \in Entry : Enter(h, e) /\ e.charged = Creates[h].size
    BY <2>1 DEF Reserves
  <2>3. ~(OwnerTotal(OwnerOf(h)) + Creates[h].size > UserCap) /\ Creates[h].size \in Nat
    BY <2>1, GenerationFields DEF Reserves
  <2>4. QED
    BY <1>1, <1>4, <1>5, <2>2, <2>3
<1>7. CASE \E h \in Generation : Relists(h)
  <2>1. PICK h \in Generation, e \in Entry : Enter(h, e) /\ e.charged = EntryOf(h).charged
    BY <1>7 DEF Relists
  <2>2. QED
    BY <1>4, <1>5, <2>1
<1>8. CASE \E h \in Generation : Unlists(h)
  <2>1. PICK h \in Generation : Enter(h, NoEntry)
    BY <1>8 DEF Unlists
  <2>2. OwnerTotal(OwnerOf(h)) - EntryOf(h).charged + 0 <= UserCap
    BY <1>1, <1>5
  <2>3. QED
    BY <1>1, <1>4, <2>1, <2>2
<1>9. CASE \E m \in Message : Settles(m)
  <2>1. PICK m \in Message : Settles(m)
    BY <1>9
  <2> DEFINE h == m.gen
             e == [EntryOf(h) EXCEPT !.charged = IF DecideAnswer(m) = "granted" THEN m.target ELSE @]
             total == OwnerTotal(OwnerOf(h))
  <2>2. /\ h \in Generation /\ m.target \in Nat
        /\ \/ /\ DecideAnswer(m) = "granted"
              /\ m.target <= account[h].allocated \/ total - account[h].allocated + m.target <= UserCap
           \/ DecideAnswer(m) = "refused"
    BY <2>1, SettlesAmount
  <2>3. Enter(h, e) /\ EntryOf(h) \in Entry /\ EntryOf(h).charged = account[h].allocated
    BY <1>1, <2>1, <2>2, EntryTyped DEF Settles, ArtifactDecide, ChargeInv, ChargeIsAllocation
  <2>4. e \in Entry /\ e.charged = IF DecideAnswer(m) = "granted" THEN m.target ELSE EntryOf(h).charged
    BY <2>2, <2>3 DEF Entry
  <2> HIDE DEF e
  <2>5. total - EntryOf(h).charged + e.charged <= UserCap
    BY <1>1, <1>5, <2>2, <2>3, <2>4
  <2>6. QED
    BY <1>4, <2>2, <2>3, <2>4, <2>5
<1>10. QED
  BY <1>1, <1>3, <1>6, <1>7, <1>8, <1>9, LedgerMoves, ReserveMoves

\* Whose record a cell's pending operation and row are about.
LEMMA Whose ==
  ASSUME LifeInv, NEW g \in Generation
  PROVE  LET s == SlugOf(g) IN
         /\ s \in Slug /\ g # None /\ AnchoredAt(s) /\ StagedAt(s)
         /\ HasPending(g) => Present(g) \/ (Removing(g) /\ row[s].gen = None)
         /\ Outstanding(s) /\ pending[s].gen # g => ~Present(g) /\ ~Removing(g)
         /\ handler[s].at \notin {"idle", "next"} => Outstanding(s)
<1>1. SlugOf(g) \in Slug /\ g # None
  BY GenerationFields
<1>2. AnchoredAt(SlugOf(g)) /\ StagedAt(SlugOf(g))
  BY <1>1 DEF LifeInv, Cells
<1>3. handler[SlugOf(g)].at \notin {"idle", "next"} => Outstanding(SlugOf(g))
  BY <1>1 DEF LifeInv, Shape, Named, Outstanding
<1>4. QED
  BY <1>1, <1>2, <1>3 DEF AnchoredAt, HasPending, Outstanding, Present, Removing

LEMMA NewRecord ==
  ASSUME LifeInv, [Next]_vars, NEW g \in Generation, Reserves(g)
  PROVE  ChargedFor(g)'
<1> DEFINE s == SlugOf(g)
<1>1. /\ create[g] = "new" /\ UNCHANGED <<pasteVars, late>>
      /\ account'[g] = [version |-> 0, allocated |-> Creates[g].size, target |-> Creates[g].size]
  BY DEF Reserves, Reserve, NoFault, netVars
<1>2. /\ ~Present(g) /\ \A m \in late : m.gen # g
      /\ s \in Slug
  BY <1>1, GenerationFields DEF LifeInv, Unborn
<1>3. ~HasPending(g)
  BY <1>1, <1>2, PendingBegan DEF HasPending, LifeInv
<1>4. Fresh(g)'
  BY <1>1 DEF Fresh
<1>5. ~Present(g)' /\ ~HasPending(g)' /\ \A m \in late' : m.gen # g
  BY <1>1, <1>2, <1>3 DEF pasteVars, Present, HasPending, Outstanding
<1>6. QED
  BY <1>4, <1>5 DEF ChargedFor, Steady, Deciding, Delayed

\* A copy left on its way is of a decision taken, or of the one asked for.
LEMMA DelayedStep ==
  ASSUME LifeInv, [Next]_vars, NEW g \in Generation, Delayed(g), Deciding(g), Listed(g),
         account'[g].version >= account[g].version
  PROVE  Delayed(g)'
<1> DEFINE s == SlugOf(g)
           q == pending[s]
<1> SUFFICES ASSUME NEW m \in late', m.type = "decide", m.gen = g
             PROVE  \/ m.version <= account'[g].version
                    \/ (HasPending(g) /\ m = StageRequest(SlugOf(g)))'
  BY DEF Delayed
<1>1. s \in Slug /\ AnchoredAt(s) /\ StagedAt(s)
  BY Whose
<1>2. late' \subseteq Message /\ account' \in [Generation -> FenceRecord]
  BY ShapeStep DEF LifeInv, Shape, NetTyped, LedgerTyped
<1>3. m.version \in Nat /\ account[g].version \in Nat /\ account'[g].version \in Nat
  BY <1>2, Amounts, <1>1 DEF LifeInv, Message, FenceRecord
<1>4. CASE m.version <= account[g].version
  BY <1>3, <1>4
<1>5. CASE HasPending(g) /\ m = StageRequest(s) /\ ~(m.version <= account[g].version)
  <2>1. q.stage = "decide" /\ m.version = q.version
    BY <1>5 DEF StageRequest
  <2>2. handler[s].at \notin {"granted", "refused"} /\ Outstanding(s) /\ q.gen = g
    BY <1>3, <1>5, <2>1 DEF Deciding, HasPending
  <2>3. Kept(s)
    <3>1. ~Written(s)
      <4>1. Present(g) \/ Removing(g)
        BY <1>1, <1>5, Whose DEF HasPending
      <4>2. Written(s) => row[s].gen = None /\ tombstone[s] = None
        BY DEF Written, MayPut
      <4>3. QED
        BY <4>1, <4>2, GenerationFields DEF Present, Removing
    <3>2. ~Begun(s)
      BY <1>1, <2>2, BegunAsks DEF LifeInv, Asks
    <3>3. ~Settling(s)
      BY <1>1, <2>1, <2>2, SettlingConcludes DEF LifeInv, Concludes, StagedAt
    <3>4. IdentityAnswers(s) => Kept(s)
      BY DEF IdentityAnswers, Kept
    <3>5. QED
      BY <1>1, <3>1, <3>2, <3>3, <3>4, CellMoves DEF LifeInv, Waits
  <2>4. pending'[s] = pending[s]
    BY <2>3 DEF Kept
  <2>5. (HasPending(g) /\ m = StageRequest(SlugOf(g)))'
    BY <1>5, <2>1, <2>4 DEF HasPending, Outstanding, StageRequest
  <2>6. QED
    BY <2>5
<1>6. CASE Left(m)
  <2>1. PICK x \in Slug : Outstanding(x) /\ m = StageRequest(x)
    BY <1>6 DEF Left, BareMessage
  <2>2. x = s /\ pending[s].gen = g
    BY <2>1, PendingBegan DEF StageRequest, LifeInv
  <2>3. UNCHANGED <<pending, row>>
    BY <1>6 DEF Left
  <2>4. (HasPending(g) /\ m = StageRequest(SlugOf(g)))'
    BY <2>1, <2>2, <2>3 DEF HasPending, Outstanding, StageRequest
  <2>5. QED
    BY <2>4
<1>7. QED
  BY <1>4, <1>5, <1>6, LateMoves DEF Delayed, LifeInv

LEMMA SameRecord ==
  ASSUME LifeInv, [Next]_vars, NEW g \in Generation, TargetsAt(SlugOf(g)), ChargedFor(g),
         Listed(g), account'[g] = account[g]
  PROVE  Fresh(g)' /\ Steady(g)' /\ Deciding(g)'
<1> DEFINE s == SlugOf(g)
           q == pending[s]
           a == account[g]
<1>1. /\ s \in Slug /\ g # None /\ AnchoredAt(s) /\ StagedAt(s)
      /\ HasPending(g) => Present(g) \/ (Removing(g) /\ row[s].gen = None)
      /\ Outstanding(s) /\ q.gen # g => ~Present(g) /\ ~Removing(g)
      /\ handler[s].at \notin {"idle", "next"} => Outstanding(s)
  BY Whose
<1>2. /\ row[s].version \in Nat /\ LiveOf(s) \in Nat /\ q.version \in Nat /\ q.target \in Nat
      /\ q.charge \in Nat /\ a.version \in Nat /\ a.allocated \in Nat
  BY <1>1, Amounts DEF LifeInv
<1>3. Fresh(g) /\ Steady(g) /\ Deciding(g)
  BY DEF ChargedFor
<1>4. ASSUME Kept(s)
      PROVE  /\ Fresh(g)' /\ Steady(g)' /\ (HasPending(g)' <=> HasPending(g))
             /\ UNCHANGED <<pending[s], row[s], LiveOf(s)>>
  BY <1>3, <1>4 DEF Kept, Fresh, Steady, HasPending, Outstanding, Present, Removing, LiveOf
<1>5. CASE Kept(s) /\ (UNCHANGED handler[s] \/ handler'[s].at \in {"idle", "call"})
  <2>1. Deciding(g)'
    BY <1>3, <1>4, <1>5 DEF Deciding
  <2>2. QED
    BY <1>4, <1>5, <2>1
<1>6. CASE IdentityAnswers(s)
  <2>1. Kept(s) /\ Outstanding(s) /\ handler'[s].at = StageAnswer(StageRequest(s))
    BY <1>1, <1>6, AnswerMoves DEF LifeInv
  <2>2. Deciding(g)'
    <3>1. CASE HasPending(g) /\ q.stage = "decide"
      <4> DEFINE m == StageRequest(s)
      <4>1. /\ m.type = "decide" /\ m.gen = g /\ m.version = q.version /\ m.target = q.target
        BY <3>1 DEF StageRequest, HasPending
      <4>2. ArtifactDecide(m)
        BY <1>6, <4>1 DEF IdentityAnswers, StageEffect
      <4>3. ~Decides(a, q.version)
        <5>1. ASSUME Decides(a, q.version)
              PROVE  account'[g].version = q.version
          <6>1. account' = [account EXCEPT ![g] = Decision(m)]
            BY <4>1, <4>2, <5>1 DEF ArtifactDecide
          <6>2. account'[g] = Decision(m)
            BY <6>1 DEF LifeInv, Shape, LedgerTyped
          <6>3. QED
            BY <4>1, <6>2 DEF Decision, Decided
        <5>2. QED
          BY <1>2, <5>1 DEF Decides
      <4>4. q.version = a.version /\ q.target = a.target
            /\ (a.allocated = q.target \/ (q.kind = "append" /\ a.allocated = LiveOf(s)))
        BY <1>3, <3>1, <4>3 DEF Deciding, Decides
      <4>5. DecideAnswer(m) = IF a.target = a.allocated THEN "granted" ELSE "refused"
        BY <1>1, <4>1, <4>3, <4>4 DEF DecideAnswer, FenceAnswer, Listed
      <4>6. handler'[s].at = DecideAnswer(m)
        BY <2>1, <4>1 DEF StageAnswer
      <4> HIDE DEF m
      <4>7. QED
        BY <1>4, <2>1, <4>4, <4>5, <4>6 DEF Deciding
    <3>2. CASE ~(HasPending(g) /\ q.stage = "decide")
      BY <1>4, <2>1, <3>2 DEF Deciding
    <3>3. QED
      BY <3>1, <3>2
  <2>3. QED
    BY <1>4, <2>1, <2>2
<1>7. CASE Written(s)
  <2>1. PICK h \in Generation :
           /\ SlugOf(h) = s /\ MayPut(h)
           /\ row'[s].gen = h /\ row'[s].version = 0
           /\ versions'[s] = <<[upload |-> h, charge |-> Creates[h].size, deleted |-> FALSE]>>
           /\ UNCHANGED <<pending[s], tombstone[s], handler[s]>>
    BY <1>7 DEF Written
  <2>2. row[s].gen = None /\ tombstone[s] = None /\ h # None
    BY <2>1, GenerationFields DEF MayPut
  <2>3. ~Outstanding(s) /\ ~Present(g) /\ ~Removing(g)
    BY <1>1, <2>2, PendingBegan, GenerationFields
       DEF AnchoredAt, Outstanding, LifeInv, Present, Removing
  <2>4. a = [version |-> 0, allocated |-> Creates[g].size, target |-> Creates[g].size]
    BY <1>3, <2>3 DEF Fresh
  <2>5. LiveOf(s)' = Creates[h].size
    BY <2>1, FirstCharge DEF LiveOf
  <2>6. Present(g)' <=> h = g
    BY <2>1 DEF Present
  <2>7. QED
    BY <2>1, <2>3, <2>4, <2>5, <2>6 DEF Fresh, Steady, Deciding, HasPending, Outstanding
<1>8. CASE Begun(s)
  <2>1. Asks(s)
    BY <1>1, <1>8, BegunAsks DEF LifeInv
  <2>2. tombstone[s] = None /\ ~Outstanding(s) /\ row[s].gen # None
    BY <1>1, <2>1 DEF Asks, AnchoredAt, Outstanding
  <2>3. CASE row[s].gen = g
    <3>1. a.version = row[s].version /\ a.allocated = LiveOf(s)
      BY <1>3, <2>2, <2>3 DEF Steady, Present
    <3>2. Present(g)' \/ Removing(g)'
      BY <2>1, <2>3 DEF Asks, Present, Removing
    <3>3. (Present(g) /\ pending[s].stage = "project")' =>
             UNCHANGED <<row[s].version, versions[s]>>
      BY <1>1, <2>1 DEF Asks, Present
    <3>4. Steady(g)'
      BY <2>1, <3>1, <3>3 DEF Steady, Asks, Outstanding, LiveOf, Present
    <3>5. Deciding(g)'
      BY <1>2, <2>1, <3>1 DEF Deciding, Asks, LiveOf, DropKinds
    <3>6. QED
      BY <3>2, <3>4, <3>5 DEF Fresh
  <2>4. CASE row[s].gen # g
    <3>1. ~Present(g) /\ ~Removing(g) /\ ~Present(g)' /\ ~Removing(g)'
      BY <1>1, <2>1, <2>2, <2>4 DEF Present, Removing, Asks
    <3>2. ~HasPending(g)'
      BY <2>1, <2>4 DEF Asks, HasPending
    <3>3. QED
      BY <1>3, <3>1, <3>2 DEF Fresh, Steady, Deciding
  <2>5. QED
    BY <2>3, <2>4
<1>9. CASE Settling(s)
  <2>1. Concludes(s)
    BY <1>1, <1>9, SettlingConcludes DEF LifeInv
  <2>2. Outstanding(s) /\ row'[s].gen = row[s].gen
    BY <2>1 DEF Concludes
  <2>3. CASE q.gen # g
    <3>1. ~Present(g) /\ ~Removing(g)
      BY <1>1, <2>2, <2>3
    <3>2. ~Present(g)'
      BY <2>2, <3>1 DEF Present
    <3>3. ~Removing(g)'
      BY <1>1, <2>1, <3>1 DEF Concludes, Removing
    <3>4. ~HasPending(g)'
      BY <2>1, <2>3 DEF Concludes, HasPending, Outstanding
    <3>5. QED
      BY <1>3, <3>1, <3>2, <3>3, <3>4 DEF Fresh, Steady, Deciding
  <2>4. CASE q.gen = g
    <3>1. HasPending(g) /\ q.kind # "none"
      BY <2>2, <2>4 DEF HasPending, Outstanding
    <3>2. handler[s].at \notin {"absent", "dropped"}
      BY <1>1, <2>4 DEF StagedAt
    <3>3. q.kind # "remove" => row[s].gen = g
      BY <1>1, <2>4, <3>1 DEF AnchoredAt
    <3>4. CASE handler[s].at = "refused"
      <4>1. q.stage = "decide" /\ q.kind \notin DropKinds
        BY <1>1, <3>4 DEF StagedAt
      <4>2. q.version = a.version /\ a.allocated = LiveOf(s)
        BY <1>3, <3>1, <3>4, <4>1 DEF Deciding
      <4>3. /\ pending'[s].kind = "none" /\ FencedAt(s) /\ UNCHANGED versions[s]
        BY <2>1, <3>4 DEF Concludes
      <4>4. Present(g)' /\ row'[s].version = q.version /\ LiveOf(s)' = LiveOf(s)
        BY <1>1, <2>2, <3>3, <4>1, <4>3 DEF FencedAt, Present, LiveOf, DropKinds
      <4>5. QED
        BY <4>2, <4>3, <4>4 DEF Fresh, Steady, Deciding, HasPending, Outstanding
    <3>5. CASE handler[s].at = "projected"
      <4>1. q.stage = "project" /\ q.kind \notin DropKinds
        BY <1>1, <2>2, <3>5 DEF StagedAt
      <4>2. pending'[s].kind = "none" /\ UNCHANGED <<row[s], versions[s]>>
        BY <2>1, <3>5 DEF Concludes
      <4>3. Present(g) /\ Present(g)' /\ LiveOf(s)' = LiveOf(s)
        BY <3>3, <4>1, <4>2 DEF Present, DropKinds, LiveOf
      <4>4. QED
        BY <1>3, <4>1, <4>2, <4>3 DEF Fresh, Steady, Deciding, HasPending, Outstanding
    <3>6. CASE handler[s].at = "granted"
      <4>1. q.stage = "decide"
        BY <1>1, <3>6 DEF StagedAt
      <4>2. q.version = a.version /\ a.allocated = q.target
        BY <1>3, <3>1, <3>6, <4>1 DEF Deciding
      <4>3. Present(g)' \/ Removing(g)'
        BY <1>1, <2>1, <2>2, <3>1, <3>6 DEF Concludes, Present, Removing
      <4>4. /\ q.kind \notin DropKinds \union {"append"} => q.target = LiveOf(s)
            /\ q.kind = "append" => q.target = LiveOf(s) + q.charge
        BY <2>2, <4>1 DEF TargetsAt
      <4>5. CASE q.kind = "append" /\ pending'[s].kind = "append"
        <5>1. /\ pending'[s].stage = "project" /\ FencedAt(s) /\ LiveOf(s)' = LiveOf(s) + q.charge
          BY <2>1, <3>6, <4>5 DEF Concludes
        <5>2. row'[s].version = q.version
          BY <1>1, <3>3, <4>5, <5>1 DEF FencedAt
        <5>3. QED
          BY <4>2, <4>3, <4>4, <4>5, <5>1, <5>2 DEF Fresh, Steady, Deciding
      <4>6. CASE q.kind = "append" /\ pending'[s].kind # "append"
        <5>1. /\ pending'[s].kind = "abandon" /\ pending'[s].stage = "decide"
              /\ pending'[s].version = q.version + 1 /\ UNCHANGED versions[s]
              /\ handler'[s].at = "call"
          BY <2>1, <3>6, <4>1, <4>6 DEF Concludes
        <5>2. LiveOf(s)' = LiveOf(s) /\ a.allocated >= LiveOf(s)
          BY <1>2, <4>2, <4>4, <4>6, <5>1 DEF LiveOf
        <5>3. QED
          BY <4>2, <4>3, <5>1, <5>2 DEF Fresh, Steady, Deciding, Outstanding
      <4>7. CASE q.kind # "append"
        <5>1. /\ pending'[s].kind = q.kind /\ pending'[s].stage = AfterDecide(q.kind) /\ FencedAt(s)
              /\ UNCHANGED versions[s]
          BY <2>1, <3>6, <4>7 DEF Concludes
        <5>2. /\ pending'[s].stage # "decide" /\ Outstanding(s)'
              /\ pending'[s].stage = "project" => q.kind \notin DropKinds
          BY <3>1, <5>1 DEF AfterDecide, Outstanding
        <5>3. q.kind \notin DropKinds => /\ row'[s].version = q.version
                                         /\ LiveOf(s)' = LiveOf(s) /\ q.target = LiveOf(s)
          BY <1>1, <3>3, <4>4, <4>7, <5>1 DEF FencedAt, LiveOf, DropKinds
        <5>4. QED
          BY <4>2, <4>3, <5>2, <5>3 DEF Fresh, Steady, Deciding
      <4>8. QED
        BY <4>5, <4>6, <4>7
    <3>7. QED
      BY <2>1, <3>2, <3>4, <3>5, <3>6 DEF Concludes
  <2>5. QED
    BY <2>3, <2>4
<1>10. QED
  BY <1>1, <1>5, <1>6, <1>7, <1>8, <1>9, CellMoves DEF Waits, LifeInv

\* A step that moves a record leaves every row and pending operation alone.
LEMMA CellsHold ==
  ASSUME Shape, [Next]_vars, ~UNCHANGED account, NEW s \in Slug
  PROVE  Kept(s) /\ (UNCHANGED handler[s] \/ IdentityAnswers(s))
<1>1. ASSUME NEW g \in Generation, CreateStep(g)
      PROVE  UNCHANGED pasteVars
  BY <1>1 DEF CreateStep, Reserve, Put, PutLost, Confirm, Release, Forgotten, identityVars
<1>2. ASSUME NEW o \in Owner, IdentityStep(o)
      PROVE  UNCHANGED pasteVars
  BY <1>2 DEF IdentityStep, ResolveIntent, AbortCreate, IntentAnswered, ResolverFails
<1>3. ASSUME NEW x \in Slug, SagaStep(x)
      PROVE  IdentityAnswers(x)
  BY <1>3 DEF SagaStep, IdentityAnswers, CallFails, PasteStops, Alarm, GoesOn, Project, Retry,
              SettleAbsent, Refuse, Publish, AbandonAppend, Advance, Clear, FinishDrop, identityVars
<1>4. ASSUME NEW p \in Op, RequestStep(p)
      PROVE  FALSE
  BY <1>4
     DEF RequestStep, Issue, Replay, Busy, Resume, Mismatch, StartAppend, AppendRefused,
         StartDelete, DeleteNothing, StartPin, StartRemove, StartFail, StartProjection, Project,
         Answered, identityVars
<1>5. ASSUME NEW m \in late, LateArrives(m)
      PROVE  UNCHANGED pasteVars
  BY <1>5 DEF LateArrives, identityVars
<1>6. CASE UNCHANGED pasteVars
  BY <1>6 DEF pasteVars, Kept
<1>7. ASSUME NEW x \in Slug, IdentityAnswers(x)
      PROVE  Kept(s) /\ (UNCHANGED handler[s] \/ IdentityAnswers(s))
  <2>1. CASE x = s
    BY <1>7, <2>1 DEF IdentityAnswers, Kept
  <2>2. CASE x # s
    BY <1>7, <2>2, SagaElsewhere
  <2>3. QED
    BY <2>1, <2>2
<1>8. CASE UNCHANGED vars
  BY <1>8 DEF vars, identityVars
<1>9. CASE Next
  BY <1>1, <1>2, <1>3, <1>4, <1>5, <1>6, <1>7, <1>9 DEF Next
<1>10. QED
  BY <1>8, <1>9

LEMMA DecidedRecord ==
  ASSUME ChargeInv, [Next]_vars, NEW m \in Message, Settles(m)
  PROVE  ChargedFor(m.gen)'
<1> DEFINE g == m.gen
           s == SlugOf(g)
           q == pending[s]
           a == account[g]
<1>1. /\ g \in Generation /\ s \in Slug /\ HasPending(g) /\ m = StageRequest(s)
      /\ q.stage = "decide" /\ m.version = q.version /\ m.target = q.target /\ m.cap = q.cap
      /\ q.version = a.version + 1 /\ handler[s].at \notin {"granted", "refused"}
      /\ q.kind \notin DropKinds => a.allocated >= LiveOf(s)
      /\ q.kind = "append" => a.allocated = LiveOf(s)
      /\ q.kind \notin DropKinds \union {"append"} => q.target = LiveOf(s)
      /\ q.kind \in DropKinds => q.target = 0
  BY SettlesPending
<1>2. /\ account'[g].version = q.version /\ account'[g].target = q.target
      /\ \/ DecideAnswer(m) = "granted" /\ account'[g].allocated = q.target
         \/ /\ DecideAnswer(m) = "refused" /\ account'[g].allocated = a.allocated
            /\ ~(q.target <= a.allocated)
  BY <1>1, SettlesAmount
<1>3. a.version \in Nat /\ a.allocated \in Nat /\ q.target \in Nat /\ LiveOf(s) \in Nat
  BY <1>1, Amounts DEF ChargeInv, LifeInv
<1>4. Kept(s) /\ (UNCHANGED handler[s] \/ IdentityAnswers(s))
  <2>1. ~UNCHANGED account
    BY <1>1, <1>2, <1>3
  <2>2. QED
    BY <1>1, <2>1, CellsHold DEF ChargeInv, LifeInv
<1>5. ASSUME ~(DecideAnswer(m) = "granted")
      PROVE  q.kind = "append"
  BY <1>1, <1>2, <1>3, <1>5
<1>6. handler'[s].at = "granted" => DecideAnswer(m) = "granted"
  <2>1. ASSUME IdentityAnswers(s)
        PROVE  handler'[s].at = DecideAnswer(m)
    <3>1. handler'[s].at = StageAnswer(m) /\ m.type = "decide"
      BY <1>1, <2>1, AnswerMoves DEF Settles, ChargeInv, LifeInv
    <3>2. QED
      BY <3>1 DEF StageAnswer
  <2>2. QED
    BY <1>1, <1>4, <2>1
<1>7. handler'[s].at = "refused" => DecideAnswer(m) = "refused"
  <2>1. ASSUME IdentityAnswers(s)
        PROVE  handler'[s].at = DecideAnswer(m)
    <3>1. handler'[s].at = StageAnswer(m) /\ m.type = "decide"
      BY <1>1, <2>1, AnswerMoves DEF Settles, ChargeInv, LifeInv
    <3>2. QED
      BY <3>1 DEF StageAnswer
  <2>2. QED
    BY <1>1, <1>4, <2>1
<1>8. /\ pending'[s] = q /\ LiveOf(s)' = LiveOf(s) /\ HasPending(g)'
      /\ Present(g)' \/ (Removing(g)' /\ Outstanding(s)')
  <2>1. Present(g) \/ Removing(g)
    BY <1>1, Whose DEF ChargeInv
  <2>2. QED
    BY <1>1, <1>4, <2>1 DEF Kept, LiveOf, HasPending, Outstanding, Present, Removing
<1>9. Fresh(g)' /\ Steady(g)'
  BY <1>1, <1>8 DEF Fresh, Steady, HasPending
<1>10. Deciding(g)'
  BY <1>1, <1>2, <1>5, <1>6, <1>7, <1>8 DEF Deciding
<1>11. Delayed(g)'
  <2>1. Delayed(g) /\ Deciding(g) /\ Listed(g)
    BY <1>1 DEF ChargeInv, ChargedFor, Settles
  <2>2. account'[g].version >= a.version
    BY <1>1, <1>2, <1>3
  <2>3. QED
    BY <1>1, <2>1, <2>2, DelayedStep DEF ChargeInv
<1>12. QED
  BY <1>9, <1>10, <1>11 DEF ChargedFor

LEMMA ChargeInit == Init => ChargeInv
<1> SUFFICES ASSUME Init
             PROVE  ChargeInv
  OBVIOUS
<1>1. LifeInv /\ ChargeIsAllocation
  BY LifeInit, LedgerInit DEF LedgerInv
<1>2. \A g \in Generation : ~Listed(g)
  BY GenerationFields DEF Init, Listed, EntryOf, NoEntry
<1>3. \A s \in Slug : TargetsAt(s)
  BY DEF Init, TargetsAt, Outstanding, NoPending
<1>4. ASSUME NEW o \in Owner
      PROVE  /\ IsFiniteSet(Units([s \in Slug |-> entries[o][s].charged]))
             /\ OwnerTotal(o) <= UserCap
  <2>1. [s \in Slug |-> entries[o][s].charged] = [s \in Slug |-> 0]
    BY DEF Init, NoEntry
  <2>2. Units([s \in Slug |-> 0]) = {}
    BY DEF Units
  <2>3. OwnerTotal(o) = 0
    BY <2>1, TotalZero DEF OwnerTotal
  <2>4. IsFiniteSet(Units([s \in Slug |-> entries[o][s].charged]))
    <3>1. IsFiniteSet(Units([s \in Slug |-> 0]))
      BY <2>2, FS_EmptySet
    <3>2. QED
      BY <2>1, <3>1, Zenon
  <2>5. UserCap \in Nat
    BY ConstantsAssumption
  <2>6. QED
    BY <2>3, <2>4, <2>5
<1>5. QED
  BY <1>1, <1>2, <1>3, <1>4 DEF ChargeInv, Finite, CapRespected

LEMMA ChargeStep == ChargeInv /\ [Next]_vars => ChargeInv'
<1> SUFFICES ASSUME ChargeInv, [Next]_vars
             PROVE  ChargeInv'
  OBVIOUS
<1>1. LifeInv' /\ ChargeIsAllocation'
  BY LifeStep, LedgerNext DEF ChargeInv, LifeInv, LedgerInv
<1>2. CapRespected' /\ Finite'
  BY CapStep
<1>3. \A s \in Slug : TargetsAt(s)'
  BY TargetsStep DEF ChargeInv
<1>4. ASSUME NEW g \in Generation, Listed(g)'
      PROVE  ChargedFor(g)'
  <2>1. SlugOf(g) \in Slug
    BY GenerationFields
  <2>2. CASE Reserves(g)
    BY <2>2, NewRecord DEF ChargeInv
  <2>3. CASE Listed(g) /\ account'[g] = account[g]
    <3>1. ChargedFor(g) /\ TargetsAt(SlugOf(g)) /\ account[g].version \in Nat
      BY <2>1, <2>3, Amounts DEF ChargeInv, LifeInv
    <3>2. account'[g].version >= account[g].version
      BY <2>3, <3>1
    <3>3. QED
      BY <2>3, <3>1, <3>2, SameRecord, DelayedStep DEF ChargeInv, ChargedFor
  <2>4. CASE \E m \in Message : m.gen = g /\ Settles(m)
    BY <2>4, DecidedRecord
  <2>5. QED
    BY <1>4, <2>2, <2>3, <2>4, ListedMoves DEF ChargeInv, LifeInv
<1>5. QED
  BY <1>1, <1>2, <1>3, <1>4 DEF ChargeInv

\* So records, targets and charges stay tied, along every run (artifactdecide,
\* fence, the alarm of the Paste cell).
THEOREM ChargeInvariant == Spec => []ChargeInv
<1>1. QED
  BY ChargeInit, ChargeStep, PTL DEF Spec

\* No owner is charged above the quota: growth is granted only under the cap,
\* and what is granted without one never asks for more than is allocated
\* (reserve, artifactDecide).
THEOREM AlwaysCapRespected == Spec => []CapRespected
<1>1. ChargeInv => CapRespected
  BY DEF ChargeInv
<1>2. QED
  BY <1>1, ChargeInvariant, PTL

-----------------------------------------------------------------------------
(* Incarnations.                                                           *)

\* A copy is gone only when it has arrived.
LEMMA LateGoes ==
  ASSUME [Next]_vars, NEW m \in late \ late'
  PROVE  LateArrives(m)
<1>1. ASSUME NEW g \in Generation, CreateStep(g)
      PROVE  late \subseteq late'
  BY <1>1
     DEF CreateStep, Reserve, Put, PutLost, Confirm, Release, Forgotten, NoFault, netVars, LateCopy
<1>2. ASSUME NEW o \in Owner, IdentityStep(o)
      PROVE  late \subseteq late'
  BY <1>2
     DEF IdentityStep, ResolveIntent, AbortCreate, IntentAnswered, ResolverFails, NoFault, netVars,
         LateCopy
<1>3. ASSUME NEW s \in Slug, SagaStep(s)
      PROVE  late \subseteq late'
  BY <1>3
     DEF SagaStep, IdentityAnswers, CallFails, PasteStops, Alarm, GoesOn, Project, Retry,
         SettleAbsent, Refuse, Publish, AbandonAppend, Advance, Clear, FinishDrop, NoFault,
         netVars, LateCopy
<1>4. ASSUME NEW p \in Op, RequestStep(p)
      PROVE  late \subseteq late'
  BY <1>4
     DEF RequestStep, Issue, Replay, Busy, Resume, Mismatch, StartAppend, AppendRefused,
         StartDelete, DeleteNothing, StartPin, StartRemove, StartFail, StartProjection, Project,
         Answered, NoFault, netVars
<1>5. ASSUME NEW x \in late, LateArrives(x)
      PROVE  LateArrives(m)
  BY <1>5 DEF LateArrives
<1>6. CASE UNCHANGED vars
  BY <1>6 DEF vars, netVars
<1>7. QED
  BY <1>1, <1>2, <1>3, <1>4, <1>5, <1>6 DEF Next

\* A stage that arrives moves the record and the entry of its own incarnation.
LEMMA StageApart ==
  ASSUME LedgerTyped, NEW m \in Message, Asking(m), StageEffect(m),
         NEW g \in Generation \ {m.gen}
  PROVE  account'[g] = account[g] /\ (Listed(g) => EntryOf(g)' = EntryOf(g))
<1>1. m.gen \in Generation
  BY DEF Message
<1>2. CASE UNCHANGED <<entries, account>>
  BY <1>2 DEF EntryOf
<1>3. ASSUME NEW e \in Entry, Enter(m.gen, e), e.gen \in {m.gen, None},
             EntryOf(m.gen).gen \in {m.gen, None}
      PROVE  Listed(g) => EntryOf(g)' = EntryOf(g)
  BY <1>1, <1>3, EnterListed
<1>4. CASE Relists(m.gen)
  BY <1>3, <1>4 DEF Relists, Listed
<1>5. CASE Unlists(m.gen)
  <2>1. NoEntry \in Entry /\ NoEntry.gen = None
    BY EmptyRecords DEF NoEntry
  <2>2. QED
    BY <1>3, <1>5, <2>1 DEF Unlists
<1>6. CASE Settles(m)
  <2> DEFINE e == [EntryOf(m.gen) EXCEPT !.charged =
                     IF DecideAnswer(m) = "granted" THEN m.target ELSE @]
  <2>1. /\ m.target \in Nat /\ EntryOf(m.gen) \in Entry /\ EntryOf(m.gen).gen = m.gen
    BY <1>1, <1>6, EntryTyped DEF Message, Settles, Listed
  <2>2. e \in Entry /\ e.gen = m.gen /\ Enter(m.gen, e)
    BY <1>6, <2>1 DEF Entry, Settles, ArtifactDecide
  <2>3. account'[g] = account[g]
    BY <1>1, <1>6 DEF Settles, ArtifactDecide, LedgerTyped
  <2> HIDE DEF e
  <2>4. QED
    BY <1>3, <2>1, <2>2, <2>3
<1>7. QED
  BY <1>2, <1>4, <1>5, <1>6, StageMoves

LEMMA ApartStep ==
  ASSUME Shape, [Next]_vars
  PROVE  \A m \in late \ late' : \A g \in Generation \ {m.gen} :
            /\ account'[g] = account[g]
            /\ Listed(g) => EntryOf(g)' = EntryOf(g)
<1> SUFFICES ASSUME NEW m \in late \ late', NEW g \in Generation \ {m.gen}
             PROVE  account'[g] = account[g] /\ (Listed(g) => EntryOf(g)' = EntryOf(g))
  OBVIOUS
<1>1. LateArrives(m) /\ m \in Message /\ LedgerTyped /\ Asking(m)
  BY LateGoes DEF Shape, NetTyped, Asking
<1>2. CASE StageEffect(m)
  BY <1>1, <1>2, StageApart
<1>3. CASE ~StageEffect(m)
  BY <1>1, <1>3 DEF LateArrives, identityVars, EntryOf
<1>4. QED
  BY <1>2, <1>3

\* A delayed decision, projection or drop of one incarnation of a slug touches
\* no other incarnation's record or entry, whatever else is under way
\* (artifactdecide, artifactproject, artifactdrop).
THEOREM AlwaysIncarnationsApart == Spec => IncarnationsApart
<1>1. Shape /\ [Next]_vars =>
        [\A m \in late \ late' : \A g \in Generation \ {m.gen} :
            /\ account'[g] = account[g]
            /\ Listed(g) => EntryOf(g)' = EntryOf(g)]_vars
  BY ApartStep
<1>2. QED
  BY <1>1, ShapeInvariant, PTL DEF Spec, IncarnationsApart

-----------------------------------------------------------------------------
(* What is visible.                                                        *)

\* No put of the generation can write its row.
Barred(g) == g \in aborted \/ (~Removals /\ row[SlugOf(g)].gen # None)

\* An artifact that will not be visible again.
Ended(g) == ~Visible(g) /\ (~PutWaits(g) \/ Barred(g))

\* The creates whose puts may still write a row hold their reservation.
Reserved == \A g \in Generation :
    /\ create[g] # "new" /\ PutWaits(g) => Listed(g) \/ Barred(g)
    /\ create[g] = "release" => ~Present(g) /\ (~LatePut(g) \/ Barred(g))
    /\ g \in aborted => create[g] # "new"

FoundAbsent == \A o \in Owner : resolver[o].gen # None /\ resolver[o].found = "absent"
    => resolver[o].gen \in aborted

DropsEnded ==
    /\ \A m \in late : m.type = "drop" => Ended(m.gen)
    /\ \A s \in Slug : pending[s].kind \in DropKinds => Ended(pending[s].gen)

Asked ==
    /\ \A s \in Slug, p \in Op : handler[s].then = p => caller[p] # "idle"
    /\ \A p \in Op : caller[p] # "idle" => EarlyOps \/ create[GenOf(p)] \notin {"new", "put", "retry"}
    /\ \A s \in Slug : pending[s].kind = "remove" => Removals
    /\ \A m \in late : m.type \in LateKinds

ReadyNotFailed == \A s \in Slug : \A p \in Op :
    handler[s].then = p /\ KindOf(p) = "ready" => ~Failed(s)

VisibleListed == \A g \in Generation : Visible(g) => Listed(g)

VisibleInv ==
    AbortFences /\ Asked /\ Reserved /\ FoundAbsent
    /\ DropsEnded /\ ReadyNotFailed /\ VisibleListed

\* An artifact is removed only once no put of its create can follow.
SettledRemovals == ~Removals \/ ("put" \notin LateKinds /\ ~EarlyOps)

-----------------------------------------------------------------------------
(* What the owner's list shows.                                            *)

Matches(s, l) ==
    /\ l.status = row[s].status /\ l.served = row[s].served
    /\ l.pinned = row[s].pinned /\ l.name = row[s].name
    /\ l.latest = Len(versions[s])
Agrees(g) == Matches(SlugOf(g), EntryOf(g).listing)

\* Nothing that changes the row is under way, or all of it has been projected.
Presented(s) ==
    \/ ~Outstanding(s) \/ handler[s].at = "projected"
    \/ pending[s].kind = "append" /\ pending[s].stage = "decide"

\* The version count a projection will carry.
LatestAt(s) == LET q == pending[s] IN
    Outstanding(s) /\ q.kind \notin DropKinds =>
       q.latest = Len(versions[s]) + IF q.kind = "append" /\ q.stage = "decide" THEN 1 ELSE 0

\* An entry is listed as the row that its create may still put.
FirstListing(g) == [status |-> Creates[g].status, served |-> 1, latest |-> 1,
                    pinned |-> 0, name |-> 0]
Awaited(g) == Listed(g) /\ ~Present(g) /\ ~Removing(g) /\ PutWaits(g) /\ ~Barred(g)

\* A status that recovery found, or that the create asked for, is still true.
StatusFound == \A o \in Owner : LET a == resolver[o] IN
    a.gen # None /\ a.found \notin {"asking", "absent"} /\ Visible(a.gen) =>
       a.found \in {"pending", row[SlugOf(a.gen)].status}
StatusAsked == \A g \in Generation : Visible(g) =>
    /\ row[SlugOf(g)].status \in {"pending", "ready"}
    /\ Creates[g].status = "ready" => row[SlugOf(g)].status = "ready"

ListingInv ==
    /\ \A g \in Generation : Visible(g) /\ Presented(SlugOf(g)) => Agrees(g)
    /\ \A g \in Generation : Awaited(g) => EntryOf(g).listing = FirstListing(g)
    /\ \A s \in Slug : LatestAt(s)
    /\ StatusFound /\ StatusAsked
-----------------------------------------------------------------------------
(* What is visible, step by step.                                          *)

LEMMA CreateMoves ==
  ASSUME Shape, [Next]_vars, NEW g \in Generation
  PROVE  /\ create'[g] \in {"new", "put", "retry"} => create[g] \in {"new", "put", "retry"}
         /\ ~UNCHANGED create[g] =>
               /\ UNCHANGED caller
               /\ Reserve(g) \/ Put(g) \/ PutLost(g) \/ Confirm(g) \/ Release(g) \/ Forgotten(g)
<1>1. create \in [Generation -> {"new", "put", "retry", "confirm", "release", "done", "failed"}]
  BY DEF Shape, FrontTyped
<1>2. ASSUME NEW h \in Generation, CreateStep(h)
      PROVE  UNCHANGED caller /\ \A x \in Generation \ {h} : UNCHANGED create[x]
  BY <1>1, <1>2 DEF CreateStep, Reserve, Put, PutLost, Confirm, Release, Forgotten
<1>3. (\E h \in Generation : CreateStep(h)) \/ UNCHANGED create
  BY RecoveryMoves
<1>4. CASE UNCHANGED create[g]
  BY <1>4
<1>5. CASE ~UNCHANGED create[g]
  <2>1. CreateStep(g) /\ UNCHANGED caller
    BY <1>2, <1>3, <1>5
  <2>2. QED
    BY <1>1, <1>5, <2>1 DEF CreateStep, Reserve, Put, PutLost, Confirm, Release, Forgotten
<1>6. QED
  BY <1>4, <1>5

\* A put that is over is over for good.
LEMMA PutWaitsStays ==
  ASSUME Shape, [Next]_vars, NEW g \in Generation, PutWaits(g)'
  PROVE  PutWaits(g) /\ (LatePut(g)' => LatePut(g) \/ create[g] \in {"put", "retry"})
<1>1. create'[g] \in {"new", "put", "retry"} => PutWaits(g)
  BY CreateMoves DEF PutWaits
<1>2. LatePut(g)' => LatePut(g) \/ create[g] \in {"put", "retry"}
  <2>1. ASSUME NEW m \in late', m.type = "put", m.gen = g
        PROVE  LatePut(g) \/ create[g] \in {"put", "retry"}
    <3>1. CASE m \in late
      BY <2>1, <3>1 DEF LatePut
    <3>2. CASE Left(m)
      <4>1. \A s \in Slug : pending[s].stage \in Stages
        BY Amounts
      <4>2. QED
        BY <2>1, <3>2, <4>1 DEF Left, BareMessage, StageRequest, Stages
    <3>3. QED
      BY <3>1, <3>2, LateMoves
  <2>2. QED
    BY <2>1 DEF LatePut
<1>3. QED
  BY <1>1, <1>2 DEF PutWaits

LEMMA AbortMoves ==
  ASSUME Shape, Unborn, [Next]_vars
  PROVE  /\ aborted \subseteq aborted'
         /\ \A g \in Generation : g \in aborted' => g \in aborted \/ create[g] # "new"
<1>1. \A o \in Owner : AbortCreate(o) =>
         aborted' = Fencing(resolver[o].gen) /\ resolver[o].gen \in Generation
  BY DEF AbortCreate, Shape, IntentsTyped, Answer
<1>2. \A m \in late : LateArrives(m) => aborted' = Fencing(m.gen) \/ UNCHANGED aborted
  BY DEF LateArrives, pasteVars
<1>3. \A m \in late : m.gen \in Generation
  BY DEF Shape, NetTyped, Message
<1>4. \/ UNCHANGED aborted \/ \E o \in Owner : AbortCreate(o)
      \/ \E m \in late : LateArrives(m)
  BY RecoveryMoves
<1>5. QED
  BY <1>1, <1>2, <1>3, <1>4 DEF Fencing, Unborn

LEMMA BarredStays ==
  ASSUME Shape, Cells, Unborn, [Next]_vars, NEW g \in Generation, Barred(g)
  PROVE  Barred(g)' /\ ~MayPut(g)
<1> DEFINE s == SlugOf(g)
<1>1. s \in Slug
  BY GenerationFields
<1>2. CASE g \in aborted
  BY <1>2, AbortMoves DEF Barred, MayPut
<1>3. CASE ~Removals /\ row[s].gen # None
  <2>1. ~MayPut(g)
    BY <1>3 DEF MayPut
  <2>2. row'[s].gen # None
    <3>1. Written(s) => row'[s].gen # None
      BY GenerationFields DEF Written
    <3>2. Begun(s) => row'[s].gen # None
      BY <1>1, <1>3, BegunAsks DEF Asks
    <3>3. Settling(s) => row'[s].gen # None
      BY <1>1, <1>3, SettlingConcludes DEF Concludes
    <3>4. Kept(s) \/ IdentityAnswers(s) => row'[s].gen # None
      BY <1>3 DEF Kept, IdentityAnswers
    <3>5. QED
      BY <1>1, <3>1, <3>2, <3>3, <3>4, CellMoves DEF Waits
  <2>3. QED
    BY <1>3, <2>1, <2>2 DEF Barred, Removals
<1>4. QED
  BY <1>2, <1>3 DEF Barred

LEMMA CallerMoves ==
  ASSUME Shape, Asked, [Next]_vars, NEW p \in Op
  PROVE  /\ caller'[p] # "idle" => caller[p] # "idle" \/ Issue(p)
         /\ caller[p] # "idle" => caller'[p] # "idle"
<1>1. caller \in [Op -> {"idle", "asked", "ok", "refused"}]
  BY DEF Shape, FrontTyped
<1>2. ASSUME NEW r \in Op, RequestStep(r)
      PROVE  \/ UNCHANGED caller
             \/ Issue(r) /\ caller' = [caller EXCEPT ![r] = "asked"]
             \/ /\ caller[r] # "idle"
                /\ \E answer \in {"ok", "refused"} : caller' = [caller EXCEPT ![r] = answer]
  <2>1. \A answer : Answered(r, answer) => caller' = [caller EXCEPT ![r] = answer]
    BY DEF Answered, Tell
  <2>2. \A kind : Turn(r, kind) => caller[r] = "asked"
    BY DEF Turn, Delivered
  <2>3. CASE Replay(r) \/ Busy(r) \/ Mismatch(r) \/ AppendRefused(r) \/ DeleteNothing(r)
    BY <2>1, <2>2, <2>3 DEF Replay, Busy, Mismatch, AppendRefused, DeleteNothing, Delivered
  <2>4. CASE StartProjection(r)
    BY <2>2, <2>4 DEF StartProjection, Project, Tell
  <2>5. QED
    BY <1>2, <2>3, <2>4
       DEF RequestStep, Issue, Resume, StartAppend, StartDelete, StartPin, StartRemove, StartFail,
           frontVars
<1>3. ASSUME NEW s \in Slug, GoesOn(s)
      PROVE  \/ UNCHANGED caller
             \/ \E r \in Op : caller[r] # "idle" /\ caller' = [caller EXCEPT ![r] = "ok"]
  <2>1. handler[s].then \in Op /\ caller[handler[s].then] # "idle"
    BY <1>3 DEF GoesOn, Shape, Named, Asked
  <2>2. QED
    BY <1>3, <2>1 DEF GoesOn, Project, Tell, frontVars
<1>4. \/ UNCHANGED caller
      \/ \E r \in Op : RequestStep(r)
      \/ \E s \in Slug : GoesOn(s)
  BY DEF Next, CreateStep, Reserve, Put, PutLost, Confirm, Release, Forgotten,
         IdentityStep, ResolveIntent, AbortCreate, IntentAnswered, ResolverFails,
         SagaStep, IdentityAnswers, CallFails, PasteStops, Alarm, Retry,
         SettleAbsent, Refuse, Publish, AbandonAppend, Advance, Clear, FinishDrop,
         LateArrives, frontVars, vars
<1>5. QED
  BY <1>1, <1>2, <1>3, <1>4

\* The mutation that waits for what it found pending.
LEMMA ThenMoves ==
  ASSUME Shape, [Next]_vars, NEW s \in Slug
  PROVE  \/ handler'[s].then \in {None, handler[s].then}
         \/ \E p \in Op : /\ handler'[s].then = p /\ caller[p] = "asked" /\ UNCHANGED row
                          /\ KindOf(p) = "ready" => row[s].status = "pending"
<1> DEFINE Goal ==
         \/ handler'[s].then \in {None, handler[s].then}
         \/ \E p \in Op : /\ handler'[s].then = p /\ caller[p] = "asked" /\ UNCHANGED row
                          /\ KindOf(p) = "ready" => row[s].status = "pending"
<1>1. handler \in [Slug -> Handler]
  BY DEF Shape, WorkTyped
<1>2. CASE UNCHANGED handler
  BY <1>2
<1>3. ASSUME NEW x \in Slug, handler' = [handler EXCEPT ![x] = Idle]
      PROVE  Goal
  BY <1>1, <1>3 DEF Idle
<1>4. ASSUME NEW x \in Slug, NEW at, handler' = [handler EXCEPT ![x].at = at]
      PROVE  Goal
  BY <1>1, <1>4 DEF Handler
<1>5. ASSUME NEW x \in Slug, NEW q, Begin(x, q)
      PROVE  Goal
  BY <1>1, <1>5 DEF Begin
<1>6. ASSUME NEW x \in Slug, Cleared(x)
      PROVE  Goal
  BY <1>1, <1>6 DEF Cleared, Idle
<1>7. ASSUME NEW p \in Op, Project(p)
      PROVE  Goal
  BY <1>5, <1>7, RequestFields DEF Project
<1>8. ASSUME NEW x \in Slug, SagaStep(x)
      PROVE  Goal
  <2>1. CASE GoesOn(x)
    <3>1. handler[x].then \in Op
      BY <2>1 DEF GoesOn, Shape, Named
    <3>2. QED
      BY <1>3, <1>7, <2>1, <3>1 DEF GoesOn
  <2>2. CASE SettleAbsent(x) \/ Refuse(x) \/ Clear(x) \/ FinishDrop(x)
    BY <1>6, <2>2 DEF SettleAbsent, Refuse, Clear, FinishDrop
  <2>3. CASE Publish(x) \/ AbandonAppend(x) \/ Advance(x)
    BY <1>4, <2>3 DEF Publish, AbandonAppend, Advance, GoOn
  <2>4. CASE IdentityAnswers(x) \/ Alarm(x)
    BY <1>4, <2>4 DEF IdentityAnswers, Alarm
  <2>5. CASE CallFails(x) \/ PasteStops(x) \/ Retry(x)
    BY <1>3, <2>5 DEF CallFails, PasteStops, Retry
  <2>6. QED
    BY <1>8, <2>1, <2>2, <2>3, <2>4, <2>5 DEF SagaStep
<1>9. ASSUME NEW p \in Op, RequestStep(p)
      PROVE  Goal
  <2>1. TargetOf(p) \in Slug
    BY RequestFields
  <2>2. CASE Resume(p)
    <3> DEFINE x == TargetOf(p)
    <3>1. /\ UNCHANGED row /\ caller[p] = "asked"
          /\ \/ handler' = [handler EXCEPT ![x].at = "call"]
             \/ /\ handler' = [handler EXCEPT ![x] = [at |-> "call", then |-> p]]
                /\ KindOf(p) = "ready" => row[x].status = "pending"
      BY <2>2 DEF Resume, Delivered
    <3> HIDE DEF x
    <3>2. QED
      BY <1>1, <1>4, <2>1, <3>1 DEF x
  <2>3. CASE StartAppend(p) \/ StartDelete(p) \/ StartPin(p) \/ StartRemove(p) \/ StartFail(p)
    <3>1. \E q : Begin(TargetOf(p), q)
      BY <2>3 DEF StartAppend, StartDelete, StartPin, StartRemove, StartFail
    <3>2. QED
      BY <1>5, <2>1, <3>1
  <2>4. CASE StartProjection(p)
    BY <1>7, <2>4 DEF StartProjection
  <2>5. CASE UNCHANGED handler
    BY <1>2, <2>5
  <2>6. QED
    BY <1>9, <2>2, <2>3, <2>4, <2>5
       DEF RequestStep, Issue, Replay, Busy, Mismatch, AppendRefused, DeleteNothing, Answered,
           pasteVars
<1>10. (\E g \in Generation : CreateStep(g)) \/ (\E o \in Owner : IdentityStep(o))
       \/ (\E m \in late : LateArrives(m)) \/ UNCHANGED vars => UNCHANGED handler
  BY DEF CreateStep, Reserve, Put, PutLost, Confirm, Release, Forgotten, IdentityStep,
         ResolveIntent, AbortCreate, IntentAnswered, ResolverFails, LateArrives, pasteVars, vars
<1>11. QED
  BY <1>2, <1>8, <1>9, <1>10 DEF Next

\* A failed artifact is not made ready.
LEMMA StaysFailed ==
  ASSUME Shape, Cells, ReadyNotFailed, NEW s \in Slug, Begun(s), Failed(s)
  PROVE  Failed(s)' \/ row'[s].gen = None
<1>1. CASE Projects(s)
  <2>1. PICK p \in Op : /\ TargetOf(p) = s /\ Project(p)
                        /\ \/ handler[s].at = "next" /\ handler[s].then = p
                           \/ KindOf(p) = "ready" => row[s].status = "pending"
    BY <1>1 DEF Projects
  <2>2. KindOf(p) # "ready"
    BY <2>1 DEF ReadyNotFailed, Failed
  <2>3. \E n \in Names : row' = [row EXCEPT ![s].name = n]
    BY <2>1, <2>2 DEF Project
  <2>4. QED
    BY <2>3 DEF Failed, Shape, RowsTyped, Row
<1>2. CASE ~Projects(s)
  BY <1>2, BegunAsks DEF Asks, Failed
<1>3. QED
  BY <1>1, <1>2

LEMMA EndedStays ==
  ASSUME LifeInv, ReadyNotFailed, [Next]_vars, NEW g \in Generation, Ended(g)
  PROVE  Ended(g)'
<1> DEFINE s == SlugOf(g)
<1> USE DEF LifeInv
<1>1. s \in Slug /\ g # None
  BY GenerationFields
<1>2. ~Visible(g)'
  <2>1. row[s].gen # g \/ Failed(s)
    BY DEF Ended, Visible, Present
  <2> SUFFICES ASSUME row'[s].gen = g
               PROVE  Failed(s)'
    BY DEF Visible, Present
  <2>2. ~Written(s)
    BY <1>1, BarredStays DEF Written, Ended
  <2>3. CASE Begun(s)
    <3>1. row[s].gen = g
      BY <1>1, <2>3, BegunAsks DEF Asks
    <3>2. QED
      BY <1>1, <2>1, <2>3, <3>1, StaysFailed
  <2>4. CASE Settling(s)
    BY <1>1, <2>1, <2>4, SettlingConcludes DEF Concludes, Failed
  <2>5. CASE UNCHANGED row[s]
    BY <2>1, <2>5 DEF Failed
  <2>6. QED
    BY <1>1, <2>2, <2>3, <2>4, <2>5, CellMoves DEF Waits, Kept, IdentityAnswers
<1>3. PutWaits(g)' => Barred(g)'
  BY PutWaitsStays, BarredStays DEF Ended
<1>4. QED
  BY <1>2, <1>3 DEF Ended

\* An entry goes when the create was refused, or fenced, or the artifact ended.
LEMMA UnlistedBy ==
  ASSUME LifeInv, VisibleInv, [Next]_vars, NEW g \in Generation, Listed(g), ~Listed(g)'
  PROVE  create[g] = "release" \/ g \in aborted \/ Ended(g)
<1> USE DEF LifeInv
<1>1. LedgerTyped /\ g # None
  BY GenerationFields DEF Shape
<1>2. MayUnlist(g)
  <2>1. ~UNCHANGED entries
    BY DEF Listed, EntryOf
  <2>2. ASSUME NEW h \in Generation, Reserves(h)
        PROVE  FALSE
    BY <1>1, <2>2, EnterListed DEF Reserves
  <2>3. ASSUME NEW h \in Generation, Relists(h)
        PROVE  FALSE
    <3>1. EntryOf(h).gen = h
      BY <2>3 DEF Relists, Listed
    <3>2. QED
      BY <1>1, <2>3, <3>1, EnterListed DEF Relists
  <2>4. ASSUME NEW h \in Generation, Unlists(h)
        PROVE  MayUnlist(g)
    <3>1. NoEntry \in Entry /\ NoEntry.gen = None
      BY EmptyRecords DEF NoEntry
    <3>2. h = g
      BY <1>1, <2>4, <3>1, EnterListed DEF Unlists
    <3>3. QED
      BY <2>4, <3>2 DEF Unlists
  <2>5. ASSUME NEW m \in Message, Settles(m)
        PROVE  FALSE
    <3>1. PICK e \in Entry : Enter(m.gen, e) /\ e.gen = m.gen
      BY <1>1, <2>5, SettlesEnters
    <3>2. m.gen \in Generation /\ EntryOf(m.gen).gen = m.gen
      BY <1>1, <2>5, SettlesEnters DEF Listed
    <3>3. QED
      BY <1>1, <3>1, <3>2, EnterListed
  <2>6. QED
    BY <2>1, <2>2, <2>3, <2>4, <2>5, LedgerMoves, ReserveMoves
<1>3. ASSUME NEW m \in Message, m.type = "drop", m.gen = g, Asking(m)
      PROVE  Ended(g)
  <2>1. CASE m \in late
    BY <1>3, <2>1 DEF VisibleInv, DropsEnded
  <2>2. CASE \E s \in Slug : Outstanding(s) /\ m = StageRequest(s)
    <3>1. PICK s \in Slug : Outstanding(s) /\ m = StageRequest(s)
      BY <2>2
    <3>2. pending[s].stage = "drop" /\ pending[s].gen = g
      BY <1>3, <3>1 DEF StageRequest
    <3>3. pending[s].kind \in DropKinds
      BY <3>1, <3>2 DEF Cells, StagedAt
    <3>4. QED
      BY <3>2, <3>3 DEF VisibleInv, DropsEnded
  <2>3. QED
    BY <1>3, <2>1, <2>2 DEF Asking
<1>4. QED
  BY <1>1, <1>2, <1>3 DEF MayUnlist, VisibleInv, FoundAbsent

\* While a put may still write its row, the reservation it holds stays.
LEMMA WaitingListed ==
  ASSUME LifeInv, VisibleInv, [Next]_vars, NEW g \in Generation, create[g] # "new", PutWaits(g),
         ~Barred(g)
  PROVE  Listed(g) /\ Listed(g)'
<1>1. Listed(g)
  BY DEF VisibleInv, Reserved
<1>2. ~(create[g] = "release")
  BY DEF VisibleInv, Reserved, PutWaits
<1>3. g \notin aborted /\ ~Ended(g)
  BY DEF Barred, Ended
<1>4. QED
  BY <1>1, <1>2, <1>3, UnlistedBy
LEMMA AskedStep ==
  ASSUME LifeInv, VisibleInv, [Next]_vars
  PROVE  Asked'
<1> USE DEF LifeInv
<1>1. Asked
  BY DEF VisibleInv
<1>2. ASSUME NEW s \in Slug, NEW p \in Op, handler'[s].then = p
      PROVE  caller'[p] # "idle"
  <2>1. p # None
    BY RequestFields
  <2>2. caller[p] # "idle"
    BY <1>1, <1>2, <2>1, ThenMoves DEF Asked
  <2>3. QED
    BY <1>1, <2>2, CallerMoves
<1>3. ASSUME NEW p \in Op, caller'[p] # "idle", ~EarlyOps
      PROVE  create'[GenOf(p)] \notin {"new", "put", "retry"}
  <2>1. GenOf(p) \in Generation
    BY RequestFields
  <2>2. create[GenOf(p)] \notin {"new", "put", "retry"}
    <3>1. CASE caller[p] # "idle"
      BY <1>1, <1>3, <3>1 DEF Asked
    <3>2. CASE Issue(p)
      BY <1>3, <2>1, <3>2 DEF Issue, Unborn, Present
    <3>3. QED
      BY <1>1, <1>3, <3>1, <3>2, CallerMoves
  <2>3. QED
    BY <2>1, <2>2, CreateMoves
<1>4. ASSUME NEW s \in Slug, pending'[s].kind = "remove"
      PROVE  Removals
  <2>1. pending[s].kind = "remove" => Removals
    BY <1>1 DEF Asked
  <2>2. Begun(s) => Removals
    BY <1>4, BegunAsks DEF Asks
  <2>3. Settling(s) => Removals
    BY <1>4, <2>1, SettlingConcludes DEF Concludes
  <2>4. QED
    BY <1>4, <2>1, <2>2, <2>3, CellMoves DEF Waits, Kept, Written, IdentityAnswers
<1>5. ASSUME NEW m \in late'
      PROVE  m.type \in LateKinds
  BY <1>1, LateMoves DEF Asked, Left
<1>6. QED
  BY <1>2, <1>3, <1>4, <1>5 DEF Asked, Removals

LEMMA ReadyStep ==
  ASSUME LifeInv, VisibleInv, [Next]_vars
  PROVE  ReadyNotFailed'
<1> USE DEF LifeInv
<1> SUFFICES ASSUME NEW s \in Slug, NEW p \in Op, handler'[s].then = p, KindOf(p) = "ready",
                    Failed(s)'
             PROVE  FALSE
  BY DEF ReadyNotFailed
<1>1. p # None
  BY RequestFields
<1>2. CASE handler[s].then = p
  <2>1. ~Failed(s)
    BY <1>2 DEF VisibleInv, ReadyNotFailed
  <2>2. \A g \in Generation : Creates[g].status # "failed"
    BY GenerationFields
  <2>3. ~Written(s) /\ ~Settling(s) /\ ~Kept(s)
    BY <2>1, <2>2, SettlingConcludes DEF Written, Concludes, Kept, Failed
  <2>4. Begun(s)
    BY <2>3, CellMoves DEF Waits, Kept, IdentityAnswers
  <2>5. ~Projects(s)
    <3>1. ASSUME NEW r \in Op, TargetOf(r) = s, Project(r)
          PROVE  FALSE
      <4>1. \/ row' = [row EXCEPT ![s].status = "ready"]
            \/ \E n \in Names : row' = [row EXCEPT ![s].name = n]
        BY <3>1 DEF Project
      <4>2. row'[s].status = "ready" \/ row'[s].status = row[s].status
        BY <4>1 DEF Shape, RowsTyped, Row
      <4>3. QED
        BY <2>1, <4>2 DEF Failed
    <3>2. QED
      BY <3>1 DEF Projects
  <2>6. PICK r \in Op : /\ TargetOf(r) = s
                        /\ \/ StartAppend(r) \/ StartDelete(r) \/ StartPin(r)
                           \/ StartRemove(r) \/ StartFail(r)
    BY <2>4, <2>5 DEF Begun
  <2>7. \E q : Begin(s, q)
    BY <2>6 DEF StartAppend, StartDelete, StartPin, StartRemove, StartFail
  <2>8. handler'[s].then = None
    BY <2>7 DEF Begin, Shape, WorkTyped
  <2>9. QED
    BY <1>1, <2>8
<1>3. CASE handler[s].then # p
  <2>1. UNCHANGED row /\ row[s].status = "pending"
    BY <1>1, <1>3, ThenMoves
  <2>2. QED
    BY <2>1 DEF Failed
<1>4. QED
  BY <1>2, <1>3

LEMMA FoundAbsentStep ==
  ASSUME LifeInv, VisibleInv, [Next]_vars
  PROVE  FoundAbsent'
<1> SUFFICES ASSUME NEW o \in Owner, resolver'[o].gen # None, resolver'[o].found = "absent"
             PROVE  resolver'[o].gen \in aborted'
  BY DEF FoundAbsent
<1>1. CASE UNCHANGED resolver[o]
  BY <1>1, AbortMoves DEF VisibleInv, FoundAbsent, LifeInv
<1>2. CASE ~UNCHANGED resolver[o]
  BY <1>2, ResolverMoves DEF Fencing, Present, LifeInv
<1>3. QED
  BY <1>1, <1>2

\* What begins is asked for by a caller that may ask.
LEMMA BegunAsked ==
  ASSUME Shape, Asked, NEW s \in Slug, Begun(s)
  PROVE  \E p \in Op : caller[p] # "idle" /\ GenOf(p) = row[s].gen
BY DEF Begun, Projects, StartAppend, StartDelete, StartPin, StartRemove, StartFail, Turn,
       Delivered, Asked

LEMMA DropsStep ==
  ASSUME LifeInv, VisibleInv, SettledRemovals, [Next]_vars
  PROVE  DropsEnded'
<1> USE DEF LifeInv
<1>1. DropsEnded /\ ReadyNotFailed /\ Asked /\ Asked'
  BY AskedStep DEF VisibleInv
<1>2. ASSUME NEW s \in Slug, pending[s].kind \in DropKinds
      PROVE  pending[s].gen \in Generation /\ Ended(pending[s].gen)
                /\ \A g \in Generation : g = pending[s].gen => Ended(g)'
  BY <1>1, <1>2, PendingBegan, EndedStays DEF DropsEnded, Outstanding, DropKinds
<1>3. ASSUME NEW m \in late', m.type = "drop"
      PROVE  \A g \in Generation : g = m.gen => Ended(g)'
  <2>1. CASE m \in late
    BY <1>1, <1>3, <2>1, EndedStays DEF DropsEnded
  <2>2. CASE Left(m)
    <3>1. PICK s \in Slug : Outstanding(s) /\ m = StageRequest(s)
      BY <1>3, <2>2 DEF Left, BareMessage
    <3>2. pending[s].stage = "drop" /\ pending[s].gen = m.gen /\ StagedAt(s)
      BY <1>3, <3>1 DEF StageRequest, Cells
    <3>3. pending[s].kind \in DropKinds
      BY <3>1, <3>2 DEF StagedAt
    <3>4. QED
      BY <1>2, <3>2, <3>3
  <2>3. QED
    BY <2>1, <2>2, LateMoves
<1>4. ASSUME NEW s \in Slug, pending'[s].kind \in DropKinds
      PROVE  \A g \in Generation : g = pending'[s].gen => Ended(g)'
  <2>1. CASE UNCHANGED pending[s]
    BY <1>2, <1>4, <2>1
  <2>2. CASE Settling(s)
    <3>1. Concludes(s)
      BY <2>2, SettlingConcludes
    <3>2. pending[s].kind \in DropKinds /\ pending'[s].gen = pending[s].gen
      BY <1>4, <3>1 DEF Concludes, DropKinds
    <3>3. QED
      BY <1>2, <3>2
  <2>3. CASE Begun(s)
    <3>1. Asks(s)
      BY <2>3, BegunAsks
    <3> SUFFICES ASSUME NEW g \in Generation, g = pending'[s].gen
                 PROVE  Ended(g)'
      OBVIOUS
    <3>2. row[s].gen = g /\ SlugOf(g) = s
      BY <3>1, GenerationFields DEF Asks, Cells, AnchoredAt
    <3>3. ~Visible(g)'
      BY <1>4, <3>1, <3>2, GenerationFields DEF Asks, Visible, Present, Failed, DropKinds
    <3>4. CASE ~Removals
      <4>1. row'[s].gen # None
        BY <1>4, <3>1, <3>2, <3>4, GenerationFields DEF Asks, DropKinds
      <4>2. QED
        BY <3>2, <3>3, <3>4, <4>1 DEF Ended, Barred, Removals
    <3>5. CASE "put" \notin LateKinds /\ ~EarlyOps
      <4>1. PICK p \in Op : caller[p] # "idle" /\ GenOf(p) = g
        BY <1>1, <2>3, <3>2, BegunAsked
      <4>2. create[g] \notin {"new", "put", "retry"}
        BY <1>1, <3>5, <4>1 DEF Asked
      <4>3. create'[g] \notin {"new", "put", "retry"}
        BY <4>2, CreateMoves
      <4>4. ~LatePut(g)'
        BY <1>1, <3>5 DEF Asked, LatePut
      <4>5. QED
        BY <3>3, <4>3, <4>4 DEF Ended, PutWaits
    <3>6. QED
      BY <3>4, <3>5 DEF SettledRemovals
  <2>4. QED
    BY <2>1, <2>2, <2>3, CellMoves DEF Waits, Kept, Written, IdentityAnswers
<1>5. \A m \in late' : m.gen \in Generation
  BY ShapeStep DEF Shape, NetTyped, Message
<1>6. \A s \in Slug : pending'[s].kind \in DropKinds => pending'[s].gen \in Generation
  BY ShapeStep DEF Shape, Named, DropKinds
<1>7. /\ \A m \in late' : m.type = "drop" => Ended(m.gen)'
      /\ \A s \in Slug : pending'[s].kind \in DropKinds => Ended(pending[s].gen)'
  <2>1. ASSUME NEW m \in late', m.type = "drop"
        PROVE  Ended(m.gen)'
    BY <1>3, <1>5, <2>1
  <2>2. ASSUME NEW s \in Slug, pending'[s].kind \in DropKinds
        PROVE  Ended(pending[s].gen)'
    BY <1>4, <1>6, <2>2 DEF Ended, Visible, Present, Failed, PutWaits, LatePut, Barred
  <2>3. QED
    BY <2>1, <2>2
<1>8. QED
  BY <1>7 DEF DropsEnded
LEMMA ReservedStep ==
  ASSUME LifeInv, VisibleInv, SettledRemovals, [Next]_vars
  PROVE  Reserved'
<1> USE DEF LifeInv
<1> SUFFICES ASSUME NEW g \in Generation
             PROVE  /\ create'[g] # "new" /\ PutWaits(g)' => Listed(g)' \/ Barred(g)'
                    /\ create'[g] = "release" => ~Present(g)' /\ (LatePut(g)' => Barred(g)')
                    /\ g \in aborted' => create'[g] # "new"
  BY DEF Reserved
<1>1. /\ create \in [Generation -> {"new", "put", "retry", "confirm", "release", "done", "failed"}]
      /\ SlugOf(g) \in Slug /\ g # None
  BY GenerationFields DEF Shape, FrontTyped
<1>2. ASSUME create'[g] # "new", PutWaits(g)'
      PROVE  Listed(g)' \/ Barred(g)'
  <2>1. PutWaits(g)
    BY <1>2, PutWaitsStays
  <2>2. CASE create[g] = "new"
    <3>1. Reserve(g)
      BY <1>2, <2>2, CreateMoves DEF Put, PutLost, Confirm, Release, Forgotten
    <3>2. ~LatePut(g)'
      <4>1. ~LatePut(g)
        BY <2>2 DEF LatePut, Unborn
      <4>2. create[g] \notin {"put", "retry"}
        BY <2>2
      <4>3. QED
        BY <1>2, <4>1, <4>2, PutWaitsStays
    <3>3. create'[g] = "put"
      BY <1>1, <1>2, <3>1, <3>2 DEF PutWaits, Reserve
    <3>5. \E e : Enter(g, e) /\ e.gen = g
      <4> DEFINE e == [gen |-> g, charged |-> Creates[g].size,
                       listing |-> [status |-> Creates[g].status, served |-> 1,
                                    latest |-> 1, pinned |-> 0, name |-> 0]]
      <4>1. Enter(g, e)
        BY <1>1, <3>1, <3>3 DEF Reserve
      <4>2. e.gen = g
        OBVIOUS
      <4> HIDE DEF e
      <4>3. QED
        BY <4>1, <4>2
    <3>6. PICK e : Enter(g, e) /\ e.gen = g
      BY <3>5
    <3>7. entries'[OwnerOf(g)][SlugOf(g)] = e
      BY <3>6, GenerationFields DEF Enter, Shape, LedgerTyped
    <3>8. QED
      BY <3>6, <3>7 DEF Listed, EntryOf
  <2>3. CASE create[g] # "new"
    BY <2>1, <2>3, WaitingListed, BarredStays
  <2>4. QED
    BY <2>2, <2>3
<1>3. ASSUME create'[g] = "release"
      PROVE  ~Present(g)' /\ (LatePut(g)' => Barred(g)')
  <2>1. CASE create[g] = "release"
    <3>1. ~Present(g) /\ (~LatePut(g) \/ Barred(g))
      BY <2>1 DEF VisibleInv, Reserved
    <3>2. LatePut(g)' => Barred(g)'
      BY <2>1, <3>1, PutWaitsStays, BarredStays DEF PutWaits
    <3>3. ~Present(g)'
      <4> DEFINE s == SlugOf(g)
      <4>1. row[s].gen # g
        BY <3>1 DEF Present
      <4>2. ~(Written(s) /\ row'[s].gen = g)
        BY <2>1, <3>1, BarredStays DEF Written, PutWaits
      <4>3. Begun(s) => row'[s].gen # g
        BY <1>1, <4>1, BegunAsks DEF Asks
      <4>4. Settling(s) => row'[s].gen # g
        BY <1>1, <4>1, SettlingConcludes DEF Concludes
      <4>5. QED
        BY <1>1, <4>1, <4>2, <4>3, <4>4, CellMoves DEF Waits, Kept, IdentityAnswers, Present
    <3>4. QED
      BY <3>2, <3>3
  <2>2. CASE create[g] # "release"
    <3>1. Put(g)
      BY <1>1, <1>3, <2>2, CreateMoves DEF Reserve, PutLost, Confirm, Release, Forgotten
    <3>2. ~MayPut(g) /\ row[SlugOf(g)].gen # g /\ NoFault /\ UNCHANGED row
      BY <1>1, <1>3, <3>1 DEF Put, WriteRow
    <3>3. ~Present(g)'
      BY <3>2 DEF Present
    <3>4. ASSUME LatePut(g)'
          PROVE  Barred(g)
      <4>1. ~Removals
        BY <3>2, <3>4 DEF SettledRemovals, VisibleInv, Asked, LatePut, NoFault, netVars
      <4>2. tombstone[SlugOf(g)] = None
        BY <1>1, <4>1 DEF VisibleInv, Asked, Cells, AnchoredAt
      <4>3. QED
        BY <3>2, <4>1, <4>2 DEF MayPut, Barred
    <3>5. QED
      BY <3>3, <3>4, BarredStays
  <2>3. QED
    BY <2>1, <2>2
<1>4. ASSUME g \in aborted'
      PROVE  create'[g] # "new"
  BY <1>4, AbortMoves, CreateStays DEF VisibleInv, Reserved
<1>5. QED
  BY <1>2, <1>3, <1>4

\* An artifact appears only by a put that its reservation still awaits.
LEMMA Appears ==
  ASSUME LifeInv, VisibleInv, [Next]_vars, NEW g \in Generation, ~Visible(g), Visible(g)'
  PROVE  LET s == SlugOf(g) IN
         /\ Awaited(g) /\ Listed(g)' /\ create[g] # "new"
         /\ row'[s].status = Creates[g].status
         /\ row'[s].served = 1 /\ row'[s].pinned = 0 /\ row'[s].name = 0
         /\ versions'[s] = <<[upload |-> g, charge |-> Creates[g].size, deleted |-> FALSE]>>
<1> USE DEF LifeInv
<1> DEFINE s == SlugOf(g)
<1>1. s \in Slug /\ row'[s].gen = g /\ ~Failed(s)' /\ g # None
  BY GenerationFields DEF Visible, Present
<1>2. row[s].gen # g \/ Failed(s)
  BY DEF Visible, Present
<1>3. ~Begun(s)
  BY <1>1, <1>2, BegunAsks, StaysFailed DEF Asks, VisibleInv
<1>4. ~Settling(s)
  BY <1>1, <1>2, SettlingConcludes DEF Concludes, Failed
<1>5. ~UNCHANGED row[s]
  BY <1>1, <1>2 DEF Failed
<1>6. Written(s)
  BY <1>1, <1>3, <1>4, <1>5, CellMoves DEF Waits, Kept, IdentityAnswers
<1>7. /\ MayPut(g) /\ create[g] # "new" /\ PutWaits(g)
      /\ row'[s].status = Creates[g].status
      /\ row'[s].served = 1 /\ row'[s].pinned = 0 /\ row'[s].name = 0
      /\ versions'[s] = <<[upload |-> g, charge |-> Creates[g].size, deleted |-> FALSE]>>
  BY <1>1, <1>6 DEF Written
<1>8. ~Barred(g)
  BY <1>7 DEF Barred, MayPut
<1>9. ~Present(g) /\ ~Removing(g)
  BY <1>1, <1>7 DEF MayPut, Present, Removing
<1>10. QED
  BY <1>7, <1>8, <1>9, WaitingListed DEF Awaited

LEMMA ListedStep ==
  ASSUME LifeInv, VisibleInv, [Next]_vars
  PROVE  VisibleListed'
<1> USE DEF LifeInv
<1> SUFFICES ASSUME NEW g \in Generation, Visible(g)'
             PROVE  Listed(g)'
  BY DEF VisibleListed
<1> DEFINE s == SlugOf(g)
<1>1. s \in Slug /\ row'[s].gen = g /\ ~Failed(s)' /\ g # None
  BY GenerationFields DEF Visible, Present
<1>2. CASE Visible(g)
  <2>1. Listed(g) /\ Present(g)
    BY <1>2 DEF VisibleInv, VisibleListed, Visible
  <2>2. ~(create[g] = "release") /\ g \notin aborted /\ ~Ended(g)
    BY <1>2, <2>1 DEF VisibleInv, Reserved, AbortFences, Ended
  <2>3. QED
    BY <2>1, <2>2, UnlistedBy
<1>3. CASE ~Visible(g)
  BY <1>3, Appears
<1>4. QED
  BY <1>2, <1>3

LEMMA VisibleInit == Init => VisibleInv
<1> SUFFICES ASSUME Init
             PROVE  VisibleInv
  OBVIOUS
<1>1. \A g \in Generation : ~Present(g) /\ g # None
  BY GenerationFields DEF Init, Present, NoRow
<1>2. \A p \in Op : p # None
  BY RequestFields
<1>3. Asked /\ ReadyNotFailed
  BY <1>2 DEF Init, Asked, ReadyNotFailed, Idle, NoPending
<1>4. AbortFences /\ FoundAbsent /\ DropsEnded /\ VisibleListed
  BY <1>1 DEF Init, AbortFences, FoundAbsent, DropsEnded, VisibleListed, Visible, NoPending,
              NoAnswer, DropKinds
<1>5. Reserved
  BY DEF Init, Reserved
<1>6. QED
  BY <1>3, <1>4, <1>5 DEF VisibleInv

\* The artifact and its charge together.
ShownInv == ChargeInv /\ VisibleInv

LEMMA ShownStep ==
  ASSUME ShownInv, SettledRemovals, [Next]_vars
  PROVE  ShownInv'
<1>1. ChargeInv' /\ LifeInv /\ VisibleInv
  BY ChargeStep DEF ShownInv, ChargeInv
<1>2. AbortFences'
  BY <1>1, FenceNext DEF FenceInv, LifeInv, VisibleInv
<1>3. Asked' /\ ReadyNotFailed' /\ FoundAbsent'
  BY <1>1, AskedStep, ReadyStep, FoundAbsentStep
<1>4. DropsEnded' /\ Reserved' /\ VisibleListed'
  BY <1>1, DropsStep, ReservedStep, ListedStep
<1>5. QED
  BY <1>1, <1>2, <1>3, <1>4 DEF ShownInv, VisibleInv

\* What is visible is charged for its live versions at least.
LEMMA ShownCharged ==
  ASSUME ShownInv
  PROVE  VisibleCharged
<1> SUFFICES ASSUME NEW g \in Generation, Visible(g)
             PROVE  Listed(g) /\ LiveOf(SlugOf(g)) <= EntryOf(g).charged
  BY DEF VisibleCharged, LiveOf
<1> DEFINE s == SlugOf(g)
           q == pending[s]
           a == account[g]
<1>1. Listed(g) /\ EntryOf(g).charged = a.allocated
  BY DEF ShownInv, VisibleInv, VisibleListed, ChargeInv, ChargeIsAllocation
<1>2. /\ s \in Slug /\ AnchoredAt(s) /\ StagedAt(s) /\ TargetsAt(s)
      /\ Steady(g) /\ Deciding(g)
  BY <1>1, Whose DEF ShownInv, ChargeInv, ChargedFor
<1>3. LiveOf(s) \in Nat /\ a.allocated \in Nat /\ q.charge \in Nat /\ q.stage \in Stages
  BY <1>2, Amounts DEF ShownInv, ChargeInv, LifeInv
<1>4. Present(g) /\ ~Failed(s) /\ g # None
  BY GenerationFields DEF Visible
<1>5. CASE ~Outstanding(s) \/ q.stage = "project"
  BY <1>1, <1>2, <1>3, <1>4, <1>5 DEF Steady
<1>6. CASE Outstanding(s) /\ q.stage # "project"
  <2>1. q.kind \notin DropKinds /\ q.gen = g
    BY <1>2, <1>4, <1>6 DEF AnchoredAt, StagedAt, Present, DropKinds, Outstanding
  <2>2. q.stage = "decide" /\ HasPending(g)
    BY <1>2, <1>6, <2>1 DEF StagedAt, HasPending
  <2>3. /\ q.kind # "append" => q.target = LiveOf(s)
        /\ q.kind = "append" => q.target = LiveOf(s) + q.charge
    BY <1>2, <1>6, <2>1, <2>2 DEF TargetsAt
  <2>4. a.allocated >= LiveOf(s)
    BY <1>2, <1>3, <2>1, <2>2, <2>3 DEF Deciding
  <2>5. QED
    BY <1>1, <1>3, <2>4
<1>7. QED
  BY <1>5, <1>6

\* No visible retained version is uncharged, whatever call is lost or answered
\* late (publishAppend, deleteVersion, remove, put, abortCreate, release):
\* where nothing is removed, or where a removal cannot meet a put of the same
\* create.
THEOREM AlwaysVisibleCharged ==
  ASSUME SettledRemovals
  PROVE  Spec => []VisibleCharged
<1>1. Init => ShownInv
  BY ChargeInit, VisibleInit DEF ShownInv
<1>2. ShownInv /\ [Next]_vars => ShownInv'
  BY ShownStep
<1>3. ShownInv => VisibleCharged
  BY ShownCharged
<1>4. QED
  BY <1>1, <1>2, <1>3, PTL DEF Spec
-----------------------------------------------------------------------------
(* What the list shows, step by step.                                      *)

\* An operation that begins notes the version count its projection will carry.
LEMMA BegunLatest ==
  ASSUME Shape, Cells, NEW s \in Slug, Begun(s)
  PROVE  LatestAt(s)'
<1>1. PICK p \in Op :
         /\ TargetOf(p) = s
         /\ \/ StartAppend(p) \/ StartDelete(p) \/ StartPin(p) \/ StartRemove(p) \/ StartFail(p)
            \/ Project(p)
  BY DEF Begun, Projects
<1>2. RowsTyped /\ WorkTyped /\ versions[s] \in Seq(Version) /\ Len(versions[s]) \in Nat
  BY DEF Shape, RowsTyped
<1>3. \A q : Begin(s, q) => pending'[s] = q
  BY <1>2 DEF Begin, WorkTyped
<1>4. \A kind, target, cap, latest, charge :
         LET q == Decide(p, kind, target, cap, latest, charge) IN
         q.kind = kind /\ q.stage = "decide" /\ q.latest = latest
  BY <1>1 DEF Decide
<1>5. CASE StartAppend(p)
  <2>1. PICK target, charge :
           Begin(s, Decide(p, "append", target, UserCap, Len(versions[s]) + 1, charge))
    BY <1>1, <1>5 DEF StartAppend
  <2>2. UNCHANGED versions[s]
    BY <1>5 DEF StartAppend
  <2>3. /\ pending'[s].kind = "append" /\ pending'[s].stage = "decide"
        /\ pending'[s].latest = Len(versions[s]) + 1
    BY <1>3, <1>4, <2>1
  <2>4. QED
    BY <2>2, <2>3 DEF LatestAt
<1>6. CASE StartDelete(p)
  <2>1. PICK v \in LiveVersions(versions[s]) :
          \E inherited \in IF NextLive(versions[s], v) = {} THEN {0} ELSE 0 .. versions[s][v].charge :
              LET vs == Tombstoned(versions[s], v, inherited) IN
              /\ versions' = [versions EXCEPT ![s] = vs]
              /\ Begin(s, Decide(p, "deleteVersion", LiveCharge(vs), 0, Len(versions[s]), 0))
    BY <1>1, <1>6 DEF StartDelete
  <2>2. versions[s][v].charge \in Nat
    <3>1. v \in 1..Len(versions[s])
      BY <1>2, LiveVersionsFinite
    <3>2. versions[s][v] \in Version
      BY <1>2, <3>1
    <3>3. QED
      BY <3>2 DEF Version
  <2>3. PICK inherited \in Nat :
              LET vs == Tombstoned(versions[s], v, inherited) IN
              /\ versions' = [versions EXCEPT ![s] = vs]
              /\ Begin(s, Decide(p, "deleteVersion", LiveCharge(vs), 0, Len(versions[s]), 0))
    <3>1. (IF NextLive(versions[s], v) = {} THEN {0} ELSE 0 .. versions[s][v].charge)
             \subseteq Nat
      BY <2>2
    <3>2. QED
      BY <2>1, <3>1, Zenon
  <2> DEFINE vs == Tombstoned(versions[s], v, inherited)
  <2>4. Len(vs) = Len(versions[s])
    BY <1>2, TombstonedSound
  <2>5. /\ versions'[s] = vs
        /\ Begin(s, Decide(p, "deleteVersion", LiveCharge(vs), 0, Len(versions[s]), 0))
    BY <1>2, <2>3 DEF RowsTyped
  <2> HIDE DEF vs
  <2>6. pending'[s].kind = "deleteVersion" /\ pending'[s].latest = Len(versions[s])
    BY <1>3, <1>4, <2>5
  <2>7. QED
    BY <1>2, <2>4, <2>5, <2>6 DEF LatestAt
<1>7. CASE StartPin(p)
  <2>1. /\ Begin(s, Decide(p, "pin", LiveOf(s), 0, Len(versions[s]), 0))
        /\ UNCHANGED versions
    BY <1>1, <1>7 DEF StartPin, LiveOf
  <2>2. pending'[s].kind = "pin" /\ pending'[s].latest = Len(versions[s])
    BY <1>3, <1>4, <2>1
  <2>3. QED
    BY <1>2, <2>1, <2>2 DEF LatestAt
<1>8. CASE StartRemove(p) \/ StartFail(p)
  <2>1. PICK kind \in DropKinds : Begin(s, Decide(p, kind, 0, 0, Len(versions[s]), 0))
    BY <1>1, <1>8 DEF StartRemove, StartFail, DropKinds
  <2>2. pending'[s].kind \in DropKinds
    BY <1>3, <1>4, <2>1
  <2>3. QED
    BY <2>2 DEF LatestAt
<1>9. CASE Project(p)
  <2> DEFINE q == [NoPending EXCEPT !.kind = "projection", !.stage = "project", !.gen = GenOf(p),
                                    !.version = row[s].version, !.latest = Len(versions[s])]
  <2>1. Begin(s, q) /\ UNCHANGED versions
    BY <1>1, <1>9 DEF Project
  <2>2. q.kind = "projection" /\ q.latest = Len(versions[s])
    BY DEF NoPending
  <2> HIDE DEF q
  <2>3. pending'[s].kind = "projection" /\ pending'[s].latest = Len(versions[s])
    BY <1>3, <2>1, <2>2
  <2>4. QED
    BY <1>2, <2>1, <2>3 DEF LatestAt
<1>10. QED
  BY <1>1, <1>5, <1>6, <1>7, <1>8, <1>9

\* What an answer leaves of the view: an operation that ends without one of
\* its own leaves it alone, and the version count goes with a publish.
Views(s) ==
    LET q == pending[s]
        after == pending'[s]
    IN
    \/ /\ after.kind = "none"
       /\ UNCHANGED <<row[s].served, row[s].pinned, row[s].name, versions[s]>>
    \/ /\ handler[s].at = "granted" /\ q.kind = "append"
       /\ after.kind = "append" /\ after.stage = "project" /\ after.latest = q.latest
       /\ Len(versions'[s]) = Len(versions[s]) + 1
    \/ /\ after.kind = "abandon" /\ after.latest = Len(versions[s]) /\ UNCHANGED versions[s]
    \/ /\ q.kind # "append" /\ after.kind = q.kind /\ after.latest = q.latest
       /\ UNCHANGED versions[s]

LEMMA SettlingViews ==
  ASSUME Shape, NEW s \in Slug, Settling(s)
  PROVE  Views(s)
<1> DEFINE q == pending[s]
<1>1. /\ RowsTyped /\ row[s] \in Row /\ versions[s] \in Seq(Version)
      /\ q \in Pending
  BY DEF Shape, RowsTyped, WorkTyped
<1>2. q.version \in Nat
  BY <1>1 DEF Pending
<1>3. row' = [row EXCEPT ![s] = Fenced(s, q.version)] =>
         UNCHANGED <<row[s].served, row[s].pinned, row[s].name>>
  BY <1>1, <1>2 DEF RowsTyped, Fenced, Row
<1>4. CASE SettleAbsent(s) \/ Refuse(s) \/ Clear(s) \/ FinishDrop(s)
  <2>1. /\ Cleared(s) /\ UNCHANGED versions
        /\ row' = [row EXCEPT ![s] = Fenced(s, q.version)] \/ UNCHANGED row
    BY <1>4 DEF SettleAbsent, Refuse, Clear, FinishDrop
  <2>2. QED
    BY <1>3, <2>1, ClearedFields DEF Views
<1>5. CASE Publish(s)
  <2> DEFINE x == [upload |-> q.op, charge |-> q.charge, deleted |-> FALSE]
             after == [q EXCEPT !.stage = "project"]
  <2>1. /\ handler[s].at = "granted" /\ q.kind = "append"
        /\ versions' = [versions EXCEPT ![s] = Append(versions[s], x)]
        /\ GoOn(s, after)
    BY <1>5 DEF Publish
  <2>2. after.kind = "append" /\ after.stage = "project" /\ after.latest = q.latest
    BY <1>1, <2>1 DEF Pending
  <2>3. Len(versions'[s]) = Len(versions[s]) + 1
    <3> HIDE DEF x
    <3>1. x \in Version
      <4>1. q.op \in Op /\ q.charge \in Nat
        BY <1>1, <2>1 DEF Shape, Named, Pending
      <4>2. QED
        BY <4>1, Zenon DEF Version, x
    <3>2. versions'[s] = Append(versions[s], x)
      BY <1>1, <2>1 DEF RowsTyped
    <3>3. QED
      BY <1>1, <3>1, <3>2
  <2> HIDE DEF after
  <2>4. QED
    BY <2>1, <2>2, <2>3, GoOnFields DEF Views
<1>6. CASE AbandonAppend(s)
  <2> DEFINE after == [q EXCEPT !.kind = "abandon", !.version = @ + 1, !.target = @ - q.charge,
                                !.latest = Len(versions[s]), !.charge = 0]
  <2>1. GoOn(s, after) /\ UNCHANGED versions
    BY <1>6 DEF AbandonAppend
  <2>2. after.kind = "abandon" /\ after.latest = Len(versions[s])
    BY <1>1 DEF Pending
  <2> HIDE DEF after
  <2>3. QED
    BY <2>1, <2>2, GoOnFields DEF Views
<1>7. CASE Advance(s)
  <2> DEFINE after == [q EXCEPT !.stage = AfterDecide(q.kind)]
  <2>1. q.kind # "append" /\ GoOn(s, after) /\ UNCHANGED versions
    BY <1>7 DEF Advance
  <2>2. after.kind = q.kind /\ after.latest = q.latest
    BY <1>1 DEF Pending
  <2> HIDE DEF after
  <2>3. QED
    BY <2>1, <2>2, GoOnFields DEF Views
<1>8. QED
  BY <1>4, <1>5, <1>6, <1>7 DEF Settling

LEMMA LatestStep ==
  ASSUME Shape, Cells, Unborn, [Next]_vars, NEW s \in Slug, LatestAt(s)
  PROVE  LatestAt(s)'
<1>1. versions[s] \in Seq(Version) /\ Len(versions[s]) \in Nat
  BY DEF Shape, RowsTyped
<1>2. CASE Kept(s) \/ IdentityAnswers(s)
  BY <1>2 DEF Kept, IdentityAnswers, LatestAt, Outstanding
<1>3. CASE Written(s)
  <2>1. UNCHANGED <<pending[s], handler[s]>> /\ row[s].gen = None /\ tombstone[s] = None
    BY <1>3 DEF Written, MayPut
  <2>2. ~Outstanding(s)
    BY <2>1, PendingBegan, GenerationFields DEF Cells, AnchoredAt, Outstanding
  <2>3. QED
    BY <2>1, <2>2 DEF LatestAt, Outstanding
<1>4. CASE Begun(s)
  BY <1>4, BegunLatest
<1>5. CASE Settling(s)
  <2>1. Views(s) /\ StagedAt(s) /\ Outstanding(s)
    BY <1>5, SettlingViews, SettlingConcludes DEF Cells, Concludes
  <2>2. CASE pending'[s].kind = "none"
    BY <2>2 DEF LatestAt, Outstanding
  <2>3. CASE handler[s].at = "granted" /\ pending[s].kind = "append"
             /\ pending'[s].kind = "append" /\ pending'[s].stage = "project"
             /\ pending'[s].latest = pending[s].latest
             /\ Len(versions'[s]) = Len(versions[s]) + 1
    <3>1. pending[s].stage = "decide"
      BY <2>1, <2>3 DEF StagedAt
    <3>2. pending[s].latest = Len(versions[s]) + 1
      BY <2>1, <2>3, <3>1 DEF LatestAt, DropKinds
    <3>3. Len(versions'[s]) \in Nat
      BY <1>1, <2>3
    <3>4. QED
      BY <2>3, <3>2, <3>3 DEF LatestAt
  <2>4. CASE pending'[s].kind = "abandon" /\ pending'[s].latest = Len(versions[s])
             /\ UNCHANGED versions[s]
    BY <1>1, <2>4 DEF LatestAt
  <2>5. CASE pending[s].kind # "append" /\ pending'[s].kind = pending[s].kind
             /\ pending'[s].latest = pending[s].latest /\ UNCHANGED versions[s]
    BY <1>1, <2>1, <2>5 DEF LatestAt, Outstanding
  <2>6. QED
    BY <2>1, <2>2, <2>3, <2>4, <2>5 DEF Views
<1>6. QED
  BY <1>2, <1>3, <1>4, <1>5, CellMoves DEF Waits

\* A status that a confirm carries is true of what is visible.
LEMMA AssertedTrue ==
  ASSUME ListingInv, NEW g \in Generation, NEW status \in Status, Visible(g), Asserted(g, status)
  PROVE  status \in {"pending", row[SlugOf(g)].status}
<1>1. status \notin {"asking", "absent"} /\ g # None
  BY GenerationFields DEF Status
<1>2. CASE Creates[g].status = status
  BY <1>2, GenerationFields DEF ListingInv, StatusAsked
<1>3. ASSUME NEW o \in Owner, resolver[o].gen = g, resolver[o].found = status
      PROVE  status \in {"pending", row[SlugOf(g)].status}
  BY <1>1, <1>3 DEF ListingInv, StatusFound
<1>4. QED
  BY <1>2, <1>3 DEF Asserted

\* A projection that is asked for shows the row as it is.
LEMMA RequestMatches ==
  ASSUME LifeInv, ListingInv, NEW s \in Slug, Outstanding(s), pending[s].stage = "project"
  PROVE  /\ Matches(s, StageRequest(s).listing)
         /\ pending[s].gen \in Generation /\ SlugOf(pending[s].gen) = s
         /\ Present(pending[s].gen)
<1> USE DEF LifeInv
<1>1. pending[s].gen \in Generation /\ SlugOf(pending[s].gen) = s
  BY PendingBegan
<1>2. pending[s].kind \notin DropKinds
  BY DEF Cells, StagedAt
<1>3. row[s].gen = pending[s].gen
  BY <1>2 DEF Cells, AnchoredAt, Outstanding, DropKinds
<1>4. pending[s].latest = Len(versions[s])
  <2>1. versions[s] \in Seq(Version) /\ Len(versions[s]) \in Nat
    BY DEF Shape, RowsTyped
  <2>2. LatestAt(s)
    BY DEF ListingInv
  <2>3. QED
    BY <1>2, <2>1, <2>2 DEF LatestAt
<1>5. StageRequest(s).listing =
         [status |-> row[s].status, served |-> row[s].served, latest |-> pending[s].latest,
          pinned |-> row[s].pinned, name |-> row[s].name]
  BY DEF StageRequest
<1>6. Matches(s, StageRequest(s).listing)
  BY <1>4, <1>5 DEF Matches
<1>7. QED
  BY <1>1, <1>3, <1>6 DEF Present

\* A projection that may arrive is one that is asked for.
LEMMA ProjectionAsked ==
  ASSUME LifeInv, VisibleInv, "project" \notin LateKinds, NEW m \in Message,
         m.type = "project", Asking(m)
  PROVE  \E s \in Slug : /\ Outstanding(s) /\ m = StageRequest(s)
                         /\ pending[s].stage = "project" /\ pending[s].gen = m.gen
<1>1. m \notin late
  BY DEF VisibleInv, Asked
<1>2. PICK s \in Slug : Outstanding(s) /\ m = StageRequest(s)
  BY <1>1 DEF Asking
<1>3. pending[s].stage = "project" /\ pending[s].gen = m.gen
  BY <1>2 DEF StageRequest
<1>4. QED
  BY <1>2, <1>3

LEMMA ShowsTrue ==
  ASSUME LifeInv, VisibleInv, ListingInv, "project" \notin LateKinds, NEW g \in Generation,
         NEW l, Shows(g, l)
  PROVE  /\ ~Awaited(g)
         /\ Visible(g) /\ Agrees(g) => Matches(SlugOf(g), l)
<1>1. ASSUME NEW m \in Message, m.type = "project", m.gen = g, Asking(m), l = m.listing
      PROVE  ~Awaited(g) /\ Matches(SlugOf(g), l)
  <2>1. PICK s \in Slug : /\ Outstanding(s) /\ m = StageRequest(s)
                          /\ pending[s].stage = "project" /\ pending[s].gen = g
    BY <1>1, ProjectionAsked
  <2>2. QED
    BY <1>1, <2>1, RequestMatches DEF Awaited
<1>2. ASSUME NEW status \in Status, Asserted(g, status),
             l = [EntryOf(g).listing EXCEPT !.status = IF @ = "pending" THEN status ELSE @]
      PROVE  ~Awaited(g) /\ (Visible(g) /\ Agrees(g) => Matches(SlugOf(g), l))
  <2>1. ~Awaited(g)
    <3>1. status \notin {"asking", "absent"}
      BY DEF Status
    <3>2. Held(g)
      BY <1>2, <3>1 DEF Asserted, LifeInv, Confirmed
    <3>3. QED
      BY <3>2 DEF Held, Awaited
  <2>2. ASSUME Visible(g), Agrees(g)
        PROVE  Matches(SlugOf(g), l)
    <3>1. EntryOf(g).listing \in Listing
      BY EntryTyped DEF LifeInv, Shape, Entry
    <3>2. /\ l.status = IF EntryOf(g).listing.status = "pending" THEN status
                                                       ELSE EntryOf(g).listing.status
          /\ l.served = EntryOf(g).listing.served /\ l.pinned = EntryOf(g).listing.pinned
          /\ l.name = EntryOf(g).listing.name /\ l.latest = EntryOf(g).listing.latest
      BY <1>2, <3>1 DEF Listing
    <3>3. status \in {"pending", row[SlugOf(g)].status}
      BY <1>2, <2>2, AssertedTrue
    <3>4. QED
      BY <2>2, <3>2, <3>3 DEF Agrees, Matches
  <2>3. QED
    BY <2>1, <2>2
<1>3. QED
  BY <1>1, <1>2 DEF Shows

\* What becomes of one incarnation's listing.
LEMMA ListingMoves ==
  ASSUME Shape, [Next]_vars, NEW g \in Generation, Listed(g)'
  PROVE  \/ Reserves(g) /\ EntryOf(g)'.listing = FirstListing(g)
         \/ Listed(g) /\ EntryOf(g)'.listing = EntryOf(g).listing
         \/ Listed(g) /\ Shows(g, EntryOf(g)'.listing)
<1>1. LedgerTyped /\ g # None
  BY GenerationFields DEF Shape
<1>2. CASE UNCHANGED <<entries, account>>
  BY <1>2 DEF Listed, EntryOf
<1>3. ASSUME NEW h \in Generation, NEW e \in Entry, Enter(h, e), e.gen \in {h, None}, g # h
      PROVE  Listed(g) /\ EntryOf(g)'.listing = EntryOf(g).listing
  BY <1>1, <1>3, EnterListed
<1>4. ASSUME NEW h \in Generation, Reserve(h), ~UNCHANGED <<entries, account>>
      PROVE  \/ Reserves(g) /\ EntryOf(g)'.listing = FirstListing(g)
             \/ Listed(g) /\ EntryOf(g)'.listing = EntryOf(g).listing
  <2>1. Reserves(h)
    BY <1>4, ReserveMoves
  <2>2. CASE g = h
    <3> DEFINE e == [gen |-> g, charged |-> Creates[g].size, listing |-> FirstListing(g)]
    <3>1. Enter(g, e)
      BY <1>4, <2>2 DEF Reserve, FirstListing
    <3>2. e \in Entry /\ e.gen = g /\ e.listing = FirstListing(g)
      BY GenerationFields, ConstantsAssumption DEF Entry, Listing, Status, Names, FirstListing
    <3> HIDE DEF e
    <3>3. EntryOf(g)' = e
      BY <1>1, <3>1, <3>2, EnterListed
    <3>4. QED
      BY <2>1, <2>2, <3>2, <3>3
  <2>3. CASE g # h
    BY <1>3, <2>1, <2>3 DEF Reserves
  <2>4. QED
    BY <2>2, <2>3
<1>5. ASSUME NEW h \in Generation, Relists(h)
      PROVE  \/ Listed(g) /\ EntryOf(g)'.listing = EntryOf(g).listing
             \/ Listed(g) /\ Shows(g, EntryOf(g)'.listing)
  <2>1. PICK e \in Entry : Enter(h, e) /\ e.gen = h /\ Shows(h, e.listing)
    BY <1>5 DEF Relists
  <2>2. CASE g = h
    <3>1. EntryOf(g)' = e
      BY <1>1, <2>1, <2>2, EnterListed
    <3>2. QED
      BY <1>5, <2>1, <2>2, <3>1 DEF Relists
  <2>3. CASE g # h
    BY <1>3, <2>1, <2>3
  <2>4. QED
    BY <2>2, <2>3
<1>6. ASSUME NEW h \in Generation, Unlists(h)
      PROVE  Listed(g) /\ EntryOf(g)'.listing = EntryOf(g).listing
  <2>1. NoEntry \in Entry /\ NoEntry.gen = None
    BY EmptyRecords DEF NoEntry
  <2>2. g # h
    BY <1>1, <1>6, <2>1, EnterListed DEF Unlists
  <2>3. QED
    BY <1>3, <1>6, <2>1, <2>2 DEF Unlists
<1>7. ASSUME NEW m \in Message, Settles(m)
      PROVE  Listed(g) /\ EntryOf(g)'.listing = EntryOf(g).listing
  <2> DEFINE e == [EntryOf(m.gen) EXCEPT !.charged =
                     IF DecideAnswer(m) = "granted" THEN m.target ELSE @]
  <2>1. /\ m.gen \in Generation /\ m.target \in Nat /\ Listed(m.gen)
        /\ EntryOf(m.gen) \in Entry /\ EntryOf(m.gen).gen = m.gen
    BY <1>1, <1>7, EntryTyped DEF Message, Settles, Listed
  <2>2. /\ e \in Entry /\ e.gen = m.gen /\ Enter(m.gen, e)
        /\ e.listing = EntryOf(m.gen).listing
    BY <1>7, <2>1 DEF Entry, Settles, ArtifactDecide
  <2> HIDE DEF e
  <2>3. CASE g = m.gen
    <3>1. EntryOf(g)' = e
      BY <1>1, <2>1, <2>2, <2>3, EnterListed
    <3>2. QED
      BY <2>1, <2>2, <2>3, <3>1
  <2>4. CASE g # m.gen
    BY <1>3, <2>1, <2>2, <2>4
  <2>5. QED
    BY <2>3, <2>4
<1>8. QED
  BY <1>2, <1>4, <1>5, <1>6, <1>7, LedgerMoves

\* The status of what stays visible is what it was, or ready.
LEMMA StatusStays ==
  ASSUME LifeInv, VisibleInv, ListingInv, [Next]_vars, NEW g \in Generation,
         Visible(g), Visible(g)'
  PROVE  row'[SlugOf(g)].status \in {row[SlugOf(g)].status, "ready"}
<1> USE DEF LifeInv
<1> DEFINE s == SlugOf(g)
<1>1. s \in Slug /\ row[s].gen = g /\ row'[s].gen = g /\ ~Failed(s)' /\ g # None
  BY GenerationFields DEF Visible, Present
<1>2. CASE Begun(s)
  <2>1. Asks(s)
    BY <1>1, <1>2, BegunAsks
  <2>2. CASE Projects(s)
    <3>1. PICK p \in Op : TargetOf(p) = s /\ Project(p)
      BY <2>2 DEF Projects
    <3>2. \/ row' = [row EXCEPT ![s].status = "ready"]
          \/ \E n \in Names : row' = [row EXCEPT ![s].name = n]
      BY <3>1 DEF Project
    <3>3. QED
      BY <1>1, <3>2 DEF Shape, RowsTyped, Row
  <2>3. CASE ~Projects(s)
    BY <1>1, <2>1, <2>3 DEF Asks, Failed
  <2>4. QED
    BY <2>2, <2>3
<1>3. CASE Settling(s)
  BY <1>1, <1>3, SettlingConcludes DEF Concludes
<1>4. CASE Written(s)
  BY <1>1, <1>4 DEF Written, MayPut
<1>5. QED
  BY <1>1, <1>2, <1>3, <1>4, CellMoves DEF Waits, Kept, IdentityAnswers

LEMMA StatusAskedStep ==
  ASSUME LifeInv, VisibleInv, ListingInv, [Next]_vars
  PROVE  StatusAsked'
<1> SUFFICES ASSUME NEW g \in Generation, Visible(g)'
             PROVE  /\ row'[SlugOf(g)].status \in {"pending", "ready"}
                    /\ Creates[g].status = "ready" => row'[SlugOf(g)].status = "ready"
  BY DEF StatusAsked
<1>1. CASE Visible(g)
  BY <1>1, StatusStays DEF ListingInv, StatusAsked
<1>2. CASE ~Visible(g)
  BY <1>2, Appears, GenerationFields
<1>3. QED
  BY <1>1, <1>2

LEMMA StatusFoundStep ==
  ASSUME LifeInv, VisibleInv, ListingInv, [Next]_vars
  PROVE  StatusFound'
<1> SUFFICES ASSUME NEW o \in Owner, NEW g \in Generation, resolver'[o].gen = g,
                    resolver'[o].found \notin {"asking", "absent"}, Visible(g)'
             PROVE  resolver'[o].found \in {"pending", row'[SlugOf(g)].status}
  <2>1. \A o \in Owner : resolver'[o].gen # None => resolver'[o].gen \in Generation
    BY ShapeStep DEF LifeInv, Shape, IntentsTyped, Answer
  <2>2. QED
    BY <2>1 DEF StatusFound
<1>1. g # None
  BY GenerationFields
<1>2. CASE UNCHANGED resolver[o]
  <2>1. Held(g)
    BY <1>2 DEF LifeInv, Confirmed
  <2>2. Visible(g)
    BY <1>1, <2>1, Appears DEF Awaited, Held
  <2>3. resolver[o].found \in {"pending", row[SlugOf(g)].status}
    BY <1>1, <1>2, <2>2 DEF ListingInv, StatusFound
  <2>4. /\ row'[SlugOf(g)].status \in {row[SlugOf(g)].status, "ready"}
        /\ row[SlugOf(g)].status \in {"pending", "ready"}
    BY <1>1, <2>2, StatusStays DEF ListingInv, StatusAsked
  <2>5. QED
    BY <1>2, <2>3, <2>4
<1>3. CASE ~UNCHANGED resolver[o]
  BY <1>1, <1>3, ResolverMoves DEF LifeInv
<1>4. QED
  BY <1>2, <1>3

LEMMA AwaitedStep ==
  ASSUME LifeInv, VisibleInv, ListingInv, "project" \notin LateKinds, [Next]_vars,
         NEW g \in Generation, Awaited(g)'
  PROVE  EntryOf(g)'.listing = FirstListing(g)
<1> USE DEF LifeInv
<1>1. Listed(g)' /\ ~Held(g)' /\ PutWaits(g) /\ ~Barred(g)
  BY PutWaitsStays, BarredStays DEF Awaited, Held
<1>2. CASE create[g] = "new"
  <2>1. ~Listed(g)
    BY <1>2 DEF Unborn
  <2>2. QED
    BY <1>1, <2>1, ListingMoves
<1>3. CASE create[g] # "new"
  <2>1. Awaited(g)
    BY <1>1, <1>3, HeldStep DEF Awaited, Held
  <2>2. ~Reserves(g)
    BY <1>3 DEF Reserves, Reserve
  <2>3. EntryOf(g)'.listing = EntryOf(g).listing
    BY <1>1, <2>1, <2>2, ListingMoves, ShowsTrue
  <2>4. QED
    BY <2>1, <2>3 DEF ListingInv
<1>4. QED
  BY <1>2, <1>3

\* A listing that agrees goes on agreeing while the row stays as it is.
LEMMA AgreesStays ==
  ASSUME LifeInv, VisibleInv, ListingInv, "project" \notin LateKinds, [Next]_vars,
         NEW g \in Generation, Visible(g), Listed(g)', Agrees(g),
         LET s == SlugOf(g) IN
         UNCHANGED <<row[s].status, row[s].served, row[s].pinned, row[s].name, versions[s]>>
  PROVE  Agrees(g)'
<1>1. ~Reserves(g)
  BY DEF LifeInv, Unborn, Visible, Reserves, Reserve
<1>2. EntryOf(g)'.listing = EntryOf(g).listing \/ Shows(g, EntryOf(g)'.listing)
  BY <1>1, ListingMoves DEF LifeInv
<1>3. Matches(SlugOf(g), EntryOf(g)'.listing)
  BY <1>2, ShowsTrue DEF Agrees
<1>4. QED
  BY <1>3 DEF Agrees, Matches

\* What was answered "projected" is what the row shows.
LEMMA ProjectedAgrees ==
  ASSUME LifeInv, ListingInv, NEW s \in Slug, IdentityAnswers(s), handler'[s].at = "projected"
  PROVE  Agrees(pending[s].gen)'
<1> USE DEF LifeInv
<1> DEFINE m == StageRequest(s)
           g == pending[s].gen
           e == [EntryOf(g) EXCEPT !.listing = m.listing]
<1>1. /\ Outstanding(s) /\ StageAnswer(m) = "projected" /\ pending[s].stage = "project"
  BY AnswerMoves
<1>2. /\ Matches(s, m.listing) /\ g \in Generation /\ SlugOf(g) = s
  BY <1>1, RequestMatches
<1>3. m \in Message /\ m.type = "project" /\ m.gen = g /\ m.listing \in Listing
  BY <1>1, StageRequestTyped DEF StageRequest, Outstanding, Message
<1>4. MayProject(m) /\ Enter(g, e)
  BY <1>1, <1>3 DEF StageAnswer, IdentityAnswers, StageEffect, ArtifactProject
<1>5. EntryOf(g) \in Entry /\ EntryOf(g).gen = g
  BY <1>2, <1>3, <1>4, EntryTyped DEF Shape, MayProject, Listed
<1>6. e \in Entry /\ e.gen = g /\ e.listing = m.listing
  BY <1>3, <1>5 DEF Entry
<1> HIDE DEF e
<1>7. EntryOf(g)' = e
  <2>1. \A h \in Generation : Enter(h, e) /\ e.gen = h => EntryOf(h)' = e
    BY <1>6, EnterListed DEF Shape
  <2>2. UNCHANGED pending
    BY DEF IdentityAnswers
  <2>3. QED
    BY <1>2, <1>4, <1>6, <2>1, <2>2
<1>8. QED
  BY <1>2, <1>6, <1>7 DEF Agrees, Matches, IdentityAnswers
LEMMA PresentedStep ==
  ASSUME ChargeInv, VisibleInv, ListingInv, "project" \notin LateKinds, [Next]_vars,
         VisibleListed', NEW g \in Generation, Visible(g)', Presented(SlugOf(g))'
  PROVE  Agrees(g)'
<1> DEFINE s == SlugOf(g)
           q == pending[s]
<1>1. LifeInv /\ Shape /\ Cells /\ Unborn /\ Records
  BY DEF ChargeInv, LifeInv
<1>2. s \in Slug /\ g # None /\ AnchoredAt(s) /\ StagedAt(s) /\ Listed(g)'
  BY <1>1, Whose DEF VisibleListed
<1>3. CASE ~Visible(g)
  <2>1. /\ Awaited(g) /\ create[g] # "new"
        /\ row'[s].status = Creates[g].status
        /\ row'[s].served = 1 /\ row'[s].pinned = 0 /\ row'[s].name = 0
        /\ versions'[s] = <<[upload |-> g, charge |-> Creates[g].size, deleted |-> FALSE]>>
    BY <1>1, <1>3, Appears
  <2>2. EntryOf(g)'.listing = FirstListing(g)
    <3>1. ~Reserves(g)
      BY <2>1 DEF Reserves, Reserve
    <3>2. EntryOf(g)'.listing = EntryOf(g).listing
      BY <1>1, <1>2, <2>1, <3>1, ListingMoves, ShowsTrue
    <3>3. QED
      BY <2>1, <3>2 DEF ListingInv
  <2>3. Len(versions'[s]) = 1
    BY <2>1
  <2>4. QED
    BY <2>1, <2>2, <2>3 DEF Agrees, Matches, FirstListing
<1>4. CASE Visible(g)
  <2>1. row[s].gen = g /\ row'[s].gen = g /\ ~Failed(s) /\ Listed(g)
    BY <1>4 DEF Visible, Present, VisibleInv, VisibleListed
  <2>2. ASSUME Presented(s),
               UNCHANGED <<row[s].status, row[s].served, row[s].pinned, row[s].name, versions[s]>>
        PROVE  Agrees(g)'
    BY <1>1, <1>2, <1>4, <2>2, AgreesStays DEF ListingInv
  <2>3. Outstanding(s) => q.gen = g /\ q.kind \notin DropKinds
    BY <1>2, <2>1 DEF AnchoredAt, StagedAt, Outstanding, DropKinds
  <2>4. CASE Kept(s) /\ (UNCHANGED handler[s] \/ handler'[s].at \in {"idle", "call"})
    BY <2>2, <2>4 DEF Kept, Presented, Outstanding
  <2>5. CASE Written(s)
    BY <1>2, <2>1, <2>5 DEF Written, MayPut
  <2>6. CASE Begun(s)
    <3>1. Asks(s)
      BY <1>1, <1>2, <2>6, BegunAsks
    <3>2. pending'[s].kind = "append"
      BY <3>1 DEF Asks, Presented, Outstanding
    <3>3. Presented(s) /\ UNCHANGED <<row[s], versions[s]>>
      BY <3>1, <3>2 DEF Asks, Presented
    <3>4. QED
      BY <2>2, <3>3
  <2>7. CASE IdentityAnswers(s)
    <3>1. UNCHANGED <<row, versions, pending>> /\ Outstanding(s)
      BY <1>1, <1>2, <2>7, AnswerMoves DEF IdentityAnswers
    <3>2. CASE handler'[s].at = "projected"
      BY <1>1, <1>2, <2>3, <2>7, <3>1, <3>2, ProjectedAgrees
    <3>3. CASE handler'[s].at # "projected"
      BY <2>2, <3>1, <3>3 DEF Presented, Outstanding
    <3>4. QED
      BY <3>2, <3>3
  <2>8. CASE Settling(s)
    <3>1. Concludes(s) /\ Views(s) /\ Outstanding(s)
      BY <1>1, <1>2, <2>8, SettlingConcludes, SettlingViews DEF Concludes
    <3>2. CASE handler[s].at = "granted"
      BY <3>1, <3>2 DEF Concludes, Presented, Outstanding
    <3>3. CASE handler[s].at # "granted"
      <4>1. /\ pending'[s].kind = "none" /\ UNCHANGED row[s].status
            /\ handler[s].at \in {"absent", "dropped", "refused", "projected"}
        BY <3>1, <3>3 DEF Concludes
      <4>2. handler[s].at \notin {"absent", "dropped"}
        BY <1>2, <2>1, <2>3, <3>1 DEF StagedAt
      <4>3. ASSUME handler[s].at = "refused"
            PROVE  q.kind = "append" /\ q.stage = "decide"
        <5>1. q.stage = "decide" /\ HasPending(g)
          BY <1>2, <2>3, <3>1, <4>3 DEF StagedAt, HasPending
        <5>2. Deciding(g)
          BY <2>1 DEF ChargeInv, ChargedFor
        <5>3. QED
          BY <4>3, <5>1, <5>2 DEF Deciding
      <4>4. Presented(s)
        BY <4>1, <4>2, <4>3 DEF Presented
      <4>5. UNCHANGED <<row[s].served, row[s].pinned, row[s].name, versions[s]>>
        BY <3>1, <3>3, <4>1 DEF Views, Outstanding
      <4>6. QED
        BY <2>2, <4>1, <4>4, <4>5
    <3>4. QED
      BY <3>2, <3>3
  <2>9. QED
    BY <1>1, <1>2, <2>4, <2>5, <2>6, <2>7, <2>8, CellMoves DEF Waits
<1>5. QED
  BY <1>3, <1>4

LEMMA ListingInit == Init => ListingInv
<1> SUFFICES ASSUME Init
             PROVE  ListingInv
  OBVIOUS
<1>1. \A g \in Generation : ~Visible(g) /\ ~Awaited(g)
  BY GenerationFields DEF Init, Visible, Present, NoRow, Awaited, Listed, EntryOf, NoEntry
<1>2. \A s \in Slug : LatestAt(s)
  BY DEF Init, LatestAt, Outstanding, NoPending
<1>3. StatusFound /\ StatusAsked
  BY <1>1 DEF Init, StatusFound, StatusAsked, NoAnswer
<1>4. QED
  BY <1>1, <1>2, <1>3 DEF ListingInv

\* The artifact, its charge and its listing together.
SettledInv == ShownInv /\ ListingInv

\* What may go wrong with a listing beside the removals: two projections at one
\* version, of which a status change and a rename each make one.
SettledListings == SettledRemovals /\ "project" \notin LateKinds

LEMMA SettledStep ==
  ASSUME SettledInv, SettledListings, [Next]_vars
  PROVE  SettledInv'
<1>1. ChargeInv /\ LifeInv /\ VisibleInv /\ ListingInv /\ ShownInv
  BY DEF SettledInv, ShownInv, ChargeInv
<1>2. ShownInv' /\ VisibleListed'
  BY <1>1, ShownStep DEF SettledListings, ShownInv, VisibleInv
<1>3. \A g \in Generation : Visible(g)' /\ Presented(SlugOf(g))' => Agrees(g)'
  BY <1>1, <1>2, PresentedStep DEF SettledListings
<1>4. \A g \in Generation : Awaited(g)' => EntryOf(g)'.listing = FirstListing(g)
  BY <1>1, AwaitedStep DEF SettledListings
<1>5. \A s \in Slug : LatestAt(s)'
  BY <1>1, LatestStep DEF LifeInv, ListingInv
<1>6. StatusFound' /\ StatusAsked'
  BY <1>1, StatusFoundStep, StatusAskedStep
<1>7. ListingInv'
  BY <1>3, <1>4, <1>5, <1>6 DEF ListingInv
<1>8. QED
  BY <1>2, <1>7 DEF SettledInv

\* A cell with nothing pending is listed as it is and charged exactly, whatever
\* is lost on the way there and however late a decision or a drop arrives
\* (resumeArtifactPending, artifactproject, confirm): no projection arrives
\* late, and no removal meets a put of the same create.
THEOREM AlwaysSettledAgrees ==
  ASSUME SettledListings
  PROVE  Spec => []SettledAgrees
<1>1. Init => SettledInv
  BY ChargeInit, VisibleInit, ListingInit DEF SettledInv, ShownInv
<1>2. SettledInv /\ [Next]_vars => SettledInv'
  BY SettledStep
<1>3. SettledInv => SettledAgrees
  <2> SUFFICES ASSUME SettledInv, NEW g \in Generation, Visible(g), ~Outstanding(SlugOf(g))
               PROVE  EntryOf(g).charged = LiveOf(SlugOf(g)) /\ Agrees(g)
    BY DEF SettledAgrees, Outstanding, LiveOf, Agrees, Matches
  <2>1. Agrees(g)
    BY DEF SettledInv, ListingInv, Presented
  <2>2. Listed(g) /\ Present(g)
    BY DEF SettledInv, ShownInv, VisibleInv, VisibleListed, Visible
  <2>3. EntryOf(g).charged = account[g].allocated /\ Steady(g)
    BY <2>2 DEF SettledInv, ShownInv, ChargeInv, ChargeIsAllocation, ChargedFor
  <2>4. QED
    BY <2>1, <2>2, <2>3 DEF Steady
<1>4. QED
  BY <1>1, <1>2, <1>3, PTL DEF Spec

-----------------------------------------------------------------------------
(* The book the cells keep.                                                *)

\* What lists no incarnation is charged nothing.
EmptyFree == \A o \in Owner, s \in Slug : entries[o][s].gen = None => entries[o][s].charged = 0

\* What failed is being released, or has been.
FailedOver ==
    \A g \in Generation : LET s == SlugOf(g) IN
       Present(g) /\ Failed(s) /\ pending[s].kind # "fail" =>
          ~Listed(g) /\ handler[s].at \notin {"granted", "refused"}

\* An append is of the generation its request read.
AppendsOwn == \A s \in Slug : pending[s].kind = "append" => pending[s].gen = GenOf(pending[s].op)

BookInv == ShownInv /\ AppendInv /\ EmptyFree /\ FailedOver /\ AppendsOwn

LEMMA EmptyFreeStep ==
  ASSUME Shape, EmptyFree, [Next]_vars
  PROVE  EmptyFree'
<1>1. LedgerTyped /\ NoEntry \in Entry /\ NoEntry.charged = 0
  BY EmptyRecords DEF Shape, NoEntry
<1>2. ASSUME NEW h \in Generation, NEW e \in Entry, Enter(h, e), e.gen = None => e.charged = 0
      PROVE  EmptyFree'
  BY <1>1, <1>2, GenerationFields DEF Enter, EmptyFree, LedgerTyped
<1>3. CASE UNCHANGED entries
  BY <1>3 DEF EmptyFree
<1>4. ASSUME NEW h \in Generation, Reserves(h) \/ Relists(h)
      PROVE  EmptyFree'
  <2>1. h # None
    BY GenerationFields
  <2>2. QED
    BY <1>2, <1>4, <2>1 DEF Reserves, Relists
<1>5. ASSUME NEW h \in Generation, Unlists(h)
      PROVE  EmptyFree'
  BY <1>1, <1>2, <1>5 DEF Unlists
<1>6. ASSUME NEW m \in Message, Settles(m)
      PROVE  EmptyFree'
  <2>1. PICK e \in Entry : m.gen \in Generation /\ Enter(m.gen, e) /\ e.gen = m.gen
    BY <1>1, <1>6, SettlesEnters
  <2>2. m.gen # None
    BY <2>1, GenerationFields
  <2>3. QED
    BY <1>2, <2>1, <2>2
<1>7. QED
  BY <1>3, <1>4, <1>5, <1>6, LedgerMoves, ReserveMoves

\* A status or a name that is written does not make an artifact fail.
LEMMA ProjectsFailed ==
  ASSUME Shape, Cells, ReadyNotFailed, NEW s \in Slug, Projects(s)
  PROVE  Failed(s)' <=> Failed(s)
<1>1. PICK p \in Op : /\ TargetOf(p) = s /\ Project(p)
                      /\ \/ handler[s].at = "next" /\ handler[s].then = p
                         \/ KindOf(p) = "ready" => row[s].status = "pending"
  BY DEF Projects
<1>2. CASE KindOf(p) = "ready"
  <2>1. ~Failed(s)
    BY <1>1, <1>2 DEF ReadyNotFailed, Failed
  <2>2. row'[s].status = "ready"
    BY <1>1, <1>2 DEF Project, Shape, RowsTyped, Row
  <2>3. QED
    BY <2>1, <2>2 DEF Failed
<1>3. CASE KindOf(p) # "ready"
  <2>1. \E n \in Names : row' = [row EXCEPT ![s].name = n]
    BY <1>1, <1>3 DEF Project
  <2>2. QED
    BY <2>1 DEF Failed, Shape, RowsTyped, Row
<1>4. QED
  BY <1>2, <1>3

\* What failed stays so, and its charge does not come back.
LEMMA FailedStep ==
  ASSUME ShownInv, FailedOver, [Next]_vars
  PROVE  FailedOver'
<1> SUFFICES ASSUME NEW g \in Generation, Present(g)', Failed(SlugOf(g))',
                    pending'[SlugOf(g)].kind # "fail"
             PROVE  ~Listed(g)' /\ handler'[SlugOf(g)].at \notin {"granted", "refused"}
  BY DEF FailedOver
<1> DEFINE s == SlugOf(g)
           q == pending[s]
<1>1. /\ LifeInv /\ Shape /\ Cells /\ Unborn /\ Records /\ ReadyNotFailed
      /\ s \in Slug /\ g # None /\ AnchoredAt(s) /\ StagedAt(s) /\ row'[s].gen = g
  BY Whose DEF ShownInv, ChargeInv, LifeInv, VisibleInv, Present
<1>2. ASSUME Present(g), ~Listed(g)
      PROVE  ~Listed(g)'
  BY <1>1, <1>2, UnlistedStays DEF Unborn
<1>3. ASSUME Present(g), Failed(s), q.kind # "fail"
      PROVE  ~Listed(g) /\ ~Listed(g)' /\ handler[s].at \notin {"granted", "refused"}
  BY <1>2, <1>3 DEF FailedOver
<1>4. CASE Kept(s) /\ (UNCHANGED handler[s] \/ handler'[s].at \in {"idle", "call"})
  BY <1>1, <1>3, <1>4 DEF Kept, Present, Failed
<1>5. ~Written(s)
  BY <1>1, GenerationFields DEF Written, Failed
<1>6. CASE Begun(s)
  <2>1. Asks(s)
    BY <1>1, <1>6, BegunAsks
  <2>2. Present(g) /\ Failed(s)
    BY <1>1, <2>1, ProjectsFailed DEF Asks, Present, Failed
  <2>3. handler'[s].at = "call" /\ q.kind # "fail"
    BY <2>1 DEF Asks, Outstanding
  <2>4. QED
    BY <1>3, <2>2, <2>3
<1>7. CASE IdentityAnswers(s)
  <2> DEFINE m == StageRequest(s)
  <2>1. /\ Kept(s) /\ Outstanding(s) /\ handler'[s].at = StageAnswer(m)
        /\ handler'[s].at \in {"granted", "refused"} => q.stage = "decide"
    BY <1>1, <1>7, AnswerMoves
  <2>2. Present(g) /\ Failed(s) /\ q.kind # "fail"
    BY <1>1, <2>1 DEF Kept, Present, Failed
  <2>3. ~Listed(g) /\ ~Listed(g)'
    BY <1>3, <2>2
  <2>4. m.gen = g /\ m.type = q.stage
    BY <1>1, <2>1, <2>2 DEF StageRequest, AnchoredAt, Outstanding, Present
  <2>5. DecideAnswer(m) \notin {"granted", "refused"}
    BY <2>3, <2>4 DEF DecideAnswer
  <2>6. m.type = "decide" => StageAnswer(m) = DecideAnswer(m)
    BY DEF StageAnswer
  <2>7. QED
    BY <2>1, <2>3, <2>4, <2>5, <2>6
<1>8. CASE Settling(s)
  <2>1. Concludes(s) /\ Outstanding(s)
    BY <1>1, <1>8, SettlingConcludes DEF Concludes
  <2>2. Present(g) /\ Failed(s) /\ handler'[s].at \notin {"granted", "refused"}
    BY <1>1, <2>1 DEF Concludes, Present, Failed
  <2>3. CASE q.kind # "fail"
    BY <1>3, <2>2, <2>3
  <2>4. CASE q.kind = "fail"
    <3>1. pending'[s].kind = "none"
      BY <2>1, <2>4 DEF Concludes
    <3>2. handler[s].at \in {"absent", "dropped"}
      BY <1>1, <2>1, <2>4, <3>1 DEF Concludes, StagedAt, DropKinds
    <3>3. q.gen = g
      BY <1>1, <2>2, <2>4 DEF AnchoredAt, Present
    <3>4. ~Listed(g)
      BY <1>1, <3>2, <3>3 DEF StagedAt
    <3>5. QED
      BY <1>2, <2>2, <3>4
  <2>5. QED
    BY <2>3, <2>4
<1>9. QED
  BY <1>1, <1>4, <1>5, <1>6, <1>7, <1>8, CellMoves DEF Waits

LEMMA AppendsOwnStep ==
  ASSUME LifeInv, AppendsOwn, [Next]_vars
  PROVE  AppendsOwn'
<1> SUFFICES ASSUME NEW s \in Slug, pending'[s].kind = "append"
             PROVE  pending'[s].gen = GenOf(pending'[s].op)
  BY DEF AppendsOwn
<1> DEFINE q == pending[s]
<1>1. /\ Shape /\ Cells /\ Unborn /\ WorkTyped /\ q \in Pending /\ AnchoredAt(s)
      /\ q.kind = "append" => q.gen = GenOf(q.op)
  BY DEF LifeInv, AppendsOwn, Shape, WorkTyped, Cells
<1>2. CASE UNCHANGED pending[s]
  BY <1>1, <1>2
<1>3. CASE Begun(s)
  <2>1. PICK p \in Op : /\ TargetOf(p) = s
                        /\ \/ StartAppend(p) \/ StartDelete(p) \/ StartPin(p) \/ StartRemove(p)
                           \/ StartFail(p) \/ Project(p)
    BY <1>3 DEF Begun, Projects
  <2>2. \A kind, target, cap, latest, charge :
           LET a == Decide(p, kind, target, cap, latest, charge) IN
           a.kind = kind /\ a.gen = GenOf(p) /\ a.op = p
    BY DEF Decide
  <2>3. \A a : Begin(s, a) => pending'[s] = a
    BY <1>1 DEF Begin, WorkTyped
  <2>4. CASE StartAppend(p)
    <3>1. PICK charge \in Charges :
             Begin(s, Decide(p, "append", LiveCharge(versions[s]) + charge, UserCap,
                             Len(versions[s]) + 1, charge))
      BY <2>1, <2>4 DEF StartAppend
    <3>2. QED
      BY <2>2, <2>3, <3>1
  <2>5. CASE StartDelete(p)
    <3>1. \E target, latest : Begin(s, Decide(p, "deleteVersion", target, 0, latest, 0))
      BY <2>1, <2>5, Zenon DEF StartDelete
    <3>2. QED
      BY <2>2, <2>3, <3>1
  <2>6. CASE StartPin(p) \/ StartRemove(p) \/ StartFail(p)
    <3>1. \E kind, target, latest :
             Begin(s, Decide(p, kind, target, 0, latest, 0)) /\ kind # "append"
      BY <2>1, <2>6 DEF StartPin, StartRemove, StartFail
    <3>2. QED
      BY <2>2, <2>3, <3>1
  <2>7. CASE Project(p)
    <3> DEFINE a == [NoPending EXCEPT !.kind = "projection", !.stage = "project",
                                      !.gen = GenOf(p), !.version = row[s].version,
                                      !.latest = Len(versions[s])]
    <3>1. Begin(s, a)
      BY <2>1, <2>7 DEF Project
    <3>2. a.kind = "projection"
      BY DEF NoPending
    <3> HIDE DEF a
    <3>3. QED
      BY <2>3, <3>1, <3>2
  <2>8. QED
    BY <2>1, <2>4, <2>5, <2>6, <2>7
<1>4. CASE Settling(s)
  <2>1. Concludes(s)
    BY <1>1, <1>4, SettlingConcludes
  <2>2. CASE Publish(s)
    <3>1. pending'[s] = [q EXCEPT !.stage = "project"]
      BY <1>1, <2>2, GoOnFields DEF Publish
    <3>2. QED
      BY <1>1, <3>1 DEF Pending
  <2>3. CASE ~Publish(s)
    <3>1. handler[s].at = "granted" /\ q.kind = "append"
      BY <2>1 DEF Concludes
    <3>2. AbandonAppend(s)
      BY <1>4, <2>3, <3>1 DEF Settling, SettleAbsent, Refuse, Advance, Clear, FinishDrop
    <3>3. pending'[s].kind = "abandon"
      <4>1. pending'[s] = [q EXCEPT !.kind = "abandon", !.version = @ + 1, !.target = @ - q.charge,
                                    !.latest = Len(versions[s]), !.charge = 0]
        BY <1>1, <3>2, GoOnFields DEF AbandonAppend
      <4>2. QED
        BY <1>1, <4>1 DEF Pending
    <3>4. QED
      BY <3>3
  <2>4. QED
    BY <2>2, <2>3
<1>5. QED
  BY <1>1, <1>2, <1>3, <1>4, CellMoves DEF Waits, Kept, Written, IdentityAnswers

LEMMA BookInit == Init => BookInv
<1> SUFFICES ASSUME Init
             PROVE  BookInv
  OBVIOUS
<1>1. ShownInv /\ AppendInv
  BY ChargeInit, VisibleInit, AppendInit DEF ShownInv
<1>2. EmptyFree /\ AppendsOwn
  BY DEF Init, EmptyFree, AppendsOwn, NoEntry, NoPending
<1>3. FailedOver
  BY GenerationFields DEF Init, FailedOver, Failed, NoRow
<1>4. QED
  BY <1>1, <1>2, <1>3 DEF BookInv

LEMMA BookStep ==
  ASSUME BookInv, SettledRemovals, [Next]_vars
  PROVE  BookInv'
<1>1. ShownInv /\ LifeInv /\ Shape
  BY DEF BookInv, ShownInv, ChargeInv, LifeInv
<1>2. ShownInv' /\ AppendInv'
  BY ShownStep, AppendStep DEF BookInv
<1>3. EmptyFree' /\ FailedOver' /\ AppendsOwn'
  BY <1>1, EmptyFreeStep, FailedStep, AppendsOwnStep DEF BookInv
<1>4. QED
  BY <1>2, <1>3 DEF BookInv

-----------------------------------------------------------------------------
(* What the book reads off the cells.                                      *)

\* The life of a create, once it has begun.
LEMMA LifeIs ==
  ASSUME NEW g \in Generation
  PROVE  /\ create[g] = "new" => LifeOf(g) = "new"
         /\ create[g] # "new" =>
              /\ Visible(g) => LifeOf(g) = "shown"
              /\ ~Visible(g) /\ ~Listed(g) => LifeOf(g) = "over"
              /\ ~Visible(g) /\ Listed(g) =>
                    LifeOf(g) = IF Present(g) \/ Removing(g) THEN "down" ELSE "reserved"
BY DEF LifeOf

LEMMA LifeNext ==
  ASSUME NEW g \in Generation
  PROVE  /\ create'[g] = "new" => LifeOf(g)' = "new"
         /\ create'[g] # "new" =>
              /\ Visible(g)' => LifeOf(g)' = "shown"
              /\ ~Visible(g)' /\ ~Listed(g)' => LifeOf(g)' = "over"
              /\ ~Visible(g)' /\ Listed(g)' =>
                    LifeOf(g)' = IF Present(g)' \/ Removing(g)' THEN "down" ELSE "reserved"
BY DEF LifeOf

LEMMA SameLife ==
  ASSUME NEW g \in Generation, Visible(g)' <=> Visible(g), Listed(g)' <=> Listed(g),
         ~Visible(g) /\ Listed(g) => ((Present(g) \/ Removing(g)) <=> (Present(g) \/ Removing(g))'),
         create'[g] = "new" <=> create[g] = "new"
  PROVE  LifeOf(g)' = LifeOf(g)
<1>1. CASE create[g] = "new"
  BY <1>1, LifeIs, LifeNext
<1>2. CASE create[g] # "new"
  BY <1>2, LifeIs, LifeNext
<1>3. QED
  BY <1>1, <1>2

LEMMA SameHeld ==
  ASSUME NEW g \in Generation, Visible(g)' <=> Visible(g),
         Visible(g) => UNCHANGED versions[SlugOf(g)]
  PROVE  HeldOf(g)' = HeldOf(g)
BY DEF HeldOf

LEMMA BookBecomes ==
  ASSUME NEW g \in Generation, NEW stage, LifeOf(g)' = stage,
         \A x \in Generation \ {g} : LifeOf(x)' = LifeOf(x)
  PROVE  Book!Becomes(g, stage)
BY DEF Book!Becomes

LEMMA BookHolds ==
  ASSUME NEW g \in Generation, NEW uploads, NEW bytes,
         HeldOf(g)' = [uploads |-> uploads, bytes |-> bytes],
         \A x \in Generation \ {g} : HeldOf(x)' = HeldOf(x)
  PROVE  Book!Holds(g, uploads, bytes)
BY DEF Book!Holds

LEMMA BookBills ==
  ASSUME LedgerTyped, NEW g \in Generation, NEW e, Enter(g, e)
  PROVE  Book!Bills(g, e.charged)
<1> DEFINE bills == [o \in Owner |-> [s \in Slug |-> entries[o][s].charged]]
<1>1. OwnerOf(g) \in Owner /\ SlugOf(g) \in Slug
  BY GenerationFields
<1>2. \A o \in Owner, s \in Slug :
         entries'[o][s].charged = IF o = OwnerOf(g) /\ s = SlugOf(g) THEN e.charged
                                                                     ELSE entries[o][s].charged
  BY <1>1 DEF Enter, LedgerTyped
<1>3. bills' = [bills EXCEPT ![OwnerOf(g)][SlugOf(g)] = e.charged]
  <2> DEFINE after == [bills EXCEPT ![OwnerOf(g)][SlugOf(g)] = e.charged]
  <2>1. bills' = [o \in Owner |-> [s \in Slug |-> entries'[o][s].charged]]
    OBVIOUS
  <2>2. after = [o \in Owner |-> IF o = OwnerOf(g)
                                 THEN [bills[o] EXCEPT ![SlugOf(g)] = e.charged] ELSE bills[o]]
    BY <1>1
  <2>3. ASSUME NEW o \in Owner
        PROVE  [s \in Slug |-> entries'[o][s].charged] = after[o]
    <3>1. bills[o] = [s \in Slug |-> entries[o][s].charged]
      BY <2>3
    <3>2. CASE o = OwnerOf(g)
      <4>1. after[o] = [bills[o] EXCEPT ![SlugOf(g)] = e.charged]
        BY <2>2, <2>3, <3>2
      <4>2. [bills[o] EXCEPT ![SlugOf(g)] = e.charged]
               = [s \in Slug |-> IF s = SlugOf(g) THEN e.charged ELSE entries[o][s].charged]
        BY <3>1
      <4> HIDE DEF after, bills
      <4>3. QED
        BY <1>2, <2>3, <3>2, <4>1, <4>2
    <3>3. CASE o # OwnerOf(g)
      <4>1. after[o] = bills[o]
        BY <2>2, <2>3, <3>3
      <4> HIDE DEF after, bills
      <4>2. QED
        BY <1>2, <2>3, <3>1, <3>3, <4>1
    <3>4. QED
      BY <3>2, <3>3
  <2> HIDE DEF after
  <2>4. after = [o \in Owner |-> after[o]]
    BY <2>2
  <2>5. QED
    BY <2>1, <2>3, <2>4 DEF after
<1>4. QED
  BY <1>3 DEF Book!Bills, OwnerOf, SlugOf

LEMMA BookAnswers ==
  ASSUME NEW p \in Op, NEW answer, receipts[p] = "none", receipts' = [receipts EXCEPT ![p] = answer]
  PROVE  Book!Answers(p, answer)
BY DEF Book!Answers

LEMMA BookReads ==
  ASSUME LedgerTyped, NEW g \in Generation
  PROVE  /\ Book!Billed(g) = EntryOf(g).charged
         /\ Book!BilledInAll(Creates[g].owner) = OwnerTotal(OwnerOf(g))
         /\ \A x \in Generation : Book!Pays(x) <=> LifeOf(x) \in {"reserved", "shown", "down"}
<1>1. OwnerOf(g) \in Owner /\ SlugOf(g) \in Slug
  BY GenerationFields
<1>2. Book!Billed(g) = EntryOf(g).charged
  BY <1>1 DEF Book!Billed, EntryOf, OwnerOf, SlugOf
<1>3. Book!BilledInAll(Creates[g].owner) = OwnerTotal(OwnerOf(g))
  <2> DEFINE o == OwnerOf(g)
  <2>1. Creates[g].owner = o
    BY DEF OwnerOf
  <2> HIDE DEF o
  <2>2. [x \in Owner |-> [s \in Slug |-> entries[x][s].charged]][o]
           = [s \in Slug |-> entries[o][s].charged]
    BY <1>1 DEF o
  <2>3. \A f : Book!Total(f) = Total(f)
    <3>1. \A f : Book!Units(f) = Units(f)
      BY Zenon DEF Book!Units, Units
    <3>2. \A S : Book!Cardinality(S) = Cardinality(S)
      BY Zenon DEF Book!Cardinality, Cardinality
    <3>3. QED
      BY <3>1, <3>2, Zenon DEF Book!Total, Total
  <2>5. Book!BilledInAll(o) = Total([s \in Slug |-> entries[o][s].charged])
    BY <2>2, <2>3 DEF Book!BilledInAll
  <2>4. QED
    BY <2>1, <2>5 DEF o, OwnerTotal
<1>4. \A x \in Generation : Book!Pays(x) <=> LifeOf(x) \in {"reserved", "shown", "down"}
  BY DEF Book!Pays
<1>5. QED
  BY <1>2, <1>3, <1>4

\* What a step leaves alone in the book.
SameLives == \A x \in Generation : LifeOf(x)' = LifeOf(x)
SameHoldings == \A x \in Generation : HeldOf(x)' = HeldOf(x)
SameBills == \A o \in Owner, s \in Slug : entries'[o][s].charged = entries[o][s].charged

LEMMA BookLeaves ==
  /\ SameLives => UNCHANGED [g \in Generation |-> LifeOf(g)]
  /\ SameHoldings => UNCHANGED [g \in Generation |-> HeldOf(g)]
  /\ SameBills => UNCHANGED [o \in Owner |-> [s \in Slug |-> entries[o][s].charged]]
BY DEF SameLives, SameHoldings, SameBills

LEMMA BookStutters ==
  ASSUME SameLives, SameHoldings, SameBills, UNCHANGED receipts
  PROVE  [Book!BookNext]_(Book!bookVars)
BY BookLeaves DEF Book!bookVars

\* Every payer is listed.
LEMMA PayersListed ==
  ASSUME ShownInv, NEW g \in Generation, LifeOf(g) \in {"reserved", "shown", "down"}
  PROVE  create[g] # "new" /\ Listed(g)
<1>1. VisibleListed
  BY DEF ShownInv, VisibleInv
<1>2. QED
  BY <1>1, LifeIs DEF VisibleListed

-----------------------------------------------------------------------------
(* The steps of the ledgers, which leave the cells of the slugs alone.     *)

LedgerStepOnly == UNCHANGED <<row, versions, tombstone, receipts>>

LEMMA LedgersAlone ==
  ASSUME LedgerStepOnly
  PROVE  /\ \A g \in Generation : /\ Visible(g)' <=> Visible(g)
                                  /\ Present(g)' <=> Present(g)
                                  /\ Removing(g)' <=> Removing(g)
         /\ SameHoldings
<1>1. \A g \in Generation : /\ Visible(g)' <=> Visible(g)
                            /\ Present(g)' <=> Present(g)
                            /\ Removing(g)' <=> Removing(g)
  BY DEF LedgerStepOnly, Visible, Present, Failed, Removing
<1>2. QED
  BY <1>1, SameHeld DEF SameHoldings, LedgerStepOnly

\* A create that begins is turned away, or it pays.
LEMMA ReserveBook ==
  ASSUME BookInv, LedgerStepOnly, [Next]_vars, NEW g \in Generation, Reserve(g)
  PROVE  [Book!BookNext]_(Book!bookVars)
<1>1. /\ ShownInv /\ Shape /\ LedgerTyped /\ Unborn
      /\ create \in [Generation -> {"new", "put", "retry", "confirm", "release", "done", "failed"}]
  BY DEF BookInv, ShownInv, ChargeInv, LifeInv, Shape, FrontTyped
<1>2. /\ create[g] = "new" /\ create'[g] # "new"
      /\ \A x \in Generation \ {g} : create'[x] = create[x]
  BY <1>1 DEF Reserve
<1>3. LifeOf(g) = "new" /\ ~Listed(g) /\ ~Visible(g) /\ ~Present(g) /\ ~Removing(g)
  BY <1>1, <1>2, LifeIs DEF Unborn, Visible
<1>4. SameHoldings /\ ~Visible(g)' /\ ~Present(g)' /\ ~Removing(g)'
  BY <1>3, LedgersAlone
<1>5. CASE UNCHANGED <<entries, account>>
  <2>1. ~Listed(g)' /\ SameBills
    BY <1>3, <1>5 DEF Listed, EntryOf, SameBills
  <2>2. LifeOf(g)' = "over"
    BY <1>2, <1>4, <2>1, LifeNext
  <2>3. \A x \in Generation \ {g} : LifeOf(x)' = LifeOf(x)
    <3>1. \A x \in Generation \ {g} : Listed(x)' <=> Listed(x)
      BY <1>5 DEF Listed, EntryOf
    <3>2. QED
      BY <1>2, <3>1, LedgersAlone, SameLife
  <2>4. Book!Becomes(g, "over")
    BY <2>2, <2>3, BookBecomes
  <2>5. Book!TurnAway(g)
    BY <1>3, <1>4, <2>1, <2>4, BookLeaves DEF Book!TurnAway, LedgerStepOnly
  <2>6. QED
    BY <2>5 DEF Book!BookNext
<1>6. CASE Reserves(g)
  <2>1. PICK e \in Entry : Enter(g, e) /\ e.gen = g /\ e.charged = Creates[g].size
    BY <1>6 DEF Reserves
  <2>2. EntryOf(g).gen = None /\ ~(OwnerTotal(OwnerOf(g)) + Creates[g].size > UserCap)
    BY <1>6 DEF Reserves
  <2>3. Listed(g)' /\ \A x \in Generation \ {g} : Listed(x)' <=> Listed(x)
    BY <1>1, <2>1, <2>2, EnterListed
  <2>4. LifeOf(g)' = "reserved"
    BY <1>2, <1>4, <2>3, LifeNext
  <2>5. \A x \in Generation \ {g} : LifeOf(x)' = LifeOf(x)
    BY <1>2, <2>3, LedgersAlone, SameLife
  <2>6. Book!Becomes(g, "reserved") /\ Book!Bills(g, Creates[g].size)
    BY <1>1, <2>1, <2>4, <2>5, BookBecomes, BookBills
  <2>7. ASSUME NEW h \in Generation, Book!Pays(h)
        PROVE  ~Book!SameAccount(g, h)
    <3>1. EntryOf(h).gen = h /\ h # None
      BY <1>1, <2>7, BookReads, PayersListed, GenerationFields DEF Listed
    <3>2. QED
      BY <2>2, <3>1 DEF Book!SameAccount, EntryOf, OwnerOf, SlugOf
  <2>8. Book!BilledInAll(Creates[g].owner) + Creates[g].size <= UserCap
    <3>1. OwnerTotal(OwnerOf(g)) \in Nat /\ Creates[g].size \in Nat /\ UserCap \in Nat
      BY <1>1, <2>1, EnterTotals, GenerationFields, ConstantsAssumption
         DEF BookInv, ShownInv, ChargeInv
    <3>2. QED
      BY <1>1, <2>2, <3>1, BookReads
  <2>9. Book!Reserve(g)
    BY <1>3, <1>4, <2>6, <2>7, <2>8, BookLeaves DEF Book!Reserve, LedgerStepOnly
  <2>10. QED
    BY <2>9 DEF Book!BookNext
<1>7. QED
  BY <1>1, <1>5, <1>6, ReserveMoves

\* An entry that goes was not of anything shown.
LEMMA UnlistBook ==
  ASSUME BookInv, BookInv', LedgerStepOnly, [Next]_vars, NEW h \in Generation, Unlists(h),
         \A x \in Generation : create'[x] = "new" <=> create[x] = "new"
  PROVE  [Book!BookNext]_(Book!bookVars)
<1>1. /\ ShownInv /\ LedgerTyped /\ Unborn /\ EmptyFree /\ VisibleListed'
      /\ NoEntry \in Entry /\ NoEntry.gen = None /\ NoEntry.charged = 0 /\ h # None
      /\ OwnerOf(h) \in Owner /\ SlugOf(h) \in Slug
  BY EmptyRecords, GenerationFields
     DEF BookInv, ShownInv, ChargeInv, LifeInv, Shape, VisibleInv, NoEntry
<1>2. Enter(h, NoEntry) /\ EntryOf(h).gen \in {h, None}
  BY DEF Unlists
<1>3. ~Listed(h)' /\ \A x \in Generation \ {h} : Listed(x)' <=> Listed(x)
  BY <1>1, <1>2, EnterListed
<1>4. \A x \in Generation \ {h} : LifeOf(x)' = LifeOf(x)
  BY <1>3, LedgersAlone, SameLife
<1>5. SameHoldings
  BY LedgersAlone
<1>6. CASE Listed(h)
  <2>1. create[h] # "new" /\ ~Visible(h)' /\ ~Visible(h)
    BY <1>1, <1>3, <1>6, LedgersAlone DEF Unborn, VisibleListed
  <2>2. LifeOf(h) \in {"reserved", "down"} /\ LifeOf(h)' = "over"
    BY <1>3, <1>6, <2>1, LifeIs, LifeNext
  <2>3. Book!Becomes(h, "over") /\ Book!Bills(h, 0)
    BY <1>1, <1>2, <1>4, <2>2, BookBecomes, BookBills
  <2>4. Book!Release(h)
    BY <1>5, <2>2, <2>3, BookLeaves DEF Book!Release, LedgerStepOnly
  <2>5. QED
    BY <2>4 DEF Book!BookNext
<1>7. CASE ~Listed(h)
  <2>1. SameLives
    BY <1>3, <1>4, <1>7, LedgersAlone, SameLife DEF SameLives
  <2>2. EntryOf(h).charged = 0
    BY <1>1, <1>2, <1>7 DEF EmptyFree, Listed, EntryOf
  <2>3. SameBills
    BY <1>1, <1>2, <2>2 DEF SameBills, Enter, EntryOf, LedgerTyped
  <2>4. QED
    BY <1>5, <2>1, <2>3, BookStutters DEF LedgerStepOnly
<1>8. QED
  BY <1>6, <1>7

\* A decision keeps what is shown paid for, and the owner within the quota.
LEMMA SettleBook ==
  ASSUME BookInv, BookInv', LedgerStepOnly, [Next]_vars, NEW m \in Message, Settles(m),
         \A x \in Generation : create'[x] = "new" <=> create[x] = "new"
  PROVE  [Book!BookNext]_(Book!bookVars)
<1> DEFINE g == m.gen
           total == OwnerTotal(OwnerOf(g))
<1>1. /\ ShownInv /\ ChargeInv /\ Shape /\ LedgerTyped /\ Finite /\ Unborn /\ ChargeIsAllocation
      /\ VisibleListed
  BY DEF BookInv, ShownInv, ChargeInv, LifeInv, Shape, VisibleInv
<1>2. g \in Generation /\ Listed(g) /\ g # None
  BY <1>1, SettlesEnters, GenerationFields
<1>3. PICK e \in Entry :
         /\ Enter(g, e) /\ e.gen = g
         /\ e.charged = IF DecideAnswer(m) = "granted" THEN m.target ELSE EntryOf(g).charged
  BY <1>1, SettlesEnters
<1> HIDE DEF g
<1>4. \A x \in Generation : Listed(x)' <=> Listed(x)
  BY <1>1, <1>2, <1>3, EnterListed DEF Listed
<1>5. SameLives /\ SameHoldings
  BY <1>4, LedgersAlone, SameLife DEF SameLives
<1>6. LifeOf(g) \in {"reserved", "shown", "down"}
  BY <1>1, <1>2, LifeIs DEF Unborn
<1>7. HeldOf(g).bytes \in Nat /\ HeldOf(g).bytes <= e.charged
  <2>1. e.charged \in Nat
    BY DEF Entry
  <2>2. CASE Visible(g)
    <3>1. HeldOf(g).bytes = LiveOf(SlugOf(g)) /\ LiveOf(SlugOf(g)) \in Nat
      BY <1>1, <1>2, <2>2, LiveNat, GenerationFields DEF HeldOf, LiveOf
    <3>2. ShownInv' => VisibleCharged'
      BY ShownCharged, PTL
    <3>3. LiveCharge(versions'[SlugOf(g)]) <= EntryOf(g)'.charged
      BY <1>2, <2>2, <3>2, LedgersAlone DEF VisibleCharged, BookInv
    <3>4. EntryOf(g)' = e
      BY <1>1, <1>2, <1>3, EnterListed
    <3>5. QED
      BY <3>1, <3>3, <3>4 DEF LedgerStepOnly, LiveOf
  <2>3. CASE ~Visible(g)
    BY <2>1, <2>3 DEF HeldOf
  <2>4. QED
    BY <2>2, <2>3
<1>8. /\ EntryOf(g).charged \in Nat /\ total \in Nat /\ UserCap \in Nat /\ e.charged \in Nat
      /\ e.charged <= EntryOf(g).charged \/ e.charged <= UserCap - (total - EntryOf(g).charged)
  <2>1. EntryOf(g).charged = account[g].allocated /\ EntryOf(g) \in Entry
    BY <1>1, <1>2, EntryTyped DEF ChargeIsAllocation
  <2>2. /\ EntryOf(g).charged \in Nat /\ e.charged \in Nat
        /\ total \in Nat /\ UserCap \in Nat
    BY <1>1, <1>2, <1>3, <2>1, EnterTotals, GenerationFields, ConstantsAssumption DEF Entry
  <2>3. \/ /\ DecideAnswer(m) = "granted" /\ m.target \in Nat
           /\ m.target <= account[g].allocated \/ total - account[g].allocated + m.target <= UserCap
        \/ DecideAnswer(m) = "refused"
    BY <1>1, SettlesAmount DEF g
  <2>4. QED
    BY <1>3, <2>1, <2>2, <2>3
<1>9. Book!Rebill(g)
  <2> DEFINE left == UserCap - (Book!BilledInAll(Creates[g].owner) - Book!Billed(g))
  <2>1. Book!Billed(g) = EntryOf(g).charged /\ left = UserCap - (total - EntryOf(g).charged)
        /\ Book!Pays(g)
    BY <1>1, <1>2, <1>6, BookReads
  <2>2. [x \in Generation |-> HeldOf(x)][g].bytes = HeldOf(g).bytes
    BY <1>2
  <2>3. left \in Int
    BY <1>8, <2>1
  <2>4. e.charged \in ([x \in Generation |-> HeldOf(x)][g].bytes .. Book!Billed(g))
                      \union ([x \in Generation |-> HeldOf(x)][g].bytes .. left)
    <3> HIDE DEF left
    <3>1. QED
      BY <1>7, <1>8, <2>1, <2>2, <2>3
  <2>5. Book!Bills(g, e.charged)
    BY <1>1, <1>2, <1>3, BookBills
  <2>6. QED
    BY <1>5, <2>1, <2>4, <2>5, BookLeaves DEF Book!Rebill, LedgerStepOnly
<1>10. QED
  BY <1>2, <1>9 DEF Book!BookNext

LEMMA LedgerBook ==
  ASSUME BookInv, BookInv', LedgerStepOnly, [Next]_vars
  PROVE  [Book!BookNext]_(Book!bookVars)
<1>1. Shape /\ LedgerTyped
  BY DEF BookInv, ShownInv, ChargeInv, LifeInv, Shape
<1>2. CASE \E g \in Generation : Reserve(g)
  BY <1>2, ReserveBook
<1>3. CASE ~\E g \in Generation : Reserve(g)
  <2>1. \A x \in Generation : create'[x] = "new" <=> create[x] = "new"
    <3>1. ASSUME NEW x \in Generation, create[x] = "new"
          PROVE  create'[x] = "new"
      <4>1. UNCHANGED create[x] \/ Put(x) \/ PutLost(x) \/ Confirm(x) \/ Release(x) \/ Forgotten(x)
        BY <1>1, <1>3, CreateMoves
      <4>2. QED
        BY <3>1, <4>1 DEF Put, PutLost, Confirm, Release, Forgotten
    <3>2. QED
      BY <1>1, <3>1, CreateStays
  <2>2. CASE SameBills /\ \A x \in Generation : Listed(x)' <=> Listed(x)
    <3>1. SameLives
      BY <2>1, <2>2, LedgersAlone, SameLife DEF SameLives
    <3>2. QED
      BY <2>2, <3>1, LedgersAlone, BookStutters DEF LedgerStepOnly
  <2>3. CASE UNCHANGED entries
    BY <2>2, <2>3 DEF SameBills, Listed, EntryOf
  <2>4. ASSUME NEW h \in Generation, Relists(h)
        PROVE  [Book!BookNext]_(Book!bookVars)
    <3>1. PICK e \in Entry : Enter(h, e) /\ e.gen = h /\ e.charged = EntryOf(h).charged
      BY <2>4 DEF Relists
    <3>2. Listed(h)
      BY <2>4 DEF Relists
    <3>3. \A x \in Generation : Listed(x)' <=> Listed(x)
      BY <1>1, <3>1, <3>2, EnterListed DEF Listed
    <3>4. SameBills
      BY <1>1, <3>1, GenerationFields DEF SameBills, Enter, EntryOf, LedgerTyped
    <3>5. QED
      BY <2>2, <3>3, <3>4
  <2>5. QED
    BY <1>1, <1>3, <2>1, <2>3, <2>4, LedgerMoves, UnlistBook, SettleBook
<1>4. QED
  BY <1>2, <1>3

-----------------------------------------------------------------------------
(* The steps of one slug's cell, which leave the ledgers alone.            *)

LEMMA FirstUpload ==
  ASSUME NEW g
  PROVE  LiveUploads(<<[upload |-> g, charge |-> Creates[g].size, deleted |-> FALSE]>>) = {g}
BY DEF LiveUploads, LiveVersions

LEMMA PublishedUploads ==
  ASSUME NEW vs \in Seq(Version), NEW x \in Version, x.deleted = FALSE
  PROVE  LiveUploads(Append(vs, x)) = LiveUploads(vs) \union {x.upload}
<1> DEFINE after == Append(vs, x)
<1>1. /\ LiveVersions(after) = LiveVersions(vs) \union {Len(vs) + 1}
      /\ LiveVersions(vs) \subseteq 1..Len(vs) /\ Len(vs) \in Nat
  <2>1. LiveVersions(after) = LiveVersions(vs) \union {Len(vs) + 1}
    BY AppendSound
  <2>2. LiveVersions(vs) \subseteq 1..Len(vs) /\ Len(vs) \in Nat
    BY LiveVersionsFinite
  <2>3. QED
    BY <2>1, <2>2
<1>2. after[Len(vs) + 1] = x /\ \A i \in 1..Len(vs) : after[i] = vs[i]
  OBVIOUS
<1> HIDE DEF after
<1>3. \A i \in LiveVersions(vs) : after[i].upload = vs[i].upload
  BY <1>1, <1>2
<1>4. QED
  BY <1>1, <1>2, <1>3 DEF LiveUploads, after

\* A tombstone takes one upload away.
LEMMA TombstonedUploads ==
  ASSUME NEW vs \in Seq(Version), NEW v \in LiveVersions(vs), NEW inherited \in Nat,
         \A i, j \in DOMAIN vs : vs[i].upload = vs[j].upload => i = j
  PROVE  LET after == Tombstoned(vs, v, inherited) IN
         /\ LiveUploads(after) = LiveUploads(vs) \ {vs[v].upload}
         /\ vs[v].upload \in LiveUploads(vs)
         /\ LiveVersions(after) # {} => LiveUploads(vs) # {vs[v].upload}
<1> DEFINE after == Tombstoned(vs, v, inherited)
<1>1. /\ LiveVersions(after) = LiveVersions(vs) \ {v} /\ DOMAIN vs = 1..Len(vs)
      /\ LiveVersions(vs) \subseteq DOMAIN vs
  BY TombstonedSound DEF LiveVersions
<1>2. \A i \in DOMAIN vs : after[i].upload = vs[i].upload
  BY TombstonedKeeps
<1> HIDE DEF after
<1>3. \A i \in LiveVersions(vs) : after[i].upload = vs[i].upload
  BY <1>1, <1>2
<1>4. \A i \in LiveVersions(vs) \ {v} : vs[i].upload # vs[v].upload
  BY <1>1
<1>5. LiveUploads(after) = LiveUploads(vs) \ {vs[v].upload}
  BY <1>1, <1>3, <1>4 DEF LiveUploads
<1>6. vs[v].upload \in LiveUploads(vs)
  BY DEF LiveUploads
<1>7. ASSUME LiveVersions(after) # {}
      PROVE  LiveUploads(vs) # {vs[v].upload}
  <2>1. PICK i \in LiveVersions(vs) \ {v} : TRUE
    BY <1>1, <1>7
  <2>2. vs[i].upload \in LiveUploads(vs) /\ vs[i].upload # vs[v].upload
    BY <1>4, <2>1 DEF LiveUploads
  <2>3. QED
    BY <2>2
<1>8. QED
  BY <1>5, <1>6, <1>7 DEF after

\* What the cell of a slug does is nothing to the other slugs.
LEMMA CellAlone ==
  ASSUME UNCHANGED <<entries, create>>, NEW s \in Slug, \A y \in Slug \ {s} : Kept(y)
  PROVE  /\ SameBills /\ \A x \in Generation : Listed(x)' <=> Listed(x)
         /\ \A x \in Generation : SlugOf(x) # s => LifeOf(x)' = LifeOf(x) /\ HeldOf(x)' = HeldOf(x)
<1>1. SameBills /\ \A x \in Generation : Listed(x)' <=> Listed(x)
  BY DEF SameBills, Listed, EntryOf
<1>2. ASSUME NEW x \in Generation, SlugOf(x) # s
      PROVE  LifeOf(x)' = LifeOf(x) /\ HeldOf(x)' = HeldOf(x)
  <2>1. Kept(SlugOf(x))
    BY <1>2, GenerationFields
  <2>2. /\ Visible(x)' <=> Visible(x)
        /\ Present(x)' <=> Present(x)
        /\ Removing(x)' <=> Removing(x)
    BY <2>1 DEF Kept, Visible, Present, Failed, Removing
  <2>3. QED
    BY <1>1, <2>1, <2>2, SameLife, SameHeld DEF Kept
<1>3. QED
  BY <1>1, <1>2

\* A put that lands shows a create that has paid.
LEMMA WriteBook ==
  ASSUME BookInv, BookInv', [Next]_vars, NEW g \in Generation, WriteRow(g), create[g] # "new",
         UNCHANGED <<entries, tombstone, receipts>>,
         \A x \in Generation : create'[x] = "new" <=> create[x] = "new"
  PROVE  [Book!BookNext]_(Book!bookVars)
<1> DEFINE s == SlugOf(g)
<1>1. /\ ShownInv /\ Shape /\ LedgerTyped /\ RowsTyped /\ Unborn /\ VisibleListed'
      /\ s \in Slug /\ g # None
  BY GenerationFields DEF BookInv, ShownInv, ChargeInv, LifeInv, Shape, VisibleInv
<1>2. SameBills /\ \A x \in Generation : Listed(x)' <=> Listed(x)
  BY DEF SameBills, Listed, EntryOf
<1>3. CASE ~MayPut(g)
  <2>1. LedgerStepOnly
    BY <1>3 DEF WriteRow, LedgerStepOnly
  <2>2. SameLives /\ SameHoldings
    BY <1>2, <2>1, LedgersAlone, SameLife DEF SameLives
  <2>3. QED
    BY <1>2, <2>2, BookStutters
<1>4. CASE MayPut(g)
  <2> DEFINE vs == <<[upload |-> g, charge |-> Creates[g].size, deleted |-> FALSE]>>
  <2>1. /\ row'[s].gen = g /\ row'[s].status = Creates[g].status /\ versions'[s] = vs
        /\ \A y \in Slug \ {s} : row'[y] = row[y] /\ versions'[y] = versions[y]
    BY <1>1, <1>4 DEF WriteRow, RowsTyped
  <2>2. row[s].gen = None /\ tombstone[s] = None
    BY <1>4 DEF MayPut
  <2>3. /\ Visible(g)' /\ ~Visible(g) /\ ~Present(g) /\ ~Removing(g) /\ create'[g] # "new"
    BY <1>1, <2>1, <2>2, GenerationFields DEF Visible, Present, Failed, Removing
  <2>4. LifeOf(g)' = "shown" /\ LifeOf(g) = "reserved"
    BY <1>1, <1>2, <2>3, LifeIs, LifeNext DEF VisibleListed
  <2>5. \A x \in Generation \ {g} : LifeOf(x)' = LifeOf(x) /\ HeldOf(x)' = HeldOf(x)
    <3> SUFFICES ASSUME NEW x \in Generation \ {g}
                 PROVE  LifeOf(x)' = LifeOf(x) /\ HeldOf(x)' = HeldOf(x)
      OBVIOUS
    <3>1. SlugOf(x) \in Slug /\ x # None
      BY GenerationFields
    <3>2. (Removing(x)' <=> Removing(x)) /\ (SlugOf(x) = s => ~Visible(x) /\ ~Visible(x)' /\ ~Present(x) /\ ~Present(x)')
      BY <2>1, <2>2, <3>1 DEF Visible, Present, Removing
    <3>3. SlugOf(x) # s => (Visible(x)' <=> Visible(x)) /\ (Present(x)' <=> Present(x))
                           /\ UNCHANGED versions[SlugOf(x)]
      BY <2>1, <3>1 DEF Visible, Present, Failed
    <3>4. QED
      BY <1>2, <3>2, <3>3, SameLife, SameHeld
  <2>6. Book!Becomes(g, "shown")
    BY <2>4, <2>5, BookBecomes
  <2>7. Book!Holds(g, {g}, Creates[g].size)
    <3>1. HeldOf(g)' = [uploads |-> {g}, bytes |-> Creates[g].size]
      <4>1. HeldOf(g)' = [uploads |-> LiveUploads(versions'[s]), bytes |-> LiveCharge(versions'[s])]
        BY <2>3 DEF HeldOf, LiveUploads
      <4>2. QED
        BY <2>1, <4>1, FirstUpload, FirstCharge
    <3>2. QED
      BY <2>5, <3>1, BookHolds
  <2>8. Creates[g].size <= Book!Billed(g)
    <3>1. ShownInv' => VisibleCharged'
      BY ShownCharged, PTL
    <3>2. LiveCharge(versions'[s]) <= EntryOf(g)'.charged
      BY <2>3, <3>1 DEF VisibleCharged, BookInv
    <3>3. EntryOf(g)' = EntryOf(g)
      BY DEF EntryOf
    <3>4. QED
      BY <1>1, <2>1, <3>2, <3>3, FirstCharge, BookReads
  <2>9. ASSUME NEW h \in Generation, LifeOf(h) = "shown"
        PROVE  Creates[h].slug # Creates[g].slug
    <3>1. Visible(h) /\ h # None
      BY <2>9, LifeIs, GenerationFields
    <3>2. QED
      BY <2>2, <3>1 DEF Visible, Present, SlugOf
  <2>10. Book!Show(g)
    BY <1>2, <2>4, <2>6, <2>7, <2>8, <2>9, BookLeaves DEF Book!Show
  <2>11. QED
    BY <2>10 DEF Book!BookNext
<1>5. QED
  BY <1>3, <1>4

\* The incarnation and the request of an append that is being answered.
LEMMA AppendAnswered ==
  ASSUME BookInv, NEW s \in Slug, pending[s].kind = "append",
         handler[s].at \in {"granted", "refused"}
  PROVE  LET q == pending[s] IN
         /\ q.op \in Op /\ KindOf(q.op) = "append" /\ receipts[q.op] = "none" /\ GenOf(q.op) = q.gen
         /\ q.gen \in Generation /\ SlugOf(q.gen) = s /\ Present(q.gen) /\ Visible(q.gen)
         /\ q.op \notin LiveUploads(versions[s])
<1> DEFINE q == pending[s]
<1>1. /\ Shape /\ Cells /\ Unborn /\ AnchoredAt(s) /\ StagedAt(s) /\ AppendingAt(s)
      /\ q.gen = GenOf(q.op) /\ Outstanding(s) /\ Published
  BY DEF BookInv, ShownInv, ChargeInv, LifeInv, Cells, AppendInv, Appending, AppendsOwn, Outstanding
<1>2. q.op \in Op /\ KindOf(q.op) = "append" /\ receipts[q.op] = "none"
  BY <1>1 DEF AppendingAt
<1>3. q.gen \in Generation /\ SlugOf(q.gen) = s /\ Present(q.gen)
  BY <1>1, PendingBegan DEF AnchoredAt, Present
<1>4. ~Failed(s)
  BY <1>3 DEF BookInv, FailedOver
<1>5. q.op \notin LiveUploads(versions[s])
  <2>1. LiveVersions(versions[s]) \subseteq DOMAIN versions[s]
    BY DEF LiveVersions
  <2>2. \A v \in DOMAIN versions[s] : versions[s][v].upload # q.op
    BY <1>1, <1>2 DEF Published, IsPublished
  <2>3. QED
    BY <2>1, <2>2 DEF LiveUploads
<1>6. QED
  BY <1>1, <1>2, <1>3, <1>4, <1>5 DEF Visible

\* A granted append goes live as the book's.
LEMMA PublishBook ==
  ASSUME BookInv, BookInv', [Next]_vars, NEW s \in Slug, Publish(s)
  PROVE  [Book!BookNext]_(Book!bookVars)
<1> DEFINE q == pending[s]
<1>0. PICK g, p : g = q.gen /\ p = q.op
  OBVIOUS
<1> DEFINE x == [upload |-> p, charge |-> q.charge, deleted |-> FALSE]
<1>1. /\ ShownInv /\ Shape /\ LedgerTyped /\ RowsTyped /\ Unborn /\ versions[s] \in Seq(Version)
      /\ q.charge \in Nat
  BY DEF BookInv, ShownInv, ChargeInv, LifeInv, Shape, RowsTyped, WorkTyped, Pending
<1>2. /\ q.kind = "append" /\ handler[s].at = "granted" /\ UNCHANGED <<entries, create, tombstone>>
      /\ receipts' = [receipts EXCEPT ![p] = "ok"]
  BY <1>0 DEF Publish, identityVars, frontVars
<1>3. /\ p \in Op /\ KindOf(p) = "append" /\ receipts[p] = "none" /\ GenOf(p) = g
      /\ g \in Generation /\ SlugOf(g) = s /\ Present(g) /\ Visible(g)
      /\ p \notin LiveUploads(versions[s])
  BY <1>0, <1>2, AppendAnswered
<1>4. /\ UNCHANGED <<row[s].gen, row[s].status>> /\ versions'[s] = Append(versions[s], x)
      /\ \A y \in Slug \ {s} : Kept(y)
      /\ LiveOf(s)' = LiveOf(s) + q.charge
  <2>1. Concludes(s) /\ \A y \in Slug \ {s} : Kept(y)
    BY <1>1, SettlingConcludes, SagaElsewhere DEF Settling
  <2>2. versions'[s] = Append(versions[s], x)
    BY <1>0, <1>1 DEF Publish, RowsTyped
  <2>3. pending'[s].kind = "append" /\ pending'[s].kind # "abandon" /\ pending'[s].kind # "none"
    <3>1. pending'[s] = [q EXCEPT !.stage = "project"]
      BY <1>1, GoOnFields DEF Publish
    <3>2. QED
      BY <1>1, <1>2, <3>1 DEF Shape, WorkTyped, Pending
  <2>4. QED
    BY <1>2, <2>1, <2>2, <2>3 DEF Concludes
<1>5. x \in Version /\ x.deleted = FALSE /\ x.upload = p
  BY <1>1, <1>3, Zenon DEF Version
<1> HIDE DEF x
<1>6. /\ SameBills /\ \A h \in Generation : Listed(h)' <=> Listed(h)
      /\ \A h \in Generation : SlugOf(h) # s => LifeOf(h)' = LifeOf(h) /\ HeldOf(h)' = HeldOf(h)
  BY <1>2, <1>4, CellAlone
<1>7. Visible(g)' /\ create[g] # "new"
  BY <1>1, <1>3, <1>4 DEF Visible, Present, Failed, Unborn
<1>8. \A h \in Generation \ {g} : LifeOf(h)' = LifeOf(h) /\ HeldOf(h)' = HeldOf(h)
  <2> SUFFICES ASSUME NEW h \in Generation \ {g}, SlugOf(h) = s
               PROVE  LifeOf(h)' = LifeOf(h) /\ HeldOf(h)' = HeldOf(h)
    BY <1>6
  <2>1. ~Present(h) /\ ~Present(h)' /\ ~Visible(h) /\ ~Visible(h)' /\ (Removing(h)' <=> Removing(h))
    BY <1>2, <1>3, <1>4 DEF Present, Visible, Removing
  <2>2. QED
    BY <1>2, <1>6, <2>1, SameLife, SameHeld
<1>9. SameLives /\ LifeOf(g) = "shown"
  BY <1>2, <1>3, <1>7, <1>8, LifeIs, LifeNext DEF SameLives
<1>10. /\ HeldOf(g).uploads = LiveUploads(versions[s]) /\ HeldOf(g).bytes = LiveOf(s)
       /\ HeldOf(g)' = [uploads |-> LiveUploads(versions[s]) \union {p}, bytes |-> LiveOf(s)']
  <2>1. LiveUploads(versions'[s]) = LiveUploads(versions[s]) \union {p}
    BY <1>1, <1>4, <1>5, PublishedUploads
  <2>2. HeldOf(g) = [uploads |-> LiveUploads(versions[s]), bytes |-> LiveOf(s)]
    BY <1>3 DEF HeldOf, LiveOf
  <2>3. HeldOf(g)' = [uploads |-> LiveUploads(versions'[s]), bytes |-> LiveOf(s)']
    BY <1>3, <1>7 DEF HeldOf, LiveUploads, LiveOf
  <2>4. QED
    BY <2>1, <2>2, <2>3
<1>11. LiveOf(s)' \in LiveOf(s) .. EntryOf(g).charged
  <2>1. ShownInv' => VisibleCharged'
    BY ShownCharged, PTL
  <2>2. LiveOf(s)' <= EntryOf(g)'.charged
    BY <1>3, <1>7, <2>1 DEF VisibleCharged, BookInv, LiveOf
  <2>3. EntryOf(g)' = EntryOf(g) /\ EntryOf(g).charged \in Nat /\ LiveOf(s) \in Nat
    BY <1>1, <1>2, <1>3, EntryTyped, LiveNat DEF EntryOf, Entry
  <2>4. QED
    BY <1>1, <1>4, <2>2, <2>3
<1>12. Book!Publish(p)
  <2>1. Book!Of(p) = g
    BY <1>3 DEF Book!Of, GenOf
  <2>2. Book!Holds(g, LiveUploads(versions[s]) \union {p}, LiveOf(s)')
    BY <1>3, <1>8, <1>10, BookHolds
  <2>3. Book!Answers(p, "ok")
    BY <1>2, <1>3, BookAnswers
  <2>4. Requests[p].kind = "append" /\ Book!Billed(g) = EntryOf(g).charged
    BY <1>1, <1>3, BookReads DEF KindOf
  <2>5. /\ [h \in Generation |-> HeldOf(h)][g].uploads = LiveUploads(versions[s])
        /\ [h \in Generation |-> HeldOf(h)][g].bytes = LiveOf(s)
        /\ [h \in Generation |-> LifeOf(h)][g] = "shown"
    BY <1>3, <1>9, <1>10
  <2>6. QED
    BY <1>3, <1>6, <1>9, <1>11, <2>1, <2>2, <2>3, <2>4, <2>5, BookLeaves DEF Book!Publish
<1>13. QED
  BY <1>3, <1>12 DEF Book!BookNext

\* Every other answer leaves what is shown as it is; a refused append has that
\* outcome for good.
LEMMA SettlingBook ==
  ASSUME BookInv, BookInv', [Next]_vars, NEW s \in Slug, Settling(s)
  PROVE  [Book!BookNext]_(Book!bookVars)
<1> DEFINE q == pending[s]
<1>1. CASE Publish(s)
  BY <1>1, PublishBook
<1>2. CASE ~Publish(s)
  <2>1. /\ ShownInv /\ ChargeInv /\ LifeInv /\ Shape /\ Cells /\ VisibleListed /\ StagedAt(s)
        /\ AnchoredAt(s)
    BY DEF BookInv, ShownInv, ChargeInv, LifeInv, VisibleInv, Cells
  <2>2. UNCHANGED <<entries, create, versions>>
    BY <1>2 DEF Settling, SettleAbsent, Refuse, AbandonAppend, Advance, Clear, FinishDrop,
                identityVars, frontVars
  <2>3. Concludes(s) /\ \A y \in Slug \ {s} : Kept(y)
    BY <2>1, SettlingConcludes, SagaElsewhere
  <2>4. /\ SameBills /\ \A h \in Generation : Listed(h)' <=> Listed(h)
        /\ \A h \in Generation : SlugOf(h) # s => LifeOf(h)' = LifeOf(h) /\ HeldOf(h)' = HeldOf(h)
    BY <2>2, <2>3, CellAlone
  <2>5. tombstone'[s] = tombstone[s] \/ (tombstone[s] = q.gen /\ tombstone'[s] = None /\ ~Listed(q.gen))
    BY <2>1, <2>3 DEF Concludes, StagedAt
  <2>6. ASSUME NEW h \in Generation, SlugOf(h) = s
        PROVE  LifeOf(h)' = LifeOf(h) /\ HeldOf(h)' = HeldOf(h)
    <3>1. (Visible(h)' <=> Visible(h)) /\ (Present(h)' <=> Present(h))
      BY <2>3, <2>6 DEF Concludes, Visible, Present, Failed
    <3>2. Listed(h) => (Removing(h)' <=> Removing(h))
      BY <2>5, <2>6, GenerationFields DEF Removing
    <3>3. QED
      BY <2>2, <2>4, <3>1, <3>2, SameLife, SameHeld
  <2>7. SameLives /\ SameHoldings
    BY <2>4, <2>6 DEF SameLives, SameHoldings
  <2>8. CASE Refuse(s) \/ AbandonAppend(s)
    <3>1. q.kind = "append"
      <4>1. CASE Refuse(s)
        <5>1. handler[s].at = "refused" /\ Outstanding(s) /\ q.stage = "decide" /\ q.kind \notin DropKinds
          BY <2>1, <2>3, <4>1 DEF Refuse, Concludes, StagedAt
        <5>2. /\ q.gen \in Generation /\ SlugOf(q.gen) = s /\ Present(q.gen)
          BY <2>1, <5>1, PendingBegan DEF LifeInv, AnchoredAt, Outstanding, Present, DropKinds
        <5>3. Visible(q.gen)
          BY <5>1, <5>2 DEF BookInv, FailedOver, Visible, DropKinds
        <5>4. Deciding(q.gen)
          BY <2>1, <5>2, <5>3 DEF VisibleListed, ChargeInv, ChargedFor
        <5>5. QED
          BY <5>1, <5>2, <5>4 DEF Deciding, HasPending
      <4>2. CASE AbandonAppend(s)
        BY <4>2 DEF AbandonAppend
      <4>3. QED
        BY <2>8, <4>1, <4>2
    <3>2. q.op \in Op /\ KindOf(q.op) = "append" /\ receipts[q.op] = "none"
      BY <2>8, <3>1, AppendAnswered DEF Refuse, AbandonAppend
    <3>3. Book!Answers(q.op, "over-quota") \/ Book!Answers(q.op, "too-large")
      BY <2>8, <3>2, BookAnswers DEF Refuse, AbandonAppend
    <3>4. Book!Refuse(q.op)
      BY <2>4, <2>7, <3>2, <3>3, BookLeaves DEF Book!Refuse, KindOf
    <3>5. QED
      BY <3>2, <3>4 DEF Book!BookNext
  <2>9. CASE UNCHANGED receipts
    BY <2>4, <2>7, <2>9, BookStutters
  <2>10. QED
    BY <1>2, <2>8, <2>9 DEF Settling, SettleAbsent, Advance, Clear, FinishDrop
<1>3. QED
  BY <1>1, <1>2

\* The turn of a request at its cell, which holds the incarnation it read.
LEMMA TurnHolds ==
  ASSUME BookInv, NEW p \in Op, Turn(p, KindOf(p))
  PROVE  /\ GenOf(p) \in Generation /\ TargetOf(p) \in Slug /\ GenOf(p) # None
         /\ receipts[p] = "none" /\ Present(GenOf(p)) /\ row[TargetOf(p)].gen = GenOf(p)
         /\ create[GenOf(p)] # "new" /\ tombstone[TargetOf(p)] = None
         /\ Book!Of(p) = GenOf(p) /\ SlugOf(GenOf(p)) = TargetOf(p)
         /\ Requests[p].kind = KindOf(p)
<1>1. GenOf(p) \in Generation /\ TargetOf(p) \in Slug /\ GenOf(p) # None
  BY RequestFields, GenerationFields
<1>2. receipts[p] = "none" /\ pending[TargetOf(p)].kind = "none" /\ row[TargetOf(p)].gen = GenOf(p)
  BY DEF Turn
<1>3. Present(GenOf(p)) /\ tombstone[TargetOf(p)] = None /\ create[GenOf(p)] # "new"
  BY <1>1, <1>2
     DEF BookInv, ShownInv, ChargeInv, LifeInv, Cells, AnchoredAt, Unborn, Present, TargetOf
<1>4. QED
  BY <1>1, <1>2, <1>3 DEF Book!Of, GenOf, KindOf, TargetOf

\* What a request changes is of the incarnation it read.
LEMMA TurnAlone ==
  ASSUME BookInv, NEW p \in Op, Turn(p, KindOf(p)),
         StartDelete(p) \/ StartPin(p) \/ StartRemove(p) \/ StartFail(p)
  PROVE  /\ SameBills /\ \A x \in Generation : Listed(x)' <=> Listed(x)
         /\ \A x \in Generation \ {GenOf(p)} : LifeOf(x)' = LifeOf(x) /\ HeldOf(x)' = HeldOf(x)
         /\ UNCHANGED <<entries, create>> /\ Book!Answers(p, "ok")
<1> DEFINE s == TargetOf(p)
           g == GenOf(p)
<1>1. /\ Shape /\ Cells /\ RowsTyped /\ FencesTyped
      /\ g \in Generation /\ s \in Slug /\ g # None /\ receipts[p] = "none"
      /\ row[s].gen = g /\ tombstone[s] = None
  BY TurnHolds DEF BookInv, ShownInv, ChargeInv, LifeInv, Shape
<1>2. /\ UNCHANGED <<entries, create>> /\ receipts' = [receipts EXCEPT ![p] = "ok"]
      /\ \A y \in Slug \ {s} : Kept(y)
  BY <1>1, BegunElsewhere
     DEF StartDelete, StartPin, StartRemove, StartFail, identityVars, frontVars
<1>3. /\ SameBills /\ \A x \in Generation : Listed(x)' <=> Listed(x)
      /\ \A x \in Generation : SlugOf(x) # s => LifeOf(x)' = LifeOf(x) /\ HeldOf(x)' = HeldOf(x)
  BY <1>1, <1>2, CellAlone
<1>4. row'[s].gen \in {g, None} /\ tombstone'[s] \in {g, None}
  <2>1. Begun(s)
    BY DEF Begun
  <2>2. Asks(s)
    BY <1>1, <2>1, BegunAsks
  <2>3. QED
    BY <1>1, <2>2 DEF Asks
<1>5. ASSUME NEW x \in Generation \ {g}, SlugOf(x) = s
      PROVE  LifeOf(x)' = LifeOf(x) /\ HeldOf(x)' = HeldOf(x)
  <2>1. /\ ~Present(x) /\ ~Present(x)' /\ ~Removing(x) /\ ~Removing(x)'
        /\ ~Visible(x) /\ ~Visible(x)'
    BY <1>1, <1>4, <1>5, GenerationFields DEF Present, Removing, Visible
  <2>2. QED
    BY <1>2, <1>3, <2>1, SameLife, SameHeld
<1>6. QED
  BY <1>1, <1>2, <1>3, <1>5, BookAnswers

\* A version that is deleted leaves what is shown, and another stays.
LEMMA DeleteBook ==
  ASSUME BookInv, BookInv', [Next]_vars, NEW p \in Op, StartDelete(p)
  PROVE  [Book!BookNext]_(Book!bookVars)
<1> DEFINE s == TargetOf(p)
           g == GenOf(p)
<1>0. KindOf(p) = "deleteVersion" /\ Turn(p, KindOf(p))
  BY DEF StartDelete, Turn
<1>1. /\ Shape /\ Shape' /\ Cells /\ RowsTyped /\ LedgerTyped /\ versions[s] \in Seq(Version)
      /\ g \in Generation /\ s \in Slug /\ g # None /\ row[s].gen = g /\ Present(g)
      /\ create[g] # "new" /\ Book!Of(p) = g /\ SlugOf(g) = s /\ Requests[p].kind = "deleteVersion"
      /\ tombstone[s] = None
  BY <1>0, TurnHolds DEF BookInv, ShownInv, ChargeInv, LifeInv, Shape, RowsTyped
<1>2. /\ SameBills /\ \A x \in Generation : Listed(x)' <=> Listed(x)
      /\ \A x \in Generation \ {g} : LifeOf(x)' = LifeOf(x) /\ HeldOf(x)' = HeldOf(x)
      /\ UNCHANGED <<entries, create>> /\ Book!Answers(p, "ok")
  BY <1>0, TurnAlone
<1>3. PICK v \in LiveVersions(versions[s]) :
         \E inherited \in IF NextLive(versions[s], v) = {} THEN {0} ELSE 0 .. versions[s][v].charge :
            LET vs == Tombstoned(versions[s], v, inherited) IN
            /\ versions' = [versions EXCEPT ![s] = vs]
            /\ row' = [row EXCEPT ![s] = RollServed(row[s], row[s].pinned, vs)]
  BY Zenon DEF StartDelete
<1>4. PICK inherited \in 0 .. versions[s][v].charge :
         LET vs == Tombstoned(versions[s], v, inherited) IN
         /\ versions' = [versions EXCEPT ![s] = vs]
         /\ row' = [row EXCEPT ![s] = RollServed(row[s], row[s].pinned, vs)]
  <2>1. versions[s][v] \in Version
    BY <1>1, LiveVersionsFinite
  <2>2. 0 \in 0 .. versions[s][v].charge
    BY <2>1 DEF Version
  <2>3. QED
    BY <1>3, <2>2, Zenon
<1>5. inherited \in Nat /\ inherited <= versions[s][v].charge
  <2>1. versions[s][v] \in Version
    BY <1>1, LiveVersionsFinite
  <2>2. QED
    BY <2>1 DEF Version
<1>6. PICK vs, u : vs = Tombstoned(versions[s], v, inherited) /\ u = versions[s][v].upload
  OBVIOUS
<1>7. versions'[s] = vs /\ row'[s] = RollServed(row[s], row[s].pinned, vs)
  BY <1>1, <1>4, <1>6 DEF RowsTyped
<1>8. row'[s].gen = g /\ row'[s].status = row[s].status
  BY <1>1, <1>7, RolledFields DEF RowsTyped
<1>9. /\ Visible(g)' <=> Visible(g)
      /\ Present(g)'
  BY <1>1, <1>8 DEF Visible, Present, Failed
<1>10. LifeOf(g)' = LifeOf(g)
  BY <1>1, <1>2, <1>9, SameLife
<1>11. SameLives
  BY <1>2, <1>10 DEF SameLives
<1>12. CASE Visible(g)
  <2>1. /\ LiveUploads(vs) = LiveUploads(versions[s]) \ {u} /\ u \in LiveUploads(versions[s])
        /\ LiveVersions(vs) # {} => LiveUploads(versions[s]) # {u}
    <3>1. \A i, j \in DOMAIN versions[s] : versions[s][i].upload = versions[s][j].upload => i = j
      BY <1>1 DEF BookInv, AppendInv, AppendOnce
    <3>2. QED
      BY <1>1, <1>5, <1>6, <3>1, TombstonedUploads
  <2>2. LiveVersions(vs) # {}
    <3>1. row'[s].served \in LiveVersions(versions'[s])
      BY <1>1, <1>8 DEF Shape, Serving
    <3>2. QED
      BY <1>7, <3>1
  <2>3. LiveCharge(vs) \in 0 .. LiveCharge(versions[s])
    <3>1. LiveCharge(vs) <= LiveCharge(versions[s])
      BY <1>1, <1>5, <1>6, TombstonedCharge
    <3>2. LiveCharge(vs) \in Nat /\ LiveCharge(versions[s]) \in Nat
      BY <1>1, <1>5, <1>6, LiveVersionsFinite, TombstonedSound
    <3>3. QED
      BY <3>1, <3>2
  <2>4. /\ HeldOf(g) = [uploads |-> LiveUploads(versions[s]), bytes |-> LiveCharge(versions[s])]
        /\ HeldOf(g)' = [uploads |-> LiveUploads(vs), bytes |-> LiveCharge(vs)]
    <3>1. HeldOf(g)' = [uploads |-> LiveUploads(versions'[s]), bytes |-> LiveCharge(versions'[s])]
      BY <1>1, <1>9, <1>12 DEF HeldOf, LiveUploads
    <3>2. QED
      BY <1>1, <1>7, <1>12, <3>1 DEF HeldOf
  <2>5. Book!Holds(g, LiveUploads(versions[s]) \ {u}, LiveCharge(vs))
    BY <1>1, <1>2, <2>1, <2>4, BookHolds
  <2>6. /\ [x \in Generation |-> HeldOf(x)][g].uploads = LiveUploads(versions[s])
        /\ [x \in Generation |-> HeldOf(x)][g].bytes = LiveCharge(versions[s])
        /\ [x \in Generation |-> LifeOf(x)][g] = "shown"
    BY <1>1, <1>12, <2>4, LifeIs
  <2>7. \E y \in LiveUploads(versions[s]), bytes \in 0 .. LiveCharge(versions[s]) :
           LiveUploads(versions[s]) # {y} /\ Book!Holds(g, LiveUploads(versions[s]) \ {y}, bytes)
    BY <2>1, <2>2, <2>3, <2>5, Zenon
  <2>8. Book!Retire(p)
    <3>1. UNCHANGED <<[x \in Generation |-> LifeOf(x)],
                      [o \in Owner |-> [z \in Slug |-> entries[o][z].charged]]>>
      BY <1>2, <1>11, BookLeaves
    <3> DEFINE held == [x \in Generation |-> HeldOf(x)]
    <3>2. PICK h : h = g
      OBVIOUS
    <3>3. /\ Book!Of(p) = h /\ Requests[p].kind = "deleteVersion"
          /\ [x \in Generation |-> LifeOf(x)][h] = "shown" /\ Book!Answers(p, "ok")
          /\ held[h].uploads = LiveUploads(versions[s])
          /\ held[h].bytes = LiveCharge(versions[s])
      BY <1>1, <1>2, <2>6, <3>2
    <3> HIDE DEF g, s, held
    <3>4. \E y \in held[h].uploads, bytes \in 0 .. held[h].bytes :
             held[h].uploads # {y} /\ Book!Holds(h, held[h].uploads \ {y}, bytes)
      BY <2>7, <3>2, <3>3, Zenon
    <3>5. QED
      BY <3>1, <3>3, <3>4 DEF Book!Retire, held
  <2>9. QED
    BY <2>8 DEF Book!BookNext
<1>13. CASE ~Visible(g)
  <2>1. SameHoldings
    BY <1>1, <1>2, <1>9, <1>13, SameHeld DEF SameHoldings
  <2>2. [x \in Generation |-> LifeOf(x)][g] # "shown"
    BY <1>1, <1>13, LifeIs
  <2>3. Book!Acknowledge(p)
    BY <1>1, <1>2, <1>11, <2>1, <2>2, BookLeaves DEF Book!Acknowledge
  <2>4. QED
    BY <2>3 DEF Book!BookNext
<1>14. QED
  BY <1>12, <1>13

\* What is removed, or fails, is taken down once.
LEMMA TakeDownBook ==
  ASSUME BookInv, BookInv', [Next]_vars, NEW p \in Op, StartRemove(p) \/ StartFail(p)
  PROVE  [Book!BookNext]_(Book!bookVars)
<1> DEFINE s == TargetOf(p)
           g == GenOf(p)
<1>0. KindOf(p) \in {"remove", "fail"} /\ Turn(p, KindOf(p))
  BY DEF StartRemove, StartFail, Turn
<1>1. /\ Shape /\ RowsTyped /\ FencesTyped /\ VisibleListed
      /\ g \in Generation /\ s \in Slug /\ g # None /\ row[s].gen = g /\ Present(g)
      /\ create[g] # "new" /\ Book!Of(p) = g /\ SlugOf(g) = s
      /\ Requests[p].kind \in {"remove", "fail"}
  BY <1>0, TurnHolds DEF BookInv, ShownInv, ChargeInv, LifeInv, Shape, VisibleInv
<1>2. /\ SameBills /\ \A x \in Generation : Listed(x)' <=> Listed(x)
      /\ \A x \in Generation \ {g} : LifeOf(x)' = LifeOf(x) /\ HeldOf(x)' = HeldOf(x)
      /\ UNCHANGED <<entries, create>> /\ Book!Answers(p, "ok")
  BY <1>0, TurnAlone
<1>3. ~Visible(g)' /\ (Present(g)' \/ Removing(g)')
  <2>1. CASE StartRemove(p)
    <3>1. row'[s] = NoRow /\ tombstone'[s] = g
      BY <1>1, <2>1 DEF StartRemove, RowsTyped, FencesTyped
    <3>2. row'[s].gen # g
      BY <1>1, <3>1 DEF NoRow
    <3>3. QED
      BY <1>1, <3>1, <3>2 DEF Visible, Present, Removing
  <2>2. CASE StartFail(p)
    <3>1. row'[s].status = "failed" /\ row'[s].gen = g
      BY <1>1, <2>2 DEF StartFail, RowsTyped, Row
    <3>2. QED
      BY <1>1, <3>1 DEF Visible, Present, Failed
  <2>3. QED
    BY <2>1, <2>2
<1>4. HeldOf(g)' = [uploads |-> {}, bytes |-> 0]
  BY <1>3 DEF HeldOf
<1>5. CASE Visible(g)
  <2>1. LifeOf(g) = "shown" /\ LifeOf(g)' = "down"
    BY <1>1, <1>2, <1>3, <1>5, LifeIs, LifeNext DEF VisibleListed
  <2>2. Book!Becomes(g, "down") /\ Book!Holds(g, {}, 0)
    BY <1>1, <1>2, <1>4, <2>1, BookBecomes, BookHolds
  <2>3. Book!TakeDown(p)
    BY <1>1, <1>2, <2>1, <2>2, BookLeaves DEF Book!TakeDown
  <2>4. QED
    BY <2>3 DEF Book!BookNext
<1>6. CASE ~Visible(g)
  <2>1. LifeOf(g)' = LifeOf(g) /\ LifeOf(g) # "shown"
    BY <1>1, <1>2, <1>3, <1>6, LifeIs, LifeNext
  <2>2. HeldOf(g)' = HeldOf(g)
    BY <1>4, <1>6 DEF HeldOf
  <2>3. SameLives /\ SameHoldings
    BY <1>2, <2>1, <2>2 DEF SameLives, SameHoldings
  <2>4. Book!Acknowledge(p)
    BY <1>0, <1>1, <1>2, <2>1, <2>3, BookLeaves DEF Book!Acknowledge
  <2>5. QED
    BY <2>4 DEF Book!BookNext
<1>7. QED
  BY <1>5, <1>6

LEMMA PinBook ==
  ASSUME BookInv, BookInv', [Next]_vars, NEW p \in Op, StartPin(p)
  PROVE  [Book!BookNext]_(Book!bookVars)
<1> DEFINE s == TargetOf(p)
           g == GenOf(p)
<1>0. KindOf(p) = "pin" /\ Turn(p, KindOf(p))
  BY DEF StartPin, Turn
<1>1. /\ RowsTyped /\ g \in Generation /\ s \in Slug /\ row[s].gen = g /\ Present(g)
      /\ create[g] # "new" /\ SlugOf(g) = s /\ Requests[p].kind = "pin"
  BY <1>0, TurnHolds DEF BookInv, ShownInv, ChargeInv, LifeInv, Shape
<1>2. /\ SameBills /\ \A x \in Generation : Listed(x)' <=> Listed(x)
      /\ \A x \in Generation \ {g} : LifeOf(x)' = LifeOf(x) /\ HeldOf(x)' = HeldOf(x)
      /\ UNCHANGED <<entries, create>> /\ Book!Answers(p, "ok")
  BY <1>0, TurnAlone
<1>3. /\ Visible(g)' <=> Visible(g)
      /\ Present(g)' /\ UNCHANGED versions
  <2>1. PICK v : row' = [row EXCEPT ![s] = RollServed(row[s], v, versions[s])]
    BY DEF StartPin
  <2>2. row'[s].gen = row[s].gen /\ row'[s].status = row[s].status
    <3>1. row'[s] = RollServed(row[s], v, versions[s]) /\ row[s] \in Row
      BY <1>1, <2>1 DEF RowsTyped
    <3>2. QED
      BY <3>1, RolledFields
  <2>3. QED
    BY <1>1, <2>2 DEF StartPin, Visible, Present, Failed
<1>4. SameLives /\ SameHoldings
  BY <1>1, <1>2, <1>3, SameLife, SameHeld DEF SameLives, SameHoldings
<1>5. Book!Acknowledge(p)
  BY <1>1, <1>2, <1>4, BookLeaves DEF Book!Acknowledge
<1>6. QED
  BY <1>5 DEF Book!BookNext

\* A status or a name that is written changes nothing a visitor may ask for.
LEMMA ProjectBook ==
  ASSUME BookInv, NEW p \in Op, Project(p), Projects(TargetOf(p))
  PROVE  [Book!BookNext]_(Book!bookVars)
<1> DEFINE s == TargetOf(p)
<1>1. /\ Shape /\ Cells /\ RowsTyped /\ ReadyNotFailed /\ s \in Slug
      /\ UNCHANGED <<entries, create, versions, tombstone, receipts>>
  BY RequestFields
     DEF BookInv, ShownInv, ChargeInv, LifeInv, Shape, VisibleInv, Project, identityVars
<1>2. row'[s].gen = row[s].gen /\ \A y \in Slug \ {s} : Kept(y)
  BY <1>1, BegunElsewhere DEF Project, RowsTyped, Row
<1>3. Failed(s)' <=> Failed(s)
  BY <1>1, ProjectsFailed
<1>4. /\ SameBills /\ \A x \in Generation : Listed(x)' <=> Listed(x)
      /\ \A x \in Generation : SlugOf(x) # s => LifeOf(x)' = LifeOf(x) /\ HeldOf(x)' = HeldOf(x)
  BY <1>1, <1>2, CellAlone
<1>5. ASSUME NEW x \in Generation, SlugOf(x) = s
      PROVE  LifeOf(x)' = LifeOf(x) /\ HeldOf(x)' = HeldOf(x)
  <2>1. (Visible(x)' <=> Visible(x)) /\ (Present(x)' <=> Present(x)) /\ (Removing(x)' <=> Removing(x))
    BY <1>1, <1>2, <1>3, <1>5 DEF Visible, Present, Removing
  <2>2. QED
    BY <1>1, <1>4, <2>1, SameLife, SameHeld
<1>6. SameLives /\ SameHoldings
  BY <1>4, <1>5 DEF SameLives, SameHoldings
<1>7. QED
  BY <1>1, <1>4, <1>6, BookStutters

-----------------------------------------------------------------------------

LEMMA BookNextStep ==
  ASSUME BookInv, BookInv', [Next]_vars
  PROVE  [Book!BookNext]_(Book!bookVars)
<1> DEFINE Goal == [Book!BookNext]_(Book!bookVars)
<1>1. /\ Shape /\ Cells /\ Unborn
      /\ create \in [Generation -> {"new", "put", "retry", "confirm", "release", "done", "failed"}]
  BY DEF BookInv, ShownInv, ChargeInv, LifeInv, Shape, FrontTyped
<1>2. CASE LedgerStepOnly
  BY <1>2, LedgerBook
<1>3. ASSUME NEW g \in Generation, CreateStep(g), ~LedgerStepOnly
      PROVE  Goal
  <2>1. Put(g)
    BY <1>3 DEF CreateStep, Reserve, PutLost, Confirm, Release, Forgotten, pasteVars, LedgerStepOnly
  <2>2. /\ WriteRow(g) /\ create[g] # "new" /\ UNCHANGED <<entries, tombstone, receipts>>
        /\ \A x \in Generation : create'[x] = "new" <=> create[x] = "new"
    BY <1>1, <2>1 DEF Put, identityVars
  <2>3. QED
    BY <2>2, WriteBook
<1>4. ASSUME NEW o \in Owner, IdentityStep(o)
      PROVE  LedgerStepOnly
  BY <1>4 DEF IdentityStep, ResolveIntent, AbortCreate, IntentAnswered, ResolverFails, pasteVars,
              LedgerStepOnly
<1>5. ASSUME NEW s \in Slug, SagaStep(s), ~LedgerStepOnly
      PROVE  Goal
  <2>1. CASE GoesOn(s)
    <3> DEFINE p == handler[s].then
    <3>1. p \in Op /\ row[s].gen = GenOf(p) /\ Project(p)
      BY <1>1, <1>5, <2>1 DEF GoesOn, Shape, Named, LedgerStepOnly
    <3>2. TargetOf(p) = s
      BY <1>1, <3>1, RequestFields, GenerationFields DEF Cells, AnchoredAt, TargetOf
    <3>3. Projects(s)
      BY <2>1, <3>1, <3>2 DEF Projects, GoesOn
    <3>4. QED
      BY <3>1, <3>2, <3>3, ProjectBook
  <2>2. CASE Settling(s)
    BY <2>2, SettlingBook
  <2>3. QED
    BY <1>5, <2>1, <2>2
       DEF SagaStep, Settling, IdentityAnswers, CallFails, PasteStops, Alarm, Retry, LedgerStepOnly
<1>6. ASSUME NEW p \in Op, RequestStep(p), ~LedgerStepOnly
      PROVE  Goal
  <2>1. CASE StartProjection(p)
    <3>1. /\ Project(p) /\ Turn(p, KindOf(p)) /\ row[TargetOf(p)].gen = GenOf(p)
          /\ KindOf(p) = "ready" => row[TargetOf(p)].status = "pending"
      BY <2>1 DEF StartProjection, Turn
    <3>2. Projects(TargetOf(p))
      BY <3>1 DEF Projects
    <3>3. QED
      BY <3>1, <3>2, ProjectBook
  <2>2. CASE StartDelete(p) \/ StartPin(p) \/ StartRemove(p) \/ StartFail(p)
    BY <2>2, DeleteBook, PinBook, TakeDownBook
  <2>3. QED
    BY <1>6, <2>1, <2>2
       DEF RequestStep, Issue, Replay, Busy, Resume, Mismatch, StartAppend, AppendRefused,
           DeleteNothing, Answered, pasteVars, LedgerStepOnly
<1>7. ASSUME NEW m \in late, LateArrives(m), ~LedgerStepOnly
      PROVE  Goal
  <2>1. m.gen \in Generation /\ create[m.gen] # "new"
    BY <1>1 DEF Shape, NetTyped, Message, Unborn
  <2>2. WriteRow(m.gen) /\ UNCHANGED <<entries, tombstone, receipts, create>>
    BY <1>7 DEF LateArrives, pasteVars, identityVars, frontVars, LedgerStepOnly
  <2>3. QED
    BY <2>1, <2>2, WriteBook
<1>8. CASE UNCHANGED vars
  BY <1>2, <1>8 DEF vars, pasteVars, LedgerStepOnly
<1>9. QED
  BY <1>2, <1>3, <1>4, <1>5, <1>6, <1>7, <1>8 DEF Next

\* The cells keep one book between them (put, abortCreate, publishAppend,
\* deleteVersion, remove, fail, artifactDecide, artifactDrop): where nothing is
\* removed, or where a removal cannot meet a put of the same create.
THEOREM ImplementsBook ==
  ASSUME SettledRemovals
  PROVE  Spec => KeepsBook
<1>1. Init => BookInv
  BY BookInit
<1>2. BookInv /\ [Next]_vars => BookInv'
  BY BookStep
<1>3. Init => Book!BookInit
  <2> SUFFICES ASSUME Init
               PROVE  Book!BookInit
    OBVIOUS
  <2>1. \A g \in Generation : LifeOf(g) = "new"
    BY LifeIs DEF Init
  <2>2. \A g \in Generation : HeldOf(g) = [uploads |-> {}, bytes |-> 0]
    BY GenerationFields DEF Init, HeldOf, Visible, Present, NoRow
  <2>3. \A o \in Owner, s \in Slug : entries[o][s].charged = 0
    BY DEF Init, NoEntry
  <2>4. receipts = [p \in Op |-> "none"]
    BY DEF Init
  <2>5. QED
    BY <2>1, <2>2, <2>3, <2>4 DEF Book!BookInit, Book!Nothing
<1>4. BookInv /\ BookInv' /\ [Next]_vars => [Book!BookNext]_(Book!bookVars)
  BY BookNextStep
<1>5. QED
  BY <1>1, <1>2, <1>3, <1>4, PTL DEF Spec, KeepsBook, Book!BookSpec
=============================================================================
