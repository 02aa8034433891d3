-------------------------- MODULE ModerationProofs --------------------------
(***************************************************************************)
(* Proofs about moderation and the edge cache, for all their constants.    *)
(*                                                                         *)
(* A slug quarantined on its own is dark at the edge once its second purge *)
(* has run: a fill that may still end has a deadline before that purge,    *)
(* since a read takes its deadline before it asks and FillWindow is less   *)
(* than RepurgeAfter; and a read that asks after the quarantine fills      *)
(* nothing.                                                                *)
(***************************************************************************)
EXTENDS OwnerBan, TLAPS

Stages == {"none", "asked", "filling"}

RouteTypes ==
    /\ now \in Nat /\ edge \subseteq Watched
    /\ reads \in [Watched -> [stage : Stages, deadline : Nat]]
    /\ timers \subseteq Slugs \X Nat
    /\ row \in [Slugs -> {"unborn", "live", "removed"}]
    /\ quarantine \in [Slugs -> {"none", "own", "ban"}]

\* A read fills until FillWindow after it began, at the latest.
DeadlinesSet == \A s \in Watched : reads[s].stage # "none" => reads[s].deadline <= now + FillWindow

\* A second purge of s is still to come after the instant t.
PurgedAfter(s, t) == \E timer \in timers : timer[1] = s /\ timer[2] > t

\* What is stored of a slug quarantined on its own, and what may be yet, is
\* purged.
FillsPurged(s) ==
    /\ reads[s].stage = "filling" => reads[s].deadline < now \/ PurgedAfter(s, reads[s].deadline)
    /\ s \in edge => \E timer \in timers : timer[1] = s

RouteInv ==
    /\ RouteTypes /\ DeadlinesSet
    /\ \A s \in Watched : quarantine[s] = "own" => FillsPurged(s)

LEMMA RouteIsDark == RouteInv => RouteDark
BY DEF RouteInv, RouteTypes, RouteDark, FillsPurged

LEMMA InitRoute == Init => RouteInv
<1> SUFFICES ASSUME Init PROVE RouteInv
  OBVIOUS
<1>1. RouteTypes
  BY DEF Init, EdgeInit, RouteTypes, NoRead, Stages
<1>2. \A s \in Slugs : quarantine[s] = "none"
  BY DEF Init
<1>3. \A s \in Watched : reads[s].stage = "none"
  BY DEF Init, EdgeInit, NoRead
<1>4. QED
  BY <1>1, <1>2, <1>3, EdgeAssumption DEF RouteInv, DeadlinesSet

\* Nothing is read and no time passes, and whatever is quarantined on its own
\* was, or is purged again after RepurgeAfter.
LEMMA QuarantineMoves ==
  ASSUME RouteInv, RouteTypes', UNCHANGED <<now, reads>>, timers \subseteq timers', edge' \subseteq edge,
         \A s \in Watched : quarantine'[s] = "own" =>
            quarantine[s] = "own" \/ <<s, now + RepurgeAfter>> \in timers'
  PROVE  RouteInv'
<1>1. DeadlinesSet'
  BY DEF RouteInv, DeadlinesSet
<1>2. ASSUME NEW s \in Watched, quarantine'[s] = "own" PROVE FillsPurged(s)'
  <2>1. CASE quarantine[s] = "own"
    BY <2>1 DEF RouteInv, FillsPurged, PurgedAfter
  <2>2. CASE <<s, now + RepurgeAfter>> \in timers'
    <3>1. reads[s].stage = "filling" => now + RepurgeAfter > reads[s].deadline
      BY EdgeAssumption DEF RouteInv, RouteTypes, DeadlinesSet
    <3>2. QED
      BY <2>2, <3>1 DEF FillsPurged, PurgedAfter
  <2>3. QED
    BY <1>2, <2>1, <2>2
<1>3. QED
  BY <1>1, <1>2 DEF RouteInv

\* The read of one slug moves, and all else at the edge stays, but for the
\* entry of a slug whose fill ends.
LEMMA OneRead ==
  ASSUME RouteInv, RouteTypes', UNCHANGED <<now, timers, quarantine>>, NEW s \in Watched,
         \A r \in Watched : r # s => reads'[r] = reads[r] /\ (r \in edge' <=> r \in edge),
         reads'[s].stage # "none" => reads'[s].deadline <= now + FillWindow,
         quarantine[s] = "own" => FillsPurged(s)'
  PROVE  RouteInv'
<1>1. DeadlinesSet'
  BY DEF RouteInv, DeadlinesSet
<1>2. ASSUME NEW r \in Watched, quarantine'[r] = "own", r # s PROVE FillsPurged(r)'
  BY <1>2 DEF RouteInv, FillsPurged, PurgedAfter
<1>3. QED
  BY <1>1, <1>2 DEF RouteInv

\* A step of the reads of one slug.
LEMMA ReadMoves ==
  ASSUME RouteInv, NEW s \in Watched, ReadStep(s)
  PROVE  RouteInv'
<1>0. UNCHANGED <<now, timers, row, quarantine>> /\ RouteTypes /\ s \in Slugs /\ reads[s].deadline \in Nat
  BY EdgeAssumption DEF ReadStep, ReadBegins, ReadResolves, Fills, Abandons, RouteInv, RouteTypes
<1>t. ASSUME NEW r \in [stage : Stages, deadline : Nat], reads' = [reads EXCEPT ![s] = r], edge' \subseteq edge \union {s}
      PROVE RouteTypes' /\ reads'[s] = r /\ \A x \in Watched : x # s => reads'[x] = reads[x]
  BY <1>0, <1>t DEF RouteTypes
<1>n. NoRead \in [stage : Stages, deadline : Nat] /\ NoRead.stage = "none"
  BY DEF NoRead, Stages
<1>1. CASE ReadBegins(s)
  <2> DEFINE r == [stage |-> "asked", deadline |-> now + FillWindow]
  <2>1. r \in [stage : Stages, deadline : Nat] /\ r.stage = "asked" /\ r.deadline = now + FillWindow
    BY <1>0, EdgeAssumption DEF RouteTypes, Stages
  <2>2. reads' = [reads EXCEPT ![s] = r] /\ edge' = edge /\ s \notin edge
    BY <1>1 DEF ReadBegins
  <2> HIDE DEF r
  <2>3. RouteTypes' /\ reads'[s] = r /\ \A x \in Watched : x # s => reads'[x] = reads[x]
    BY <1>t, <2>1, <2>2
  <2>4. FillsPurged(s)'
    BY <2>1, <2>2, <2>3 DEF FillsPurged
  <2>5. reads'[s].deadline <= now + FillWindow
    BY <2>1, <2>3, <1>0, EdgeAssumption DEF RouteTypes
  <2>6. QED
    BY <1>0, <2>2, <2>3, <2>4, <2>5, OneRead
<1>2. CASE ReadResolves(s, Served(s))
  <2>1. reads[s].stage = "asked" /\ edge' = edge
    BY <1>2 DEF ReadResolves
  <2>2. CASE Served(s)
    <3> DEFINE r == [reads[s] EXCEPT !.stage = "filling"]
    <3>1. r \in [stage : Stages, deadline : Nat] /\ r.deadline = reads[s].deadline
      BY <1>0 DEF RouteTypes, Stages
    <3>2. reads' = [reads EXCEPT ![s] = r]
      BY <1>2, <2>2 DEF ReadResolves
    <3> HIDE DEF r
    <3>3. RouteTypes' /\ reads'[s] = r /\ \A x \in Watched : x # s => reads'[x] = reads[x]
      BY <1>t, <2>1, <3>1, <3>2
    <3>4. reads[s].deadline <= now + FillWindow
      BY <2>1 DEF RouteInv, DeadlinesSet
    <3>5. quarantine[s] # "own"
      BY <2>2 DEF Served
    <3>6. QED
      BY <1>0, <2>1, <3>1, <3>3, <3>4, <3>5, OneRead
  <2>3. CASE ~Served(s)
    <3>1. reads' = [reads EXCEPT ![s] = NoRead]
      BY <1>2, <2>3 DEF ReadResolves
    <3>2. RouteTypes' /\ reads'[s] = NoRead /\ \A x \in Watched : x # s => reads'[x] = reads[x]
      BY <1>t, <1>n, <2>1, <3>1
    <3>3. quarantine[s] = "own" => FillsPurged(s)'
      BY <1>0, <1>n, <2>1, <3>2 DEF RouteInv, FillsPurged
    <3>4. QED
      BY <1>0, <1>n, <2>1, <3>2, <3>3, OneRead
  <2>4. QED
    BY <2>2, <2>3
<1>3. CASE Fills(s)
  <2>1. reads[s].stage = "filling" /\ now <= reads[s].deadline /\ edge' = edge \union {s}
        /\ reads' = [reads EXCEPT ![s] = NoRead]
    BY <1>3 DEF Fills, InTime
  <2>2. RouteTypes' /\ reads'[s] = NoRead /\ \A x \in Watched : x # s => reads'[x] = reads[x]
    BY <1>t, <1>n, <2>1
  <2>3. quarantine[s] = "own" => PurgedAfter(s, reads[s].deadline)
    BY <1>0, <2>1 DEF RouteInv, FillsPurged, RouteTypes
  <2>4. quarantine[s] = "own" => FillsPurged(s)'
    BY <1>0, <1>n, <2>2, <2>3 DEF FillsPurged, PurgedAfter
  <2>5. QED
    BY <1>0, <1>n, <2>1, <2>2, <2>4, OneRead
<1>4. CASE Abandons(s)
  <2>1. reads' = [reads EXCEPT ![s] = NoRead] /\ edge' = edge
    BY <1>4 DEF Abandons
  <2>2. RouteTypes' /\ reads'[s] = NoRead /\ \A x \in Watched : x # s => reads'[x] = reads[x]
    BY <1>t, <1>n, <2>1
  <2>3. quarantine[s] = "own" => FillsPurged(s)'
    BY <1>0, <1>n, <2>1, <2>2 DEF RouteInv, FillsPurged
  <2>4. QED
    BY <1>0, <1>n, <2>1, <2>2, <2>3, OneRead
<1>5. QED
  BY <1>1, <1>2, <1>3, <1>4 DEF ReadStep

\* A timer that fires is past: so is the deadline of a fill it would purge.
LEMMA TimerMoves ==
  ASSUME RouteInv, NEW s \in Slugs, SecondPurge(s), UNCHANGED banVars
  PROVE  RouteInv'
<1>1. PICK t \in timers : t[1] = s /\ t[2] <= now /\ timers' = timers \ {t} /\ edge' = edge \ {s} /\ UNCHANGED <<now, reads>>
  BY DEF SecondPurge
<1>2. UNCHANGED <<row, quarantine>>
  BY DEF banVars
<1>3. RouteTypes' /\ DeadlinesSet'
  BY <1>1, <1>2 DEF RouteInv, RouteTypes, DeadlinesSet
<1>4. ASSUME NEW r \in Watched, quarantine'[r] = "own" PROVE FillsPurged(r)'
  <2>1. FillsPurged(r)
    BY <1>2, <1>4 DEF RouteInv
  <2>2. reads[r].deadline \in Nat /\ now \in Nat /\ t[2] \in Nat
    BY <1>1 DEF RouteInv, RouteTypes
  <2>3. ASSUME reads[r].stage = "filling", ~(reads[r].deadline < now)
        PROVE  \E timer \in timers' : timer[1] = r /\ timer[2] > reads[r].deadline
    <3>1. PICK timer \in timers : timer[1] = r /\ timer[2] > reads[r].deadline
      BY <2>1, <2>3 DEF FillsPurged, PurgedAfter
    <3>2. timer # t
      BY <1>1, <2>2, <2>3, <3>1
    <3>3. QED
      BY <1>1, <3>1, <3>2
  <2>4. ASSUME r \in edge' PROVE \E timer \in timers' : timer[1] = r
    <3>1. r \in edge /\ r # s
      BY <1>1, <2>4
    <3>2. PICK timer \in timers : timer[1] = r
      BY <2>1, <3>1 DEF FillsPurged
    <3>3. QED
      BY <1>1, <3>1, <3>2
  <2>5. QED
    BY <1>1, <2>3, <2>4 DEF FillsPurged, PurgedAfter
<1>5. QED
  BY <1>3, <1>4 DEF RouteInv

LEMMA TickMoves ==
  ASSUME RouteInv, Tick, UNCHANGED banVars
  PROVE  RouteInv'
<1>1. now' = now + 1 /\ UNCHANGED <<edge, reads, timers, row, quarantine>> /\ now \in Nat
  BY DEF Tick, banVars, RouteInv, RouteTypes
<1>2. RouteTypes'
  BY <1>1 DEF RouteInv, RouteTypes
<1>3. DeadlinesSet'
  <2> SUFFICES ASSUME NEW s \in Watched, reads[s].stage # "none" PROVE reads[s].deadline <= now' + FillWindow
    BY <1>1 DEF DeadlinesSet
  <2>1. reads[s].deadline <= now + FillWindow /\ reads[s].deadline \in Nat
    BY DEF RouteInv, RouteTypes, DeadlinesSet
  <2>2. QED
    BY <1>1, <2>1, EdgeAssumption
<1>4. ASSUME NEW s \in Watched, quarantine'[s] = "own" PROVE FillsPurged(s)'
  <2>1. FillsPurged(s) /\ reads[s].deadline \in Nat
    BY <1>1, <1>4 DEF RouteInv, RouteTypes
  <2>2. reads[s].deadline < now => reads[s].deadline < now'
    BY <1>1, <2>1
  <2>3. QED
    BY <1>1, <2>1, <2>2 DEF FillsPurged, PurgedAfter
<1>5. QED
  BY <1>2, <1>3, <1>4 DEF RouteInv

\* The alarm quarantines for the ban, or releases: nothing on its own.
LEMMA PassMoves ==
  ASSUME RouteInv, UNCHANGED <<now, reads, timers>>, edge' \subseteq edge,
         row' = row \/ (\E s \in Slugs : row' = [row EXCEPT ![s] = "removed"]),
         quarantine' = quarantine \/ (\E s \in Slugs : MarkRow(s) \/ quarantine' = [quarantine EXCEPT ![s] = "none"])
  PROVE  RouteInv'
<1>1. RouteTypes'
  <2>1. row' \in [Slugs -> {"unborn", "live", "removed"}]
    BY DEF RouteInv, RouteTypes
  <2>2. quarantine' \in [Slugs -> {"none", "own", "ban"}]
    BY DEF RouteInv, RouteTypes, MarkRow
  <2>3. QED
    BY <2>1, <2>2 DEF RouteInv, RouteTypes
<1>2. ASSUME NEW s \in Watched, quarantine'[s] = "own" PROVE quarantine[s] = "own"
  <2>1. s \in Slugs /\ quarantine \in [Slugs -> {"none", "own", "ban"}]
    BY EdgeAssumption DEF RouteInv, RouteTypes
  <2>2. QED
    BY <1>2, <2>1 DEF MarkRow
<1>3. QED
  BY <1>1, <1>2, QuarantineMoves

LEMMA NextRoute == RouteInv /\ [Next]_vars => RouteInv'
<1> SUFFICES ASSUME RouteInv, [Next]_vars PROVE RouteInv'
  OBVIOUS
<1>0. now \in Nat /\ row \in [Slugs -> {"unborn", "live", "removed"}] /\ quarantine \in [Slugs -> {"none", "own", "ban"}]
  BY DEF RouteInv, RouteTypes
<1>1. ASSUME NEW s \in Slugs, Quarantine(s) PROVE RouteInv'
  <2>1. /\ quarantine' = [quarantine EXCEPT ![s] = IF @ = "none" THEN "own" ELSE @]
        /\ edge' \subseteq edge /\ UNCHANGED <<now, reads, row>>
        /\ timers' = IF s \in Watched THEN timers \union {<<s, now + RepurgeAfter>>} ELSE timers
    BY <1>1 DEF Quarantine, PurgeTwice
  <2>2. RouteTypes'
    BY <1>0, <2>1, EdgeAssumption DEF RouteInv, RouteTypes
  <2>3. QED
    BY <1>0, <2>1, <2>2, EdgeAssumption, QuarantineMoves
<1>2. ASSUME NEW s \in Slugs, Release(s) PROVE RouteInv'
  <2>1. /\ quarantine' = [quarantine EXCEPT ![s] = "none"]
        /\ edge' \subseteq edge /\ UNCHANGED <<now, reads, row>>
        /\ timers' = IF s \in Watched THEN timers \union {<<s, now + RepurgeAfter>>} ELSE timers
    BY <1>2 DEF Release, PurgeTwice
  <2>2. RouteTypes'
    BY <1>0, <2>1, EdgeAssumption DEF RouteInv, RouteTypes
  <2>3. QED
    BY <1>0, <2>1, <2>2, EdgeAssumption, QuarantineMoves
<1>3. ASSUME NEW s \in Slugs, OwnerRemoves(s) PROVE RouteInv'
  <2>1. /\ row' = [row EXCEPT ![s] = "removed"] /\ UNCHANGED <<now, reads, quarantine>> /\ edge' \subseteq edge
        /\ timers' = IF s \in Watched THEN timers \union {<<s, now + RepurgeAfter>>} ELSE timers
    BY <1>3 DEF OwnerRemoves, PurgeTwice
  <2>2. RouteTypes'
    BY <1>0, <2>1, EdgeAssumption DEF RouteInv, RouteTypes
  <2>3. QED
    BY <2>1, <2>2, QuarantineMoves
<1>4. ASSUME NEW s \in Slugs, CreateLate(s) PROVE RouteInv'
  <2>1. row' = [row EXCEPT ![s] = "live"] /\ UNCHANGED <<now, reads, timers, edge, quarantine>>
    BY <1>4 DEF CreateLate, edgeVars
  <2>2. RouteTypes'
    BY <1>0, <2>1 DEF RouteInv, RouteTypes
  <2>3. QED
    BY <2>1, <2>2, QuarantineMoves
<1>5. ASSUME NEW s \in Watched, ReadStep(s) PROVE RouteInv'
  BY <1>5, ReadMoves
<1>6. ASSUME \/ BanOwner \/ UnbanOwner \/ PassStarts \/ PassSweeps \/ PassEnds \/ CellStops \/ UNCHANGED vars
             \/ \E s \in Slugs : PassLooks(s)
      PROVE  RouteInv'
  <2>1. UNCHANGED <<now, reads, timers, row, quarantine>> /\ edge' \subseteq edge
    BY <1>6 DEF BanOwner, UnbanOwner, PassStarts, PassSweeps, PassEnds, CellStops, PassLooks, vars, edgeVars, banVars
  <2>2. QED
    BY <2>1, PassMoves
<1>7. ASSUME NEW s \in Slugs, PassMarks(s) PROVE RouteInv'
  BY <1>7, PassMoves DEF PassMarks, edgeVars
<1>8. ASSUME NEW s \in Slugs, PassDeletes(s) PROVE RouteInv'
  <2>1. UNCHANGED <<now, reads, timers, edge>>
    BY <1>8 DEF PassDeletes, edgeVars
  <2>2. row' = row \/ row' = [row EXCEPT ![s] = "removed"]
    BY <1>0, <1>8 DEF PassDeletes
  <2>3. quarantine' = quarantine \/ quarantine' = [quarantine EXCEPT ![s] = "none"]
    BY <1>8 DEF PassDeletes
  <2>4. QED
    BY <2>1, <2>2, <2>3, PassMoves
<1>9. ASSUME NEW s \in Slugs, PassReleases(s) PROVE RouteInv'
  <2>1. UNCHANGED <<now, reads, timers, edge, row>>
    BY <1>9 DEF PassReleases, edgeVars
  <2>2. quarantine' = quarantine \/ quarantine' = [quarantine EXCEPT ![s] = "none"]
    BY <1>9 DEF PassReleases
  <2>3. QED
    BY <2>1, <2>2, PassMoves
<1>10. ASSUME PassThrows \/ \E s \in Slugs : PassSkips(s) PROVE RouteInv'
  <2>1. PICK s \in Slugs : MaybeExecuted(s)
    BY <1>10 DEF PassThrows, PassSkips
  <2>2. UNCHANGED <<now, reads, timers, edge, row>>
    BY <1>10 DEF PassThrows, PassSkips, edgeVars
  <2>3. quarantine' = quarantine \/ MarkRow(s) \/ quarantine' = [quarantine EXCEPT ![s] = "none"]
    BY <2>1 DEF MaybeExecuted
  <2>4. QED
    BY <2>2, <2>3, PassMoves
<1>11. ASSUME Clock PROVE RouteInv'
  BY <1>11, TimerMoves, TickMoves DEF Clock
<1>12. QED
  BY <1>1, <1>2, <1>3, <1>4, <1>5, <1>6, <1>7, <1>8, <1>9, <1>10, <1>11 DEF Next, PassWorks

\* A slug quarantined on its own is not served from the edge once its second
\* purge has run, whatever read was under way and whether or not the first
\* purge was refused (caches.js 198, abuse-routes.js 135).
THEOREM AlwaysRouteDark == Spec => []RouteDark
BY InitRoute, NextRoute, RouteIsDark, PTL DEF Spec
=============================================================================
