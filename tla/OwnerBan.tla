------------------------------ MODULE OwnerBan ------------------------------
(***************************************************************************)
(* Quarantine, release and the owner ban (worker/src/cells/abuse.js,       *)
(* bans.js), the quarantine record of the Paste cells, and the public      *)
(* reads and purges of EdgeCache around them.                              *)
(*                                                                         *)
(* Every operator request is a mutation: it holds the Abuse cell from its  *)
(* check to its answer.  The alarm is not.  It reads the ban record, works *)
(* a batch of slugs with calls to their Paste cells, and puts its own copy *)
(* of the record at the end: the operator, the owner, the readers and the  *)
(* clock move between its calls.                                           *)
(*                                                                         *)
(* Abstractions.  One owner, banned at most once.  The identity list names *)
(* the owner's rows.  A request's own calls to a Paste cell are one step   *)
(* with it.  The audit log, the watcher's caps and the protected owners    *)
(* decide only whether a request is made at all.  Minutes, hours and days  *)
(* are shortened to units of one clock, in the order the code has them.    *)
(***************************************************************************)
EXTENDS EdgeCache

CONSTANTS
    Late,        \* the slugs a session admitted before the ban still creates
    SessionEnds, \* when the last such session is over
    Batch,       \* QUARANTINE_BATCH, DELETE_BATCH, RELEASE_BATCH
    Continue,    \* CONTINUE_MS
    FirstSweep,  \* FIRST_SWEEP_MS
    SweepEvery,  \* SWEEP_EVERY_MS
    ErrorRetry,  \* the alarm's wait after a pass that threw
    Retention,   \* retentionDays
    LastBan,     \* bound: no ban is made after this time
    Budgets      \* bounds, one chosen per behaviour: how many single quarantines
                 \* and releases, faults (stops, failures, lost answers) and reads

ASSUME BanAssumption ==
    /\ Late \subseteq Slugs /\ Batch \in Nat \ {0} /\ Continue \in Nat \ {0}
    /\ {FirstSweep, SweepEvery, ErrorRetry, Retention} \subseteq Nat \ {0}
    /\ {SessionEnds, LastBan} \subseteq Nat
    /\ Budgets \subseteq [operator : Nat, faults : Nat, reads : Nat]

VARIABLES
    row,        \* slug -> "unborn", "live" or "removed"
    quarantine, \* slug -> "none", "own" (on its own) or "ban" (by the ban)
    index,      \* the quarantine index
    denied,     \* the owner's key is on the denylist
    ban,        \* the ban record
    alarmAt,    \* the Abuse cell's alarm, or Never
    pass,       \* the alarm at work, with its copy of the record
    budget,     \* what is left of the bounds
    unbanAt     \* when an unban was answered, or Never: for the properties

banVars == <<row, quarantine, index, denied, ban, alarmAt, pass, budget, unbanAt>>
vars == <<edgeVars, banVars>>

Never == MaxTime + 1
NoBan == [state |-> "none", slugs |-> [s \in Slugs |-> "unlisted"],
          nextSweep |-> 0, deleteAfter |-> 0, repurge |-> {}]
NoPass == [stage |-> "idle", at |-> 0, record |-> NoBan, todo |-> {}, marking |-> {}, purge |-> {}, fresh |-> {}]

Soonest(S) == CHOOSE t \in S : \A u \in S : t <= u
SlugsIn(record, states) == {s \in Slugs : record.slugs[s] \in states}
DeletableOnce == {"pending", "banned", "own"}

Deletable == {"pending", "banned", "own", "failed"}

Rows == {s \in Slugs : row[s] = "live"}
Served(s) == row[s] = "live" /\ quarantine[s] = "none"

\* The last instant stands for all that follow.
Within(t) == Soonest({t, MaxTime})
Spend(kind) == budget[kind] > 0 /\ budget' = [budget EXCEPT ![kind] = @ - 1]

Schedule(at) == alarmAt' = Soonest({alarmAt, at})

Init ==
    /\ EdgeInit
    /\ row = [s \in Slugs |-> IF s \in Late THEN "unborn" ELSE "live"]
    /\ quarantine = [s \in Slugs |-> "none"]
    /\ index = {}
    /\ denied = FALSE
    /\ ban = NoBan
    /\ alarmAt = Never
    /\ pass = NoPass
    /\ budget \in Budgets
    /\ unbanAt = Never

-----------------------------------------------------------------------------
(* The operator, the owner and the readers. *)

\* The first record stands.
Quarantine(s) ==
    /\ row[s] = "live"
    /\ Spend("operator")
    /\ quarantine' = [quarantine EXCEPT ![s] = IF @ = "none" THEN "own" ELSE @]
    /\ index' = IF quarantine[s] = "none" THEN index \union {s} ELSE index
    /\ \E refused \in BOOLEAN : PurgeTwice(s, refused)
    /\ UNCHANGED <<now, reads, row, denied, ban, alarmAt, pass, unbanAt>>

Release(s) ==
    /\ quarantine[s] # "none"
    /\ Spend("operator")
    /\ quarantine' = [quarantine EXCEPT ![s] = "none"]
    /\ index' = index \ {s}
    /\ PurgeTwice(s, FALSE)
    /\ UNCHANGED <<now, reads, row, denied, ban, alarmAt, pass, unbanAt>>

BanOwner ==
    /\ ban.state = "none" /\ now <= LastBan
    /\ denied' = TRUE
    /\ ban' = [state |-> "active",
               slugs |-> [s \in Slugs |-> IF s \in Rows THEN "pending" ELSE "unlisted"],
               nextSweep |-> now + FirstSweep, deleteAfter |-> now + Retention, repurge |-> {}]
    /\ Schedule(now)
    /\ UNCHANGED <<edgeVars, row, quarantine, index, pass, budget, unbanAt>>

UnbanOwner ==
    /\ ban.state = "active"
    /\ denied' = FALSE
    /\ ban' = [ban EXCEPT !.state = "lifting"]
    /\ unbanAt' = now
    /\ Schedule(now)
    /\ UNCHANGED <<edgeVars, row, quarantine, index, pass, budget>>

\* A session admitted before every replica knew of the ban.
CreateLate(s) ==
    /\ row[s] = "unborn" /\ now < SessionEnds
    /\ row' = [row EXCEPT ![s] = "live"]
    /\ UNCHANGED <<edgeVars, quarantine, index, denied, ban, alarmAt, pass, budget, unbanAt>>

\* A quarantined slug answers its owner 451.
OwnerRemoves(s) ==
    /\ Served(s) /\ now < SessionEnds
    /\ row' = [row EXCEPT ![s] = "removed"]
    /\ PurgeTwice(s, FALSE)
    /\ UNCHANGED <<now, reads, quarantine, index, denied, ban, alarmAt, pass, budget, unbanAt>>

ReadStep(s) ==
    /\ \/ ReadBegins(s) /\ Spend("reads")
       \/ (ReadResolves(s, Served(s)) \/ Fills(s) \/ Abandons(s)) /\ UNCHANGED budget
    /\ UNCHANGED <<row, quarantine, index, denied, ban, alarmAt, pass, unbanAt>>

-----------------------------------------------------------------------------
(* The alarm: one pass over the ban. *)

\* What a pass in a state has to do with.
Due(state) ==
    CASE state = "active" -> {"pending"}
      [] state = "deleting" -> Deletable
      [] OTHER -> {"banned", "pending"}

\* The batch a pass takes from its record, in whatever order.
TakeBatch(record, at, purge) ==
  LET states == Due(record.state) IN
    \E todo \in SUBSET SlugsIn(record, states) :
        /\ Cardinality(todo) = Soonest({Batch, Cardinality(SlugsIn(record, states))})
        /\ pass' = [NoPass EXCEPT !.stage = record.state, !.at = at, !.record = record,
                        !.todo = todo, !.purge = purge]

PassStarts ==
    LET record == [ban EXCEPT !.repurge = {},
                       !.state = IF @ = "active" /\ now >= ban.deleteAfter THEN "deleting" ELSE @]
    IN
    /\ pass.stage = "idle" /\ alarmAt <= now
    /\ alarmAt' = Never
    /\ IF ban.state \notin {"active", "deleting", "lifting"} THEN pass' = pass
       ELSE IF record.state = "active" /\ now >= record.nextSweep
       THEN pass' = [NoPass EXCEPT !.stage = "sweep", !.at = now, !.record = record, !.purge = ban.repurge]
       ELSE TakeBatch(record, now, ban.repurge)
    /\ UNCHANGED <<edgeVars, row, quarantine, index, denied, ban, budget, unbanAt>>

\* The listing is read again; what it names that the record does not is
\* pending.
PassSweeps ==
    LET listed == [s \in Slugs |->
            IF pass.record.slugs[s] = "unlisted" /\ s \in Rows THEN "pending" ELSE pass.record.slugs[s]]
        record == [pass.record EXCEPT !.slugs = listed, !.nextSweep = pass.at + SweepEvery]
    IN
    /\ pass.stage = "sweep"
    /\ TakeBatch(record, pass.at, pass.purge)
    /\ UNCHANGED <<edgeVars, row, quarantine, index, denied, ban, alarmAt, budget, unbanAt>>

\* The slug is settled within the pass as `state`, and has to be purged once,
\* twice or not at all.
Settles(s, state, purge, fresh) ==
    pass' = [pass EXCEPT !.todo = @ \ {s}, !.record.slugs[s] = state,
                 !.purge = @ \union purge, !.fresh = @ \union fresh]

\* operatorrow: an absent row is gone, a slug already quarantined is its own.
PassLooks(s) ==
    /\ pass.stage = "active" /\ s \in pass.todo /\ pass.marking = {}
    /\ \/ row[s] # "live" /\ Settles(s, "gone", {}, {})
       \/ row[s] = "live" /\ quarantine[s] # "none" /\ Settles(s, "own", {}, {})
       \/ Served(s) /\ pass' = [pass EXCEPT !.todo = @ \ {s}, !.marking = {s}]
    /\ UNCHANGED <<edgeVars, row, quarantine, index, denied, ban, alarmAt, budget, unbanAt>>

\* quarantine: a row removed since stays pending.
MarkRow(s) ==
    quarantine' = [quarantine EXCEPT ![s] = IF @ = "none" /\ row[s] = "live" THEN "ban" ELSE @]
PassMarks(s) ==
    /\ s \in pass.marking
    /\ MarkRow(s)
    /\ IF row[s] = "live"
       THEN /\ index' = index \union {s}
            /\ pass' = [pass EXCEPT !.marking = {}, !.record.slugs[s] = "banned", !.fresh = @ \union {s}]
       ELSE pass' = [pass EXCEPT !.marking = {}] /\ index' = index
    /\ UNCHANGED <<edgeVars, row, denied, ban, alarmAt, budget, unbanAt>>

\* remove: an absent row counts as deleted; an answer that is lost, or a
\* refusal, is a failure that the next pass retries.
PassDeletes(s) ==
    /\ pass.stage = "deleting" /\ s \in pass.todo
    /\ \/ /\ row' = [row EXCEPT ![s] = IF @ = "live" THEN "removed" ELSE @]
          /\ quarantine' = [quarantine EXCEPT ![s] = "none"]
          /\ index' = index \ {s}
          /\ Settles(s, "deleted", {s}, {})
          /\ budget' = budget
       \/ /\ Spend("faults")
          /\ row[s] = "live"
          /\ \/ row' = [row EXCEPT ![s] = "removed"] /\ quarantine' = [quarantine EXCEPT ![s] = "none"]
             \/ UNCHANGED <<row, quarantine>>
          /\ Settles(s, "failed", {}, {})
          /\ index' = index
    /\ UNCHANGED <<edgeVars, denied, ban, alarmAt, unbanAt>>

PassReleases(s) ==
    /\ pass.stage = "lifting" /\ s \in pass.todo
    /\ IF pass.record.slugs[s] = "banned"
       THEN /\ quarantine' = [quarantine EXCEPT ![s] = "none"]
            /\ index' = index \ {s}
            /\ Settles(s, "released", {}, {s})
       ELSE /\ Settles(s, "released", {}, {})
            /\ UNCHANGED <<quarantine, index>>
    /\ UNCHANGED <<edgeVars, row, denied, ban, alarmAt, budget, unbanAt>>

\* What the pass leaves of its record, and when it wants the alarm next.
Left(record) == SlugsIn(record, Due(record.state)) # {}
Ended(record) ==
    IF Left(record) \/ record.state = "active" THEN record
    ELSE [record EXCEPT !.state = IF @ = "deleting" THEN "deleted" ELSE "lifted"]
NextDueOfActive(record, fresh) ==
    IF record.state = "active" THEN pass.at + Continue
    ELSE IF fresh = {} THEN Never ELSE pass.at + RepurgeAfter

NextDue(record, fresh) ==
    LET work == IF record.state = "active"
                THEN Soonest({IF Left(record) THEN pass.at + Continue ELSE record.nextSweep,
                              record.deleteAfter})
                ELSE IF Left(record) THEN pass.at + Continue ELSE Never
    IN  IF fresh = {} THEN work ELSE Soonest({work, pass.at + RepurgeAfter})

\* The purge, the put of the pass's own copy over whatever the record has
\* become, and the alarm.
PassEnds ==
    LET due == NextDue(pass.record, pass.fresh) IN
    /\ pass.stage \in {"active", "deleting", "lifting"} /\ pass.todo = {} /\ pass.marking = {}
    /\ edge' = edge \ (pass.purge \union pass.fresh)
    /\ ban' = [Ended(pass.record) EXCEPT !.repurge = pass.fresh]
    /\ alarmAt' = IF due = Never THEN alarmAt ELSE Within(IF due > pass.at THEN due ELSE pass.at + 1)
    /\ pass' = NoPass
    /\ UNCHANGED <<now, reads, timers, row, quarantine, index, denied, budget, unbanAt>>

\* A call that was executed, or not, by the time its answer is lost.
MaybeExecuted(s) ==
    \/ UNCHANGED quarantine
    \/ s \in pass.marking /\ MarkRow(s)
    \/ /\ pass.stage = "lifting" /\ s \in pass.todo /\ pass.record.slugs[s] = "banned"
       /\ quarantine' = [quarantine EXCEPT ![s] = "none"]

\* Answered with an error: the slug waits for the next pass.
PassSkips(s) ==
    /\ Spend("faults")
    /\ pass.stage \in {"active", "lifting"}
    /\ s \in pass.todo \union pass.marking
    /\ MaybeExecuted(s)
    /\ pass' = [pass EXCEPT !.todo = @ \ {s}, !.marking = {}]
    /\ UNCHANGED <<edgeVars, row, index, denied, ban, alarmAt, unbanAt>>

\* Not answered: the record is put as far as it got, and what was to be
\* purged is forgotten.
PassThrows ==
    /\ Spend("faults")
    /\ pass.stage \in {"sweep", "active", "lifting"}
    /\ \E s \in Slugs : MaybeExecuted(s)
    /\ ban' = pass.record
    /\ alarmAt' = Within(pass.at + ErrorRetry)
    /\ pass' = NoPass
    /\ UNCHANGED <<edgeVars, row, index, denied, unbanAt>>

\* The cell stops: the pass is forgotten and the runtime retries the alarm.
CellStops ==
    /\ Spend("faults")
    /\ pass.stage # "idle"
    /\ pass' = NoPass
    /\ alarmAt' = Soonest({alarmAt, now})
    /\ UNCHANGED <<edgeVars, row, quarantine, index, denied, ban, unbanAt>>

PassWorks ==
    PassStarts \/ PassSweeps \/ PassEnds
    \/ \E s \in Slugs : PassLooks(s) \/ PassMarks(s) \/ PassDeletes(s) \/ PassReleases(s)

\* An alarm that is due fires, and its pass ends, within a unit of the clock.
Clock ==
    /\ \/ Tick /\ pass.stage = "idle" /\ alarmAt > now
       \/ \E s \in Slugs : SecondPurge(s)
    /\ UNCHANGED banVars

Next ==
    \/ \E s \in Slugs : Quarantine(s) \/ Release(s) \/ CreateLate(s) \/ OwnerRemoves(s)
    \/ BanOwner \/ UnbanOwner
    \/ \E s \in Watched : ReadStep(s)
    \/ PassWorks \/ (\E s \in Slugs : PassSkips(s)) \/ PassThrows \/ CellStops \/ Clock

\* The runtime fires a due alarm and answers its calls; the clock runs.
Spec == Init /\ [][Next]_vars /\ WF_vars(PassWorks) /\ WF_vars(Clock)

-----------------------------------------------------------------------------
(* What moderation promises (docs/SPEC.md "Quarantine", "Owner ban").      *)

\* A slug quarantined on its own is not served from the edge once its second
\* purge has run: whatever read was under way when it was quarantined, and
\* whether or not the purge API refused the first purge (abuse-routes.js 135,
\* caches.js 198).
RouteDark == \A s \in Slugs :
    quarantine[s] = "own" /\ (\A t \in timers : t[1] # s) => s \notin edge

\* Every slug of a banned owner, those created by a session that outlived the
\* ban too, is deleted in the end unless the ban is lifted: over batches,
\* failed calls, a pass that threw and a cell that stopped (bans.js advance).
BanDeletes == \A s \in Slugs :
    (ban.state = "active" /\ row[s] = "live") ~> (row[s] = "removed" \/ unbanAt # Never)

\* An unban answered while no pass is at work releases every slug the record
\* says the ban quarantined (abuse.js unbanOwner, bans.js releaseBatch).
LiftReleases == \A s \in Slugs :
    (ban.state = "lifting" /\ pass.stage = "idle" /\ ban.slugs[s] = "banned")
        ~> (quarantine[s] # "ban")

\* docs/SPEC.md 4967-4970: an unban answered before deleteAfter "cancels the
\* deletion" (abuse.js unbanOwner and alarm).
LiftCancels == unbanAt < ban.deleteAfter => ban.state \notin {"deleting", "deleted"}
=============================================================================
