------------------------------ MODULE RoomPush ------------------------------
(***************************************************************************)
(* The push schedule of a Room cell (worker/src/cells/room.js, push.js)    *)
(* and the one alarm it shares with the budget recovery of RoomEscrow.     *)
(*                                                                         *)
(* The requests and the alarm all hold the cell, so a fire is interleaved  *)
(* with nothing but a stop of the cell.  The alarm first resumes the       *)
(* pending budget operation, then advances and saves the schedule, then    *)
(* sends, then saves the counters.  Every save sets the alarm anew, to     *)
(* what either side stored.                                                *)
(*                                                                         *)
(* Abstractions.  Zones and dates are instants counted in units: a daily   *)
(* item is due once in every Day units, and the date is the day.  The push *)
(* service answers, refuses or reports the subscription gone.  Encryption  *)
(* and the token of the app cell either work or make the send fail.        *)
(***************************************************************************)
EXTENDS Naturals, FiniteSets, Sequences, Functions

CONSTANTS
    Subs,       \* push endpoints
    Daily,      \* daily items
    OneShot,    \* items with a `when`
    Instant,    \* item -> its hour of the day, or its instant
    Day,        \* units in a day
    MaxSubs,    \* PUSH_MAX_SUBSCRIPTIONS
    DailyCap,   \* PUSH_DAILY_CAP
    PushStale,  \* PUSH_STALE_MS
    PruneGrace, \* PUSH_PRUNE_GRACE_MS
    TestEvery,  \* PUSH_TEST_INTERVAL_MS
    MaxLate,    \* bound: how late an alarm fires or a request is served
    MaxClock,   \* bound on the clock
    MaxStops,   \* bound on the stops of the cell
    MaxEdits    \* bound on subscriptions, schedules, tests and budget operations

Items == Daily \union OneShot

ASSUME PushAssumption ==
    /\ {Day, MaxSubs, DailyCap, TestEvery} \subseteq Nat \ {0}
    /\ {PushStale, PruneGrace, MaxLate, MaxClock, MaxStops, MaxEdits} \subseteq Nat
    /\ Instant \in [Items -> Nat \ {0}] /\ "test" \notin Items

VARIABLES
    clock,
    push,     \* the push record: subscriptions, due instants, last test
    retryAt,  \* the retry instant of a pending budget operation, or NoTime
    timer,    \* the alarm of the cell, or NoTime
    fire,     \* the alarm or the test at work, with its copy of the record
    log,      \* what was sent since the schedule was put: <<sub, item, due>>
    bound     \* what is left of the bounds

pushVars == <<clock, push, retryAt, timer, fire, log, bound>>

NoTime == MaxClock + MaxLate + 2 * Day + 1
Earliest(S) == CHOOSE t \in S : \A u \in S : t <= u
NoSub == [added |-> NoTime, date |-> 0, count |-> 0]
NoPush == [subs |-> [s \in Subs |-> NoSub], due |-> [i \in Items |-> NoTime], lastTest |-> NoTime]
NoFire == [stage |-> "idle", copy |-> NoPush, sends |-> {}, gone |-> {}]

PushInit ==
    /\ clock = 0 /\ push = NoPush /\ retryAt = NoTime /\ timer = NoTime
    /\ fire = NoFire /\ log = <<>>
    /\ bound = [stops |-> MaxStops, edits |-> MaxEdits]

Subscribed(record) == {s \in Subs : record.subs[s] # NoSub}
Scheduled(record) == {i \in Items : record.due[i] # NoTime}
NextFireAt(record) == Earliest({record.due[i] : i \in Items} \union {NoTime})

\* nextDue: strictly after `at`.
DueAfter(i, at) ==
    IF i \in OneShot THEN Instant[i]
    ELSE Earliest({t \in (at + 1)..(at + Day) : t % Day = Instant[i] % Day})

\* rearm: the earlier of what the two sides stored.  It is part of every save
\* of either.
ArmedForBudget(record, retry) == timer' = retry

Rearm(record, retry) == timer' = Earliest({NextFireAt(record), retry})

SavePush(record) == push' = record /\ Rearm(record, retryAt)
SaveRetry(retry) == retryAt' = retry /\ Rearm(push, retry)

-----------------------------------------------------------------------------
(* Requests, each holding the cell from its check to its answer. *)

Edits ==
    /\ fire.stage = "idle"
    /\ bound.edits > 0 /\ bound' = [bound EXCEPT !.edits = @ - 1]

\* pushSubPut: a known endpoint keeps its counters.
SubPut(s) ==
    /\ Edits
    /\ s \in Subscribed(push) \/ Cardinality(Subscribed(push)) < MaxSubs
    /\ SavePush([push EXCEPT !.subs[s] = IF @ = NoSub THEN [NoSub EXCEPT !.added = clock] ELSE @])
    /\ UNCHANGED <<clock, retryAt, fire, log>>

SubDel(s) ==
    /\ Edits
    /\ s \in Subscribed(push)
    /\ SavePush([push EXCEPT !.subs[s] = NoSub])
    /\ UNCHANGED <<clock, retryAt, fire, log>>

\* pushSchedulePut: `now` is the Worker's, from before the request waited.
SchedulePut(items) == \E asked \in {t \in 0..clock : clock - t <= MaxLate} :
    /\ Edits
    /\ \A i \in items \intersect OneShot : Instant[i] > asked
    /\ SavePush([push EXCEPT !.due = [i \in Items |-> IF i \in items THEN DueAfter(i, asked) ELSE NoTime]])
    /\ log' = <<>>
    /\ UNCHANGED <<clock, retryAt, fire>>

\* A mutation leaves a budget operation pending, or settles it.
BudgetPends ==
    /\ Edits
    /\ retryAt = NoTime /\ SaveRetry(clock + 1)
    /\ UNCHANGED <<clock, push, fire, log>>

BudgetSettled ==
    /\ fire.stage = "idle"
    /\ retryAt # NoTime /\ SaveRetry(NoTime)
    /\ UNCHANGED <<clock, push, fire, log, bound>>

\* pushTest: the instant is saved before the sends.
TestStarts ==
    LET record == [push EXCEPT !.lastTest = clock] IN
    /\ Edits
    /\ push.lastTest = NoTime \/ clock - push.lastTest >= TestEvery
    /\ SavePush(record)
    /\ fire' = [NoFire EXCEPT !.stage = "testing", !.copy = record,
                    !.sends = {<<s, "test", clock>> : s \in Subscribed(push)}]
    /\ UNCHANGED <<clock, retryAt, log>>

-----------------------------------------------------------------------------
(* The alarm. *)

\* The runtime consumes the alarm; the budget operation is resumed, and
\* settles or is put off.
AlarmFires ==
    /\ timer <= clock /\ fire.stage = "idle"
    /\ fire' = [NoFire EXCEPT !.stage = "firing"]
    /\ IF retryAt = NoTime THEN timer' = NoTime /\ UNCHANGED retryAt
       ELSE \E retry \in {NoTime, clock + 1} : SaveRetry(retry)
    /\ UNCHANGED <<clock, push, log, bound>>

DueItems == {i \in Items : push.due[i] <= clock}
Advanced == [push EXCEPT !.due = [i \in Items |->
    IF i \notin DueItems THEN @[i] ELSE IF i \in OneShot THEN NoTime ELSE DueAfter(i, clock)]]
FreshSends == {<<s, i, push.due[i]>> : s \in Subscribed(push),
                                       i \in {j \in DueItems : clock - push.due[j] <= PushStale}}

SaveLater == UNCHANGED <<push, timer>>

SaveAdvanced == SavePush(Advanced)

\* firePush: nothing scheduled; not yet due, and the consumed alarm is set
\* again; or the schedule is advanced and saved before any send.
FireStarts ==
    /\ fire.stage = "firing"
    /\ \/ Scheduled(push) = {} /\ fire' = NoFire /\ UNCHANGED <<push, timer>>
       \/ Scheduled(push) # {} /\ DueItems = {} /\ fire' = NoFire /\ SavePush(push)
       \/ /\ DueItems # {}
          /\ SaveAdvanced
          /\ fire' = [fire EXCEPT !.stage = "sending", !.copy = Advanced, !.sends = FreshSends]
    /\ UNCHANGED <<clock, retryAt, log, bound>>

\* dispatch: a subscription under the cap of the date is charged, whatever
\* becomes of the send.  Only the last date is counted.
Charged(sub, date) == [sub EXCEPT !.date = date, !.count = IF sub.date = date THEN @ + 1 ELSE 1]
UnderCap(sub, date) == sub.date # date \/ sub.count < DailyCap

Prunable(sub) == clock - sub.added >= PruneGrace

\* One send: skipped (no payload, or over the cap), or it reaches the service,
\* or fails before; a subscription that is gone is pruned at the end.
Sends(x) ==
    LET sub == fire.copy.subs[x[1]]
        date == x[3] \div Day + 1
        charged == [fire.copy EXCEPT !.subs[x[1]] = Charged(@, date)]
        sending == [fire EXCEPT !.sends = @ \ {x}, !.copy = charged]
    IN
    /\ fire.stage \in {"sending", "testing"} /\ x \in fire.sends
    /\ \/ /\ ~UnderCap(sub, date) \/ x[2] # "test"
          /\ fire' = [fire EXCEPT !.sends = @ \ {x}] /\ UNCHANGED log
       \/ /\ UnderCap(sub, date)
          /\ \/ fire' = sending /\ UNCHANGED log
             \/ /\ fire' = [sending EXCEPT !.gone = IF Prunable(sub) THEN @ \union {x[1]} ELSE @]
                /\ log' = Append(log, x)
             \/ fire' = sending /\ log' = Append(log, x)
    /\ UNCHANGED <<clock, push, retryAt, timer, bound>>

\* deliver has every answer; the record is saved with its counters.
FireEnds ==
    /\ fire.stage \in {"sending", "testing"} /\ fire.sends = {}
    /\ SavePush([fire.copy EXCEPT !.subs = [s \in Subs |-> IF s \in fire.gone THEN NoSub ELSE @[s]]])
    /\ fire' = NoFire
    /\ UNCHANGED <<clock, retryAt, log, bound>>

\* The cell stops: the runtime runs an alarm that did not end again.
RoomStops ==
    /\ bound.stops > 0 /\ bound' = [bound EXCEPT !.stops = @ - 1]
    /\ fire.stage # "idle"
    /\ fire' = NoFire
    /\ timer' = IF fire.stage = "testing" THEN timer ELSE Earliest({timer, clock})
    /\ UNCHANGED <<clock, push, retryAt, log>>

FireWorks == AlarmFires \/ FireStarts \/ FireEnds \/ \E x \in fire.sends : Sends(x)

ClockRuns ==
    /\ fire.stage = "idle" /\ clock < MaxClock /\ clock < timer + MaxLate
    /\ clock' = clock + 1
    /\ UNCHANGED <<push, retryAt, timer, fire, log, bound>>

PushNext ==
    \/ \E s \in Subs : SubPut(s) \/ SubDel(s)
    \/ \E items \in SUBSET Items : SchedulePut(items)
    \/ BudgetPends \/ BudgetSettled \/ TestStarts
    \/ FireWorks \/ RoomStops \/ ClockRuns

-----------------------------------------------------------------------------
\* A reminder is sent at most once to a subscription: a stop of the cell in
\* the middle of a fire loses what was not sent and repeats nothing, though
\* the runtime runs the alarm again (room.js firePush).
PushOnce == IsInjective(log)

\* A scheduled item is fired, or skipped as stale, in the end: the budget
\* recovery on the same alarm, however often it fails, never disarms it
\* (room.js rearm).
PushFires == \A i \in Items : push.due[i] <= clock ~> push.due[i] > clock
=============================================================================
