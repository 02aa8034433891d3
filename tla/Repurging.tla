----------------------------- MODULE Repurging ------------------------------
(***************************************************************************)
(* The delayed second purge of the Go front end                            *)
(* (internal/cache/repurge.go) over the gate that counts work through a    *)
(* shutdown (internal/drain/drain.go).                                     *)
(*                                                                         *)
(* A purge of a slug arms its timer, or puts off the one that is armed.  A *)
(* timer that is due starts its callback in a goroutine of its own, which  *)
(* may be slow to take the mutex: purges and the shutdown come in between, *)
(* and meet a timer that has fired and is still in the map.  A section     *)
(* under the mutex is one step.                                            *)
(*                                                                         *)
(* Abstractions.  The inner purger answers or fails, which nobody waits    *)
(* for.  The gate's own mutex makes each of its events one step.           *)
(***************************************************************************)
EXTENDS Integers, FiniteSets

CONSTANTS
    Hosts,        \* slugs
    Calls,        \* calls of PurgePaste
    RepurgeDelay, \* RepurgeDelay
    LastTick      \* bound on the clock

ASSUME RepurgingAssumption == RepurgeDelay \in Nat \ {0} /\ LastTick \in Nat

VARIABLES
    tick,     \* the clock
    call,     \* call -> the host it purges, and the timer it armed
    timersOf, \* host -> the entry of the map: the call whose timer it is, or none
    drainGate, \* the gate: its state and what is in flight
    asked,    \* host -> when it was last purged and that was recorded, or Never
    closing   \* where Shutdown is

repurgeVars == <<tick, call, timersOf, drainGate, asked, closing>>

NoCall == "none"
NotAsked == -1
NewCall == [stage |-> "new", host |-> NoCall, timer |-> "none", due |-> 0]

RepurgingInit ==
    /\ tick = 0 /\ call = [c \in Calls |-> NewCall]
    /\ timersOf = [h \in Hosts |-> NoCall]
    /\ drainGate = [state |-> "admitting", inflight |-> 0]
    /\ asked = [h \in Hosts |-> NotAsked]
    /\ closing = "no"

\* apply: what one event of the gate leaves.
AdmittedOne == [drainGate EXCEPT !.inflight = @ + 1]
ReleasedBy(gate, n) ==
    [inflight |-> gate.inflight - n,
     state |-> IF gate.state = "draining" /\ gate.inflight = n THEN "drained" ELSE gate.state]
Stopped == [drainGate EXCEPT !.state = IF drainGate.inflight = 0 THEN "drained" ELSE "draining"]

Armed(c) == c \in Calls /\ call[c].timer = "armed"
RunningCallbacks == {c \in Calls : call[c].timer \in {"fired", "purging"}}

-----------------------------------------------------------------------------
\* PurgePaste, which purges at once ...
PurgeStarts(c) == \E h \in Hosts :
    /\ call[c].stage = "new"
    /\ call' = [call EXCEPT ![c].stage = "purged", ![c].host = h]
    /\ UNCHANGED <<tick, timersOf, drainGate, asked, closing>>

\* ... then puts off the host's timer, if it can still be stopped, or arms one
\* while the gate admits.
PurgeRecords(c) ==
    LET h == call[c].host
        p == timersOf[h]
        due == tick + RepurgeDelay
    IN
    /\ call[c].stage = "purged"
    /\ asked' = [asked EXCEPT ![h] = tick]
    /\ \/ /\ Armed(p)
          /\ call' = [call EXCEPT ![c].stage = "over", ![p].due = due]
          /\ UNCHANGED <<timersOf, drainGate>>
       \/ /\ ~Armed(p)
          /\ drainGate.state = "admitting"
          /\ drainGate' = AdmittedOne
          /\ call' = [call EXCEPT ![c].stage = "over", ![c].timer = "armed", ![c].due = due]
          /\ timersOf' = [timersOf EXCEPT ![h] = c]
       \/ /\ ~Armed(p)
          /\ drainGate.state # "admitting"
          /\ call' = [call EXCEPT ![c].stage = "over"]
          /\ UNCHANGED <<timersOf, drainGate>>
    /\ UNCHANGED <<tick, closing>>

\* A due timer starts its callback.
TimerFires(c) ==
    /\ Armed(c) /\ call[c].due <= tick
    /\ call' = [call EXCEPT ![c].timer = "fired"]
    /\ UNCHANGED <<tick, timersOf, drainGate, asked, closing>>

ForgetsEntry(c) == [timersOf EXCEPT ![call[c].host] = NoCall]

\* A callback leaves the entry of a timer armed after its own.
ForgetsOwn(c) == [timersOf EXCEPT ![call[c].host] = IF @ = c THEN NoCall ELSE @]

\* fire: the entry goes, then the purge, unless the gate was stopped by then.
CallbackLocks(c) ==
    /\ call[c].timer = "fired"
    /\ timersOf' = ForgetsOwn(c)
    /\ \/ /\ drainGate.state = "admitting"
          /\ call' = [call EXCEPT ![c].timer = "purging"] /\ UNCHANGED drainGate
       \/ /\ drainGate.state # "admitting"
          /\ call' = [call EXCEPT ![c].timer = "over"] /\ drainGate' = ReleasedBy(drainGate, 1)
    /\ UNCHANGED <<tick, asked, closing>>

CallbackEnds(c) ==
    /\ call[c].timer = "purging"
    /\ call' = [call EXCEPT ![c].timer = "over"]
    /\ drainGate' = ReleasedBy(drainGate, 1)
    /\ UNCHANGED <<tick, timersOf, asked, closing>>

\* Shutdown stops the gate and every timer of the map it can, and waits.
ShutdownStarts ==
    LET cancelled == {c \in Calls : Armed(c) /\ timersOf[call[c].host] = c} IN
    /\ closing = "no" /\ closing' = "waiting"
    /\ drainGate' = ReleasedBy(Stopped, Cardinality(cancelled))
    /\ call' = [c \in Calls |-> IF c \in cancelled THEN [call[c] EXCEPT !.timer = "over"] ELSE call[c]]
    /\ timersOf' = [h \in Hosts |-> NoCall]
    /\ UNCHANGED <<tick, asked>>

ShutdownEnds ==
    /\ closing = "waiting" /\ drainGate.inflight = 0
    /\ closing' = "over"
    /\ UNCHANGED <<tick, call, timersOf, drainGate, asked>>

\* A timer fires when it is due, its callback may take its time.
Ticks ==
    /\ tick < LastTick /\ \A c \in Calls : Armed(c) => call[c].due > tick
    /\ tick' = tick + 1
    /\ UNCHANGED <<call, timersOf, drainGate, asked, closing>>

RepurgingNext ==
    \/ \E c \in Calls : PurgeStarts(c) \/ PurgeRecords(c) \/ TimerFires(c)
                        \/ CallbackLocks(c) \/ CallbackEnds(c)
    \/ ShutdownStarts \/ ShutdownEnds \/ Ticks

-----------------------------------------------------------------------------
\* Until the shutdown, a purge of a host is followed by another that starts a
\* delay later or more, whatever other purges and late callbacks come between.
\* The gate counts exactly the timers armed and the callbacks running, so a
\* release never finds it empty, and the shutdown waits for running callbacks
\* alone: no timer stays armed behind it, and none runs once it has returned
\* (repurge.go PurgePaste, fire, Shutdown).
PurgedAgain ==
    /\ \A h \in Hosts : asked[h] # NotAsked /\ drainGate.state = "admitting" =>
          \E c \in Calls : /\ call[c].host = h /\ call[c].timer # "none"
                           /\ call[c].due >= asked[h] + RepurgeDelay
    /\ drainGate.inflight = Cardinality({c \in Calls : Armed(c)} \union RunningCallbacks)
    /\ drainGate.state # "admitting" => \A c \in Calls : ~Armed(c)
    /\ closing = "over" => RunningCallbacks = {}
=============================================================================
