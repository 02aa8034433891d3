---------------------------- MODULE RoomCreation -----------------------------
(***************************************************************************)
(* The creates of rooms of one app, from the public route to the ledger of *)
(* the app's Paste cell (worker/src/rooms/routes.js createRoom,            *)
(* worker/src/cells/paste.js roomCounts, roomPreflight and roomCreated,    *)
(* worker/src/cells/room.js createBlocked).                                *)
(*                                                                         *)
(* A create reads the clock, asks how many rooms its network and the app   *)
(* made in the window before, asks whether the app has room for one more,  *)
(* and is recorded: three calls, between which other creates run.  The     *)
(* count drops what its caller's clock says is old.                        *)
(*                                                                         *)
(* Abstractions.  A room is the create that makes it: its id is a random   *)
(* UUID, so no second one meets it.  The bytes of the app, which a         *)
(* preflight tests too, are those of RoomEscrow.                           *)
(***************************************************************************)
EXTENDS Integers, FiniteSets

CONSTANTS
    Creates,    \* requests of clients
    SubnetOf,   \* create -> the network of its client
    PerSubnet,  \* ROOMS_PER_SUBNET
    PerApp,     \* ROOMS_PER_APP
    Window,     \* ROOM_CREATE_WINDOW_MS
    RoomLimit,  \* APP_MAX_ROOMS
    Together,   \* bound on the creates at work at once
    MaxFlight,  \* bound on the time from the clock to the count
    MaxInstant  \* bound on the clock

ASSUME CreationAssumption ==
    /\ {PerSubnet, PerApp, Window, RoomLimit, Together} \subseteq Nat \ {0}
    /\ MaxFlight \in 0 .. (Window - 1) /\ MaxInstant \in Nat

VARIABLES
    instant, \* the clock
    stage,   \* create -> how far it is
    came,    \* create -> the clock when it came
    ledger,  \* the creates the app's ledger holds
    total    \* roomTotal: rooms recorded, less those removed

creationVars == <<instant, stage, came, ledger, total>>

Working == {c \in Creates : stage[c] \in {"asked", "counted", "free", "recorded"}}
Recorded == {c \in Creates : stage[c] \in {"recorded", "made", "lost", "removed"}}
SubnetsIn(cs) == {SubnetOf[c] : c \in cs}

CreationInit ==
    /\ instant = 0 /\ ledger = {} /\ total = 0
    /\ stage = [c \in Creates |-> "new"]
    /\ came = [c \in Creates |-> 0]

Goes(c, where) == stage' = [stage EXCEPT ![c] = where]

Asks(c) ==
    /\ stage[c] = "new" /\ Cardinality(Working) < Together
    /\ Goes(c, "asked") /\ came' = [came EXCEPT ![c] = instant]
    /\ UNCHANGED <<instant, ledger, total>>

\* The entries of the window before the create, and those of later clocks.
LiveUpToNow(c) == {e \in ledger : came[e] <= came[c] /\ came[c] - came[e] < Window}
Live(c) == {e \in ledger : came[c] - came[e] < Window}

\* roomCounts prunes as it counts; createRoom compares.
Counts(c) ==
    LET live == Live(c)
        near == {e \in live : SubnetOf[e] = SubnetOf[c]}
        full == Cardinality(near) >= PerSubnet \/ Cardinality(live) >= PerApp
    IN  /\ stage[c] = "asked" /\ ledger' = live
        /\ Goes(c, IF full THEN "refused" ELSE "counted")
        /\ UNCHANGED <<instant, came, total>>

AppFull == total >= RoomLimit

Preflight(c) ==
    /\ stage[c] = "counted" /\ Goes(c, IF AppFull THEN "refused" ELSE "free")
    /\ UNCHANGED <<instant, came, ledger, total>>

\* roomCreated, then the room's document; either answer may be lost, and the
\* client does not hear of its room.
RoomCreated(c) ==
    /\ stage[c] = "free" /\ ledger' = ledger \union {c} /\ total' = total + 1
    /\ \E where \in {"recorded", "lost"} : Goes(c, where)
    /\ UNCHANGED <<instant, came>>

Saves(c) ==
    /\ stage[c] = "recorded" /\ \E where \in {"made", "lost"} : Goes(c, where)
    /\ UNCHANGED <<instant, came, ledger, total>>

\* A call before it failed: the create ends, and counts for nothing.
Fails(c) ==
    /\ stage[c] \in {"asked", "counted", "free"} /\ Goes(c, "refused")
    /\ UNCHANGED <<instant, came, ledger, total>>

\* The operator's removal of a room.
Removed(c) ==
    /\ stage[c] = "made" /\ Goes(c, "removed") /\ total' = total - 1
    /\ UNCHANGED <<instant, came, ledger>>

Ticks ==
    /\ instant < MaxInstant /\ instant' = instant + 1
    /\ \A c \in Creates : stage[c] = "asked" => instant - came[c] < MaxFlight
    /\ UNCHANGED <<stage, came, ledger, total>>

CreationNext ==
    \/ \E c \in Creates : \/ Asks(c) \/ Counts(c) \/ Preflight(c) \/ RoomCreated(c)
                          \/ Saves(c) \/ Fails(c) \/ Removed(c)
    \/ Ticks

CreationSpec == CreationInit /\ [][CreationNext]_creationVars

-----------------------------------------------------------------------------
(* Properties. *)

Within(t, span) == {c \in Recorded : t - span < came[c] /\ came[c] <= t}

\* However creates overtake each other, a network makes at most its limit of
\* rooms in a window, and one more for each of the others at work at once; the
\* app likewise.  A create may count late by MaxFlight, and what a later clock
\* dropped before is missing from its count, so the window is shorter by that
\* much (routes.js createRoom, paste.js roomCounts).
RatesKept == \A t \in 0 .. instant :
    LET made == Within(t, Window - MaxFlight) IN
    /\ Cardinality(made) <= PerApp + Together - 1
    /\ \A s \in SubnetsIn(made) :
          Cardinality({c \in made : SubnetOf[c] = s}) <= PerSubnet + Together - 1

\* The creates that pass the preflight together exceed the limit by at most the
\* others at work at once (paste.js roomPreflight and roomCreated).
RoomsBounded == total <= RoomLimit + Together - 1

\* What an app can make, in a window and in all, although no create is counted
\* and recorded in one call.
CreationLimits == RatesKept /\ RoomsBounded
=============================================================================
