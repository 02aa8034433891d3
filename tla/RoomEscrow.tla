----------------------------- MODULE RoomEscrow -----------------------------
(***************************************************************************)
(* The byte escrow of one app's rooms, across three kinds of cell: the     *)
(* Room cells (worker/src/cells/room.js), the app's Paste cell, which      *)
(* allocates bytes to rooms (paste.js, roomDecide), and the Identity cells *)
(* of the app's owners, which the Paste cell charges for what the rooms    *)
(* hold (identity.js, roomCharge).                                         *)
(*                                                                         *)
(* Every mutation runs under its cell's lock, its calls to the next cell   *)
(* included.  Each storage write is one step, so a cell can be stopped     *)
(* between any two of them; a call or its answer can be lost, and a copy   *)
(* of a call whose caller gave up can arrive later.                        *)
(*                                                                         *)
(* Abstractions.  A value is its size; 0 stands for an absent key, so      *)
(* empty values and mutations that change no size (commitEqualPut, the     *)
(* delete of an absent key) are steps that change nothing here.  The dense *)
(* sequence, the relayed frames and the room rules (which only refuse a    *)
(* put, or lower its ceiling to another member of AppCaps) are left out.   *)
(* An owner's other bytes are constant: UserCap is what they leave.  The   *)
(* id of a room is a fresh UUID, so a room is created once.  The alarm of  *)
(* a room is armed in the transaction that records its pending operation,  *)
(* so "pending" stands for both; an armed alarm may fire at any time.      *)
(***************************************************************************)
EXTENDS Integers, FiniteSets, Fence, Totals

CONSTANTS
    Room, Key, Owner,
    None,        \* no room, no owner
    Sizes,       \* bytes of a value
    AppCaps,     \* ceilings a request may carry (0 is no ceiling)
    RoomCap, KeyCap, RoomLimit,  \* a room's bytes and keys, an app's rooms
    UserCap,     \* what an owner's quota leaves for rooms
    MaxBudget,   \* bound on the budget versions clients use
    MaxMoves,    \* bound on changes of the app's owner
    MaxFaults,   \* bound on lost calls, lost answers and stops
    LateKinds    \* kinds of call whose copies may arrive late

ASSUME RoomAssumption ==
    /\ None \notin Room \union Key \union Owner
    /\ IsFiniteSet(Room) /\ IsFiniteSet(Key)
    /\ Sizes \subseteq Nat \ {0} /\ AppCaps \subseteq Nat
    /\ RoomCap \in Nat /\ KeyCap \in Nat /\ RoomLimit \in Nat
    /\ UserCap \in Nat \ {0}
    /\ MaxBudget \in Nat /\ MaxMoves \in Nat /\ MaxFaults \in Nat
    /\ LateKinds \subseteq {"decide", "record", "charge", "seed"}

VARIABLES
    \* The Room cells.
    doc,          \* room -> its stored document
    running,      \* room -> the handler that holds its lock
    \* The app's Paste cell.
    allocation,   \* room -> decision record, roomAllocation:<room>
    roomAllocated, \* the app's total
    roomTotal,    \* rooms created, less those removed
    recorded,     \* rooms of the creation ledger
    gone,         \* rooms with a roomGone marker
    row,          \* the owner named by the app's row
    ownerCharge,  \* roomOwnerCharge
    work,         \* where the decision that holds the Paste cell's lock is
    \* The Identity cells, the operator, and the network.
    charge,       \* owner -> decision record, roomCharge:<app>
    asked,        \* rooms an operator wants removed
    late, moves, faults

roomVars  == <<doc, running>>
appVars   == <<allocation, roomAllocated, ownerCharge>>
ledgerVars == <<roomTotal, recorded, gone>>
netVars   == <<late, faults>>
vars == <<roomVars, appVars, ledgerVars, row, work, charge, asked, moves, netVars>>

-----------------------------------------------------------------------------
(* Shapes.                                                                 *)

Operation == [kind: {"none", "grow", "release"}, target: Nat, cap: Nat,
              key: Key \union {None}, size: Nat]
NoOperation == [kind |-> "none", target |-> 0, cap |-> 0, key |-> None, size |-> 0]

Doc == [live: BOOLEAN, kv: [Key -> Nat], bytes: Nat, version: Nat, pending: Operation]
NoDoc == [live |-> FALSE, kv |-> [k \in Key |-> 0], bytes |-> 0, version |-> 0,
          pending |-> NoOperation]

\* "call": roomdecide is due or outstanding; "granted", "refused",
\* "unavailable": its answer is in (or will not come); "next": the request goes
\* on; "removing": roomremoved is outstanding; "gone": it is answered.
Request == [kind: {"none", "create", "put", "del", "remove"},
            key: Key \union {None}, size: Nat, cap: Nat]
NoRequest == [kind |-> "none", key |-> None, size |-> 0, cap |-> 0]
Running == [at: {"new", "preflight", "record", "save", "failed", "idle", "call",
                 "granted", "refused", "unavailable", "next", "removing", "gone"},
            then: Request]
At(step) == [at |-> step, then |-> NoRequest]

OwnerCharge == [owner: Owner \union {None}, version: Nat, target: Nat, settled: BOOLEAN]
NoCharge == [owner |-> None, version |-> 0, target |-> 0, settled |-> TRUE]

Message == [type: {"decide", "record", "charge", "seed"}, room: Room \union {None},
            owner: Owner \union {None}, version: Nat, target: Nat, cap: Nat]
Decide(room, version, target, cap) ==
    [type |-> "decide", room |-> room, owner |-> None, version |-> version,
     target |-> target, cap |-> cap]

Reply == [kind: {"none", "granted", "refused", "conflict", "lost"}, version: Nat,
          allocated: Nat]
NoReply == [kind |-> "none", version |-> 0, allocated |-> 0]

\* Where roomDecide is: "settle" to "body" are settleRoomOwner; "move", "seed",
\* "replay", "lower", "grow", "shrink" wait for the owner's cell.
Calls == {"move", "seed", "replay", "lower", "grow", "shrink"}
Work == [at: Calls \union {"idle", "settle", "body", "commit", "refuse", "shrunk"},
         of: Message, waited: BOOLEAN, reply: Reply]
NoMessage == [type |-> "decide", room |-> None, owner |-> None, version |-> 0,
              target |-> 0, cap |-> 0]
NoWork == [at |-> "idle", of |-> NoMessage, waited |-> FALSE, reply |-> NoReply]

TypeOK ==
    /\ doc \in [Room -> Doc]
    /\ running \in [Room -> Running]
    /\ allocation \in [Room -> FenceRecord]
    /\ roomAllocated \in Nat /\ roomTotal \in Nat
    /\ recorded \subseteq Room /\ gone \subseteq Room
    /\ row \in Owner \union {None}
    /\ ownerCharge \in OwnerCharge
    /\ work \in Work
    /\ charge \in [Owner -> FenceRecord]
    /\ asked \subseteq Room
    /\ late \subseteq Message
    /\ moves \in 0 .. MaxMoves /\ faults \in 0 .. MaxFaults

Init ==
    /\ doc = [r \in Room |-> NoDoc]
    /\ running = [r \in Room |-> At("new")]
    /\ allocation = [r \in Room |-> NoRecord]
    /\ roomAllocated = 0 /\ roomTotal = 0
    /\ recorded = {} /\ gone = {}
    /\ row \in Owner \union {None}
    /\ ownerCharge = NoCharge
    /\ work = NoWork
    /\ charge = [o \in Owner |-> NoRecord]
    /\ asked = {} /\ late = {} /\ moves = 0 /\ faults = 0

-----------------------------------------------------------------------------
(* The Room cell: creation.                                                *)

PasteFree == work.at = "idle"

\* createBlocked without a document; with a ceiling it asks the app first.
Create(r, cap) ==
    /\ running[r].at = "new"
    /\ running' = [running EXCEPT ![r] =
          [at |-> IF cap > 0 THEN "preflight" ELSE "record",
           then |-> [NoRequest EXCEPT !.kind = "create", !.cap = cap]]]
    /\ UNCHANGED <<doc, appVars, ledgerVars, row, work, charge, asked, moves, netVars>>

\* roomPreflight at the Paste cell: a full app, in bytes or in rooms, refuses.
Preflight(r) ==
    /\ running[r].at = "preflight" /\ PasteFree
    /\ running' = [running EXCEPT ![r].at =
          IF \/ roomAllocated >= running[r].then.cap
             \/ RoomLimit > 0 /\ roomTotal >= RoomLimit
          THEN "failed" ELSE "record"]
    /\ UNCHANGED <<doc, appVars, ledgerVars, row, work, charge, asked, moves, netVars>>

\* roomCreated at the Paste cell: a room enters the ledger, and the total, once.
RecordRoom(r) ==
    /\ PasteFree
    /\ recorded' = recorded \union {r}
    /\ roomTotal' = IF r \in recorded THEN roomTotal ELSE roomTotal + 1
    /\ UNCHANGED <<doc, appVars, gone, row, work, charge, asked, moves>>

RoomCreated(r) ==
    /\ running[r].at = "record"
    /\ running' = [running EXCEPT ![r].at = "save"]
    /\ RecordRoom(r) /\ UNCHANGED netVars

SaveRoom(r) ==
    /\ running[r].at = "save"
    /\ doc' = [doc EXCEPT ![r].live = TRUE]
    /\ running' = [running EXCEPT ![r] = At("idle")]
    /\ UNCHANGED <<appVars, ledgerVars, row, work, charge, asked, moves, netVars>>

-----------------------------------------------------------------------------
(* The Room cell: requests.  Each operator below says what a request does  *)
(* to a document without a pending operation.                              *)

\* The running handler and the document it writes.
RoomStep(r, d, step, then) ==
    /\ doc' = [doc EXCEPT ![r] = d]
    /\ running' = [running EXCEPT ![r] = [at |-> step, then |-> then]]

Pend(d, kind, target, cap, key, size) ==
    [d EXCEPT !.version = @ + 1,
              !.pending = [kind |-> kind, target |-> target, cap |-> cap,
                           key |-> key, size |-> size]]

ApplyPut(d, key, size, target) == [d EXCEPT !.kv[key] = size, !.bytes = target]

\* putBudgeted: a growth waits for its grant, a shrink is applied at once.
PendPut(d, q) ==
    LET next == d.bytes - d.kv[q.key] + q.size IN
    IF next > d.bytes
    THEN Pend(d, "grow", next, q.cap, q.key, q.size)
    ELSE ApplyPut(Pend(d, "release", next, q.cap, None, 0), q.key, q.size, next)

\* checkPut refuses a put past the room's caps; an equal put has no budget.
Budgeted(d, q) ==
    LET next == d.bytes - d.kv[q.key] + q.size IN
    /\ ~(d.kv[q.key] = 0 /\ KeyCap > 0 /\ Cardinality({k \in Key : d.kv[k] > 0}) >= KeyCap)
    /\ ~(RoomCap > 0 /\ next > RoomCap)
    /\ next # d.bytes

Empty(d) == d.bytes = 0 /\ \A k \in Key : d.kv[k] = 0

PutOn(r, q) == Budgeted(doc[r], q) /\ RoomStep(r, PendPut(doc[r], q), "call", NoRequest)

DelOn(r, q) ==
    LET d == doc[r]
        next == d.bytes - d.kv[q.key]
    IN /\ d.kv[q.key] > 0
       /\ RoomStep(r, ApplyPut(Pend(d, "release", next, 0, None, 0), q.key, 0, next),
                   "call", NoRequest)

\* Defect: a removal empties the room without recording a release.
RemoveUnreleased(r, q) ==
    RoomStep(r, [doc[r] EXCEPT !.kv = [k \in Key |-> 0], !.bytes = 0], "removing", q)

\* removeBlocked: release what the room holds, then tell the app it is gone.
RemoveOn(r, q) ==
    LET d == doc[r] IN
    IF Empty(d) THEN RoomStep(r, d, "removing", q)
    ELSE RoomStep(r, [Pend(d, "release", 0, 0, None, 0) EXCEPT
                         !.kv = [k \in Key |-> 0], !.bytes = 0], "call", q)

Perform(r, q) ==
    \/ q.kind = "put" /\ PutOn(r, q)
    \/ q.kind = "del" /\ DelOn(r, q)
    \/ q.kind = "remove" /\ RemoveOn(r, q)

\* A request that arrives while an operation is pending settles that first.
Arrive(r, q) ==
    /\ running[r].at = "idle" /\ doc[r].live
    /\ \/ doc[r].pending.kind # "none" /\ RoomStep(r, doc[r], "call", q)
       \/ doc[r].pending.kind = "none" /\ Perform(r, q)
    /\ UNCHANGED <<appVars, ledgerVars, row, work, charge, moves, netVars>>

Put(r) ==
    \E k \in Key, n \in Sizes, cap \in AppCaps :
        /\ doc[r].version < MaxBudget
        /\ Arrive(r, [kind |-> "put", key |-> k, size |-> n, cap |-> cap])
        /\ UNCHANGED asked

Del(r) ==
    \E k \in Key :
        /\ doc[r].version < MaxBudget
        /\ Arrive(r, [kind |-> "del", key |-> k, size |-> 0, cap |-> 0])
        /\ UNCHANGED asked

\* An operator asks, and asks again until the room is gone.
Remove(r) ==
    /\ Arrive(r, [NoRequest EXCEPT !.kind = "remove"])
    /\ asked' = asked \union {r}

\* What waited behind a pending operation goes on; a put or delete that
\* changes no size, or is refused by the caps, ends.
GoOn(r) ==
    LET q == running[r].then IN
    /\ running[r].at = "next"
    /\ \/ Perform(r, q)
       \/ /\ \/ q.kind = "put" /\ ~Budgeted(doc[r], q)
             \/ q.kind = "del" /\ doc[r].kv[q.key] = 0
          /\ RoomStep(r, doc[r], "idle", NoRequest)
    /\ UNCHANGED <<appVars, ledgerVars, row, work, charge, asked, moves, netVars>>

\* The alarm resumes a pending operation.
Alarm(r) ==
    /\ running[r].at = "idle" /\ doc[r].pending.kind # "none"
    /\ RoomStep(r, doc[r], "call", NoRequest)
    /\ UNCHANGED <<appVars, ledgerVars, row, work, charge, asked, moves, netVars>>

\* Where the handler is once the pending operation is settled.
Settled(r) == IF running[r].then.kind = "none" THEN "idle" ELSE "next"

Cleared(d) == [d EXCEPT !.pending = NoOperation]

\* resumePending with a grant: the saved growth is applied as the pending
\* operation is cleared; a release was applied before.
Granted(r) ==
    LET d == doc[r]
        op == d.pending
    IN /\ running[r].at = "granted"
       /\ RoomStep(r, Cleared(IF op.kind = "grow"
                              THEN ApplyPut(d, op.key, op.size, op.target) ELSE d),
                   Settled(r), running[r].then)
       /\ UNCHANGED <<appVars, ledgerVars, row, work, charge, asked, moves, netVars>>

\* A refused growth is dropped, and the request behind it goes on.
Refused(r) ==
    /\ running[r].at = "refused" /\ doc[r].pending.kind = "grow"
    /\ RoomStep(r, Cleared(doc[r]), Settled(r), running[r].then)
    /\ UNCHANGED <<appVars, ledgerVars, row, work, charge, asked, moves, netVars>>

\* Defect: an operation without an answer is dropped.
RetryNever(d) == Cleared(d)

\* retryPendingLater: an operation without an answer stays for the alarm.
RetryLater(d) == d

\* No decision (or a refused release): the request ends.
Unavailable(r) ==
    /\ running[r].at = "unavailable"
    /\ RoomStep(r, RetryLater(doc[r]), "idle", NoRequest)
    /\ UNCHANGED <<appVars, ledgerVars, row, work, charge, asked, moves, netVars>>

\* Defect: a repeated removal counts again.
NeverGone(r) == FALSE

AlreadyGone(r) == r \in gone

\* roomRemoved at the Paste cell: refused while the room is charged, or while
\* its last decision asked for bytes; a repeated call changes nothing.
RoomRemoved(r) ==
    LET held == allocation[r] IN
    /\ running[r].at = "removing" /\ PasteFree
    /\ \/ /\ AlreadyGone(r)
          /\ running' = [running EXCEPT ![r].at = "gone"]
          /\ UNCHANGED <<allocation, roomTotal, gone>>
       \/ /\ ~AlreadyGone(r) /\ (held.allocated > 0 \/ held.target > 0)
          /\ running' = [running EXCEPT ![r] = At("idle")]
          /\ UNCHANGED <<allocation, roomTotal, gone>>
       \/ /\ ~AlreadyGone(r) /\ held.allocated = 0 /\ held.target = 0
          /\ allocation' = [allocation EXCEPT ![r] = NoRecord]
          /\ roomTotal' = IF roomTotal > 0 THEN roomTotal - 1 ELSE 0
          /\ gone' = gone \union {r}
          /\ running' = [running EXCEPT ![r].at = "gone"]
    /\ UNCHANGED <<doc, roomAllocated, ownerCharge, recorded, row, work, charge, asked,
                   moves, netVars>>

\* Every key of the room is dropped.
DropRoom(r) ==
    /\ running[r].at = "gone"
    /\ RoomStep(r, NoDoc, "idle", NoRequest)
    /\ UNCHANGED <<appVars, ledgerVars, row, work, charge, asked, moves, netVars>>

-----------------------------------------------------------------------------
(* The Paste cell: roomDecide.                                             *)

\* What the room that waits for this answer takes it for: a refusal is one
\* only of a growth.
Tell(waited, r, answer) ==
    running' = IF ~waited THEN running
               ELSE [running EXCEPT ![r].at =
                       IF \/ answer = "granted"
                          \/ answer = "refused" /\ doc[r].pending.kind = "grow"
                       THEN answer ELSE "unavailable"]

NextTotal(m) == roomAllocated - allocation[m.room].allocated + m.target

\* Does the decision change what the owner is charged?
MovesCharge(m) ==
    /\ Grants(allocation[m.room], roomAllocated, m.target, m.cap)
    /\ NextTotal(m) # roomAllocated
    /\ IF NextTotal(m) > roomAllocated THEN m.cap > 0 ELSE ownerCharge # NoCharge

\* Defect: a deleted app's rooms are charged to nobody.
RowOwner == row

\* The owner to charge: the row's, or the last one of a deleted app.
ChargedOwner == IF row # None THEN row ELSE ownerCharge.owner

Commit(m) ==
    /\ allocation' = [allocation EXCEPT ![m.room] =
          Decided(@, roomAllocated, m.version, m.target, m.cap)]
    /\ roomAllocated' = IF Grants(allocation[m.room], roomAllocated, m.target, m.cap)
                        THEN NextTotal(m) ELSE roomAllocated

\* A call of roomdecide gets the cell's lock.
StartDecide(m, waited) ==
    LET held == allocation[m.room]
        answer == FenceAnswer(held, roomAllocated, m.version, m.target, m.cap)
    IN /\ PasteFree
       /\ \/ /\ ~Decides(held, m.version)
             /\ Tell(waited, m.room, answer)
             /\ UNCHANGED <<appVars, work>>
          \/ /\ Decides(held, m.version)
             /\ ~(MovesCharge(m) /\ ChargedOwner # None)
             /\ Commit(m)
             /\ Tell(waited, m.room, answer)
             /\ UNCHANGED <<ownerCharge, work>>
          \/ /\ Decides(held, m.version) /\ MovesCharge(m) /\ ChargedOwner # None
             /\ work' = [at |-> "settle", of |-> m, waited |-> waited, reply |-> NoReply]
             /\ UNCHANGED <<running, appVars>>
       /\ UNCHANGED <<doc, ledgerVars, row, charge, asked, moves>>

Serve(r) ==
    LET d == doc[r] IN
    /\ running[r].at = "call"
    /\ StartDecide(Decide(r, d.version, d.pending.target, d.pending.cap), TRUE)
    /\ UNCHANGED netVars

\* roomChargeSync: an operator settles the owner's charge by itself.
ChargeSync ==
    /\ PasteFree /\ ChargedOwner # None
    /\ work' = [NoWork EXCEPT !.at = "settle"]
    /\ UNCHANGED <<roomVars, appVars, ledgerVars, row, charge, asked, moves, netVars>>

ToStep(step) == work' = [work EXCEPT !.at = step, !.reply = NoReply]

\* chargeRoomOwner records the next charge, unsettled, before it asks.
Charging(target, step) ==
    /\ ownerCharge' = [owner |-> ChargedOwner, version |-> ownerCharge.version + 1,
                       target |-> target, settled |-> FALSE]
    /\ ToStep(step)
    /\ UNCHANGED <<allocation, roomAllocated>>

\* settleRoomOwner: a charge of another owner moves, an unsettled one is
\* replayed, a first one is seeded, an over-charge is lowered.
SettleOwner ==
    \/ /\ ownerCharge # NoCharge /\ ownerCharge.owner # ChargedOwner
       /\ ToStep("move") /\ UNCHANGED appVars
    \/ /\ ownerCharge.owner = ChargedOwner /\ ~ownerCharge.settled
       /\ ToStep("replay") /\ UNCHANGED appVars
    \/ ownerCharge = NoCharge /\ ToStep("seed") /\ UNCHANGED appVars
    \/ /\ ownerCharge.owner = ChargedOwner /\ ownerCharge.settled
       /\ IF ownerCharge.target > roomAllocated THEN Charging(roomAllocated, "lower")
          ELSE ToStep("body") /\ UNCHANGED appVars

Settle ==
    /\ work.at = "settle" /\ SettleOwner
    /\ UNCHANGED <<roomVars, ledgerVars, row, charge, asked, moves, netVars>>

\* The decision ends and the lock is free.
End(answer) == work' = NoWork /\ Tell(work.waited, work.of.room, answer)

\* The owner is settled: a growth is charged before it is committed, a shrink
\* is committed first; a sync is done.
Body ==
    /\ work.at = "body"
    /\ \/ /\ work.of.room = None
          /\ work' = NoWork /\ UNCHANGED <<running, appVars>>
       \/ /\ work.of.room # None /\ NextTotal(work.of) > roomAllocated
          /\ Charging(NextTotal(work.of), "grow") /\ UNCHANGED running
       \/ /\ work.of.room # None /\ NextTotal(work.of) < roomAllocated
          /\ Commit(work.of) /\ ToStep("shrunk") /\ UNCHANGED <<running, ownerCharge>>
    /\ UNCHANGED <<doc, ledgerVars, row, charge, asked, moves, netVars>>

\* A committed shrink lowers the owner's charge; whatever comes of it, the
\* room is answered.
Shrunk ==
    /\ work.at = "shrunk"
    /\ Charging(roomAllocated, "shrink")
    /\ UNCHANGED <<roomVars, ledgerVars, row, charge, asked, moves, netVars>>

\* The owner was charged for the growth: the app's decision is committed.
CommitGrowth ==
    /\ work.at = "commit"
    /\ Commit(work.of) /\ End("granted")
    /\ UNCHANGED <<doc, ownerCharge, ledgerVars, row, charge, asked, moves, netVars>>

\* The owner's quota refused it, which is recorded as the room's refusal.
RefuseGrowth ==
    /\ work.at = "refuse"
    /\ allocation' = [allocation EXCEPT ![work.of.room].version = work.of.version,
                                        ![work.of.room].target = work.of.target]
    /\ End("refused")
    /\ UNCHANGED <<doc, roomAllocated, ownerCharge, ledgerVars, row, charge, asked,
                   moves, netVars>>

-----------------------------------------------------------------------------
(* The owner's Identity cell, and the Paste cell's reaction to its answer. *)

\* What the Paste cell asks: a seed has no version and no ceiling.
Ask ==
    LET to(type, owner, version, target) ==
          [type |-> type, room |-> None, owner |-> owner, version |-> version,
           target |-> target, cap |-> UserCap]
    IN CASE work.at = "move" -> to("seed", ownerCharge.owner, 0, 0)
         [] work.at = "seed" -> to("seed", ChargedOwner, 0, roomAllocated)
         [] OTHER -> to("charge", ChargedOwner, ownerCharge.version, ownerCharge.target)

\* roomCharge.
RoomCharge(m) ==
    LET current == charge[m.owner] IN
    charge' = [charge EXCEPT ![m.owner] =
        CASE m.type = "seed" ->
                [version |-> current.version + 1, allocated |-> m.target, target |-> m.target]
          [] m.type = "charge" /\ Decides(current, m.version) ->
                Decided(current, current.allocated, m.version, m.target, m.cap)
          [] OTHER -> current]

ChargeAnswer(m) ==
    LET current == charge[m.owner] IN
    IF m.type = "seed" THEN "granted"
    ELSE FenceAnswer(current, current.allocated, m.version, m.target, m.cap)

IdentityAnswers ==
    /\ work.at \in Calls /\ work.reply.kind = "none"
    /\ RoomCharge(Ask)
    /\ work' = [work EXCEPT !.reply =
          [kind |-> ChargeAnswer(Ask), version |-> charge'[Ask.owner].version,
           allocated |-> charge'[Ask.owner].allocated]]
    /\ UNCHANGED <<roomVars, appVars, ledgerVars, row, asked, moves, netVars>>

SettledCharge(allocated) == [ownerCharge EXCEPT !.target = allocated, !.settled = TRUE]

ReplyGranted == work.reply.kind = "granted"

\* An answer is in; "unavailable" (a conflict or no answer) ends a decision
\* that has not been committed.
Replied ==
    /\ work.at \in Calls /\ work.reply.kind # "none"
    /\ \/ /\ work.at = "move" /\ work.reply.kind = "granted"
          /\ ToStep("seed") /\ UNCHANGED <<running, appVars>>
       \/ /\ work.at = "seed" /\ work.reply.kind = "granted"
          /\ ownerCharge' = [owner |-> ChargedOwner, version |-> work.reply.version,
                             target |-> roomAllocated, settled |-> TRUE]
          /\ ToStep("body") /\ UNCHANGED <<running, allocation, roomAllocated>>
       \/ /\ work.at = "replay" /\ work.reply.kind \in {"granted", "refused"}
          /\ ownerCharge' = SettledCharge(work.reply.allocated)
          /\ ToStep("settle") /\ UNCHANGED <<running, allocation, roomAllocated>>
       \/ /\ work.at = "replay" /\ work.reply.kind = "conflict"
          /\ ToStep("seed") /\ UNCHANGED <<running, appVars>>
       \/ /\ work.at = "lower" /\ work.reply.kind \in {"granted", "refused"}
          /\ ownerCharge' = SettledCharge(work.reply.allocated)
          /\ ToStep("body") /\ UNCHANGED <<running, allocation, roomAllocated>>
       \/ /\ work.at = "grow" /\ work.reply.kind \in {"granted", "refused"}
          /\ ownerCharge' = SettledCharge(work.reply.allocated)
          /\ ToStep(IF ReplyGranted THEN "commit" ELSE "refuse")
          /\ UNCHANGED <<running, allocation, roomAllocated>>
       \/ /\ work.at = "shrink"
          /\ ownerCharge' = IF work.reply.kind \in {"granted", "refused"}
                            THEN SettledCharge(work.reply.allocated) ELSE ownerCharge
          /\ End("granted") /\ UNCHANGED <<allocation, roomAllocated>>
       \/ /\ \/ work.at \in {"move", "seed", "lower", "grow"} /\ work.reply.kind = "conflict"
             \/ work.at # "shrink" /\ work.reply.kind = "lost"
          /\ End("unavailable") /\ UNCHANGED appVars
    /\ UNCHANGED <<doc, ledgerVars, row, charge, asked, moves, netVars>>

-----------------------------------------------------------------------------
(* Failures and the environment.                                           *)

Fault == faults < MaxFaults /\ faults' = faults + 1

\* A copy of m may stay on its way.
Delayed(m) == \/ UNCHANGED late
              \/ m.type \in LateKinds /\ late' = late \union {m}

\* The call to the owner's cell, or its answer, is lost.
ChargeLost ==
    /\ work.at \in Calls /\ work.reply.kind # "lost"
    /\ Fault
    /\ IF work.reply.kind = "none" THEN Delayed(Ask) ELSE UNCHANGED late
    /\ work' = [work EXCEPT !.reply = [NoReply EXCEPT !.kind = "lost"]]
    /\ UNCHANGED <<roomVars, appVars, ledgerVars, row, charge, asked, moves>>

\* The Paste cell is stopped in a decision.
PasteStops ==
    /\ work.at # "idle" /\ Fault
    /\ End("unavailable")
    /\ UNCHANGED <<doc, appVars, ledgerVars, row, charge, asked, moves, late>>

\* A Room handler is stopped, or its call to the Paste cell fails, which ends
\* it alike: what was recorded stays.  The Paste cell goes on by itself with a
\* call it has begun.
RoomEnds(r) ==
    LET d == doc[r]
        served == work.waited /\ work.of.room = r
    IN /\ running[r].at \notin {"new", "failed", "idle"} /\ Fault
       /\ running' = [running EXCEPT ![r] = At(IF d.live THEN "idle" ELSE "failed")]
       /\ CASE running[r].at = "call" /\ ~served ->
                  Delayed(Decide(r, d.version, d.pending.target, d.pending.cap))
            [] running[r].at = "record" -> Delayed([NoMessage EXCEPT !.type = "record", !.room = r])
            [] OTHER -> UNCHANGED late
       /\ work' = IF served THEN [work EXCEPT !.waited = FALSE] ELSE work
       /\ UNCHANGED <<doc, appVars, ledgerVars, row, charge, asked, moves>>

\* A late copy arrives; nobody waits for its answer.
LateArrives(m) ==
    /\ m \in late /\ late' = late \ {m} /\ UNCHANGED faults
    /\ \/ m.type = "decide" /\ StartDecide(m, FALSE)
       \/ m.type = "record" /\ RecordRoom(m.room) /\ UNCHANGED running
       \/ /\ m.type \in {"charge", "seed"} /\ RoomCharge(m)
          /\ UNCHANGED <<roomVars, appVars, ledgerVars, row, work, asked, moves>>

\* The app's row is removed, or created by some owner.
RowChanges(o) ==
    /\ PasteFree /\ moves < MaxMoves /\ o # row
    /\ row' = o /\ moves' = moves + 1
    /\ UNCHANGED <<roomVars, appVars, ledgerVars, work, charge, asked, netVars>>

-----------------------------------------------------------------------------

RoomLocal(r) == SaveRoom(r) \/ GoOn(r) \/ Granted(r) \/ Refused(r) \/ Unavailable(r) \/ DropRoom(r)
RoomCalls(r) == Preflight(r) \/ RoomCreated(r) \/ Serve(r) \/ RoomRemoved(r)
RoomRequest(r) == (\E cap \in AppCaps : Create(r, cap)) \/ Put(r) \/ Del(r) \/ Remove(r)
PasteStep == Settle \/ Body \/ Shrunk \/ CommitGrowth \/ RefuseGrowth \/ Replied

Next ==
    \/ \E r \in Room : RoomRequest(r) \/ RoomLocal(r) \/ RoomCalls(r)
                       \/ Alarm(r) \/ RoomEnds(r)
    \/ PasteStep \/ IdentityAnswers \/ ChargeSync
    \/ ChargeLost \/ PasteStops
    \/ \E m \in late : LateArrives(m)
    \/ \E o \in Owner \union {None} : RowChanges(o)

Spec == Init /\ [][Next]_vars

\* An armed alarm fires again, a lock is granted in the order of asking, a
\* running handler goes on, the owner's cell answers, and an operator whose
\* removal was not confirmed asks again.
Fairness ==
    /\ \A r \in Room :
          /\ WF_vars(RoomLocal(r))
          /\ SF_vars(RoomCalls(r)) /\ SF_vars(Alarm(r))
          /\ SF_vars(r \in asked /\ Remove(r))
    /\ WF_vars(PasteStep) /\ SF_vars(IdentityAnswers)

FairSpec == Spec /\ Fairness
=============================================================================
