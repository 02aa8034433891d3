--------------------------- MODULE UploadLifecycle --------------------------
(***************************************************************************)
(* An upload in the front end: its SSH session, the three gates it passes, *)
(* its row and its bytes, the finalizer that outlives the session, and the *)
(* shutdown of the process (internal/service/upload.go, deploy_site.go,    *)
(* admission.go, internal/ssh/upload_admission.go,                         *)
(* internal/storage/blob_gated.go, cmd/hostthisd/shutdown.go).             *)
(*                                                                         *)
(* A paste gets its row first and its bytes in the background; a site gets *)
(* its bytes first.  Either may be deleted as soon as it has a row.        *)
(*                                                                         *)
(* Abstractions.  A create is one call with three outcomes, which          *)
(* ArtifactAccounting takes apart; a slug that is taken is a refusal.  A   *)
(* body that is empty, too large, of no kind or screened out is one that   *)
(* is refused.  The bytes of an upload are stored or not.  The semaphores  *)
(* of golang.org/x/sync are modelled from their documentation: first in,   *)
(* first out, and nobody overtakes a waiter that does not fit.             *)
(***************************************************************************)
EXTENDS Naturals, Sequences, FiniteSets, SequencesExt, Totals

CONSTANTS
    Uploads,    \* one SSH session each, with the upload id it mints
    OwnerOf,    \* upload -> the key its session has
    Size,       \* upload -> its stored size
    Slots,      \* uploads one process runs at once
    Width,      \* creates of one owner at once
    Budget,     \* bytes on their way to the store at once
    Mixes       \* the kinds of the uploads, and bounds on what else happens:
                \* lost answers and failed deletes, deletes by the owner, stops

ASSUME UploadAssumption ==
    /\ IsFiniteSet(Uploads) /\ "none" \notin Uploads /\ Size \in [Uploads -> Nat]
    /\ Slots \in Nat \ {0} /\ Width \in Nat \ {0} /\ Budget \in Nat \ {0}
    /\ \A mix \in Mixes : mix.kind \in [Uploads -> {"paste", "site", "never"}]

VARIABLES
    kind,     \* upload -> "paste", "site", or "never" when it does not come
    at,       \* upload -> what its session does
    slots,    \* the upload admission: who waits, who holds
    keys,     \* owner -> the entry of the create admission, or NoEntry
    entry,    \* upload -> the entry it took part in
    refs,     \* entry -> holders and waiters counted
    tokens,   \* entry -> slots taken
    blobs,    \* the byte-weighted gate: who waits, who holds
    put,      \* upload -> its write to the store and, of a paste, the rest
    row,      \* upload -> the status of its row
    bytes,    \* upload -> whether the store has its objects
    removing, \* uploads whose delete has still to delete the bytes
    busy,     \* uploads whose Paste cell has another operation to finish
    excused,  \* uploads a fault may leave behind
    left,     \* what is left of the bounds
    phase     \* of the process

uploadVars == <<kind, at, slots, keys, entry, refs, tokens, blobs, put, row, bytes,
                removing, busy, excused, left, phase>>
gateVars == <<keys, entry, refs, tokens>>
storeVars == <<row, bytes, removing, busy, excused, left>>

NoEntry == "none"
Free == [queue |-> <<>>, held |-> {}]
Owners == {OwnerOf[u] : u \in Uploads}

Init ==
    /\ \E mix \in Mixes : kind = mix.kind /\ left = mix.bounds
    /\ at = [u \in Uploads |-> "new"]
    /\ slots = Free /\ blobs = Free
    /\ keys = [o \in Owners |-> NoEntry]
    /\ entry = [u \in Uploads |-> NoEntry]
    /\ refs = [u \in Uploads |-> 0]
    /\ tokens = [u \in Uploads |-> 0]
    /\ put = [u \in Uploads |-> "none"]
    /\ row = [u \in Uploads |-> "none"]
    /\ bytes = [u \in Uploads |-> FALSE]
    /\ removing = {} /\ busy = {} /\ excused = {}
    /\ phase = "serving"

Running == phase \in {"serving", "stopping", "waiting"}
Spend(what) == left[what] > 0 /\ left' = [left EXCEPT ![what] = @ - 1]
Fault == Spend("faults")

-----------------------------------------------------------------------------
(* The first-in-first-out semaphores. *)

\* Waiters are let in, in their order, while they fit.
Granted(sem, weight, size) ==
    LET taken(n) == Total([u \in sem.held \union {sem.queue[i] : i \in 1..n} |-> weight[u]])
        n == Max({i \in 0..Len(sem.queue) : i = 0 \/ taken(i) <= size})
    IN  [queue |-> SubSeq(sem.queue, n + 1, Len(sem.queue)),
         held |-> sem.held \union {sem.queue[i] : i \in 1..n}]

Joined(sem, u) == [sem EXCEPT !.queue = Append(@, u)]
Left(sem, u) == [queue |-> RemoveFirst(sem.queue, u), held |-> sem.held \ {u}]

One == [u \in Uploads |-> 1]
TakeSlot(u) == slots' = Granted(Joined(slots, u), One, Slots)
LeaveSlot(u) == slots' = Granted(Left(slots, u), One, Slots)

\* A body larger than the budget counts as the whole of it.
Weight == [u \in Uploads |-> IF Size[u] > Budget THEN Budget ELSE IF Size[u] = 0 THEN 1 ELSE Size[u]]

JoinBlobs(u) == blobs' = Granted(Joined(blobs, u), Weight, Budget)
LeaveBlobs(u) == blobs' = Granted(Left(blobs, u), Weight, Budget)

-----------------------------------------------------------------------------
(* A session. *)

\* The session is admitted, or refused since the process stops.
Open(u) ==
    /\ at[u] = "new" /\ kind[u] # "never"
    /\ \/ phase = "serving" /\ at' = [at EXCEPT ![u] = "open"] /\ TakeSlot(u)
       \/ phase # "serving" /\ at' = [at EXCEPT ![u] = "done"] /\ UNCHANGED slots
    /\ UNCHANGED <<kind, gateVars, blobs, put, storeVars, phase>>

\* The session ends, and with it its slot.
Ends(u) == at' = [at EXCEPT ![u] = "done"] /\ LeaveSlot(u)

\* No slot in time, a client that left, or a body that is refused.
GiveUp(u) ==
    /\ at[u] = "open" /\ Ends(u)
    /\ UNCHANGED <<kind, gateVars, blobs, put, storeVars, phase>>

\* Acquire of the create admission: the entry of the owner, found or made,
\* counts the caller before it waits for a token.
EnterGate(u) ==
    LET e == IF keys[OwnerOf[u]] = NoEntry THEN u ELSE keys[OwnerOf[u]] IN
    /\ keys' = [keys EXCEPT ![OwnerOf[u]] = e]
    /\ entry' = [entry EXCEPT ![u] = e]
    /\ refs' = [refs EXCEPT ![e] = @ + 1]
    /\ UNCHANGED tokens

TakeToken(u) ==
    /\ tokens[entry[u]] < Width
    /\ tokens' = [tokens EXCEPT ![entry[u]] = @ + 1]
    /\ UNCHANGED <<keys, entry, refs>>

\* The body is read: a paste goes to its create, a site to the store.
Read(u) ==
    /\ at[u] = "open" /\ u \in slots.held
    /\ \/ /\ kind[u] = "paste" /\ at' = [at EXCEPT ![u] = "gate"]
          /\ EnterGate(u) /\ UNCHANGED <<blobs, put>>
       \/ /\ kind[u] = "site" /\ at' = [at EXCEPT ![u] = "staging"]
          /\ put' = [put EXCEPT ![u] = "writing"] /\ JoinBlobs(u)
          /\ UNCHANGED gateVars
    /\ UNCHANGED <<kind, slots, storeVars, phase>>

Admitted(u) ==
    /\ at[u] = "gate" /\ TakeToken(u)
    /\ at' = [at EXCEPT ![u] = "insert"]
    /\ UNCHANGED <<kind, slots, blobs, put, storeVars, phase>>

\* InsertWithQuotaCheck: the row is there, refused, or nobody knows.
Inserts(u, outcome) ==
    LET status == IF kind[u] = "paste" THEN "pending" ELSE "ready" IN
    CASE outcome = "ok" -> row' = [row EXCEPT ![u] = status] /\ UNCHANGED <<excused, left>>
      [] outcome = "refused" -> UNCHANGED <<row, excused, left>>
      [] outcome = "unknown" -> /\ Fault /\ excused' = excused \union {u}
                                /\ row' \in {row, [row EXCEPT ![u] = status]}

\* The token goes back as soon as the call of a paste returns.
ReleasesOnSuccess(u, outcome) ==
    tokens' = [tokens EXCEPT ![entry[u]] = IF outcome = "ok" THEN @ - 1 ELSE @]
Releases(u, outcome) == tokens' = [tokens EXCEPT ![entry[u]] = @ - 1]

InsertPaste(u) == \E outcome \in {"ok", "refused", "unknown"} :
    /\ at[u] = "insert" /\ Inserts(u, outcome) /\ Releases(u, outcome)
    /\ at' = [at EXCEPT ![u] = IF outcome = "ok" THEN "created" ELSE "refused"]
    /\ UNCHANGED <<kind, slots, keys, entry, refs, blobs, put, bytes, removing, busy, phase>>

\* Nobody else holds or awaits a token of the entry.
AnyOut(e) == TRUE
LastOut(e) == refs[e] = 1

\* The last one out takes the entry away; a created paste leaves its bytes to
\* a finalizer, and the session ends.
LeaveGate(u) ==
    LET e == entry[u] IN
    /\ at[u] \in {"created", "refused"} /\ Ends(u)
    /\ refs' = [refs EXCEPT ![e] = @ - 1]
    /\ keys' = IF LastOut(e) THEN [keys EXCEPT ![OwnerOf[u]] = NoEntry] ELSE keys
    /\ IF at[u] = "created" THEN put' = [put EXCEPT ![u] = "writing"] /\ JoinBlobs(u)
                            ELSE UNCHANGED <<put, blobs>>
    /\ UNCHANGED <<kind, entry, tokens, storeVars, phase>>

\* discardUpload: a delete that fails is logged.
Discard(u) ==
    \/ bytes' = [bytes EXCEPT ![u] = FALSE] /\ UNCHANGED <<excused, left>>
    \/ Fault /\ excused' = excused \union {u} /\ UNCHANGED bytes

\* A site's row follows its bytes; abandonUpload keeps the bytes of a create
\* whose outcome is not known.
InsertSite(u) == \E outcome \in {"ok", "refused", "unknown"} :
    /\ at[u] = "staging" /\ put[u] = "stored" /\ Inserts(u, outcome)
    /\ IF outcome = "refused" THEN at' = [at EXCEPT ![u] = "discard"] /\ UNCHANGED slots
                              ELSE Ends(u)
    /\ UNCHANGED <<kind, gateVars, blobs, put, bytes, removing, busy, phase>>

DiscardSite(u) ==
    /\ at[u] = "discard" \/ (at[u] = "staging" /\ put[u] = "failed")
    /\ Discard(u) /\ Ends(u)
    /\ UNCHANGED <<kind, gateVars, blobs, put, row, removing, busy, phase>>

-----------------------------------------------------------------------------
(* The store and the finalizer. *)

\* A write waits too long, or is let in and ends; one that failed may have
\* left something.
Write(u) ==
    /\ put[u] = "writing" /\ LeaveBlobs(u)
    /\ \/ u \notin blobs.held /\ put' = [put EXCEPT ![u] = "failed"] /\ UNCHANGED bytes
       \/ /\ u \in blobs.held /\ put' = [put EXCEPT ![u] = "stored"]
          /\ bytes' = [bytes EXCEPT ![u] = TRUE]
       \/ /\ u \in blobs.held /\ put' = [put EXCEPT ![u] = "failed"]
          /\ bytes' \in {bytes, [bytes EXCEPT ![u] = TRUE]}
    /\ UNCHANGED <<kind, at, slots, gateVars, row, removing, excused, left, busy, phase>>

\* finalize, after a write: the row becomes ready, or is gone and the bytes
\* with it.  Any other answer leaves the bytes; the row too, unless only the
\* answer was lost.  An operation in the way is finished first, if it can be.
DiscardsOnError(u, answer) == IF answer = "ready" THEN "settled" ELSE "discard"
AfterReady(u, answer) == IF answer = "gone" THEN "discard" ELSE "settled"

MarkReady(u) == \E answer \in {"ready", "gone", "blocked", "lost"} :
    /\ kind[u] = "paste" /\ put[u] = "stored"
    /\ CASE answer = "gone" -> row[u] = "gone" /\ UNCHANGED <<row, busy, excused, left>>
         [] answer = "blocked" -> u \in busy /\ UNCHANGED <<row, busy, excused, left>>
         [] answer = "ready" -> /\ row[u] = "pending" /\ row' = [row EXCEPT ![u] = "ready"]
                                /\ busy' = busy \ {u} /\ UNCHANGED <<excused, left>>
         [] answer = "lost" -> /\ Fault /\ excused' = excused \union {u} /\ UNCHANGED busy
                               /\ \/ UNCHANGED row
                                  \/ row[u] = "pending" /\ row' = [row EXCEPT ![u] = "ready"]
    /\ put' = [put EXCEPT ![u] = AfterReady(u, answer)]
    /\ UNCHANGED <<kind, at, slots, gateVars, blobs, bytes, removing, phase>>

\* finalize, after a failed write: the row fails, unless it is gone, the call
\* is lost, or another operation has the cell; the bytes go either way.
MarkFailed(u) ==
    /\ kind[u] = "paste" /\ put[u] = "failed"
    /\ \/ /\ row[u] = "pending" /\ u \notin busy /\ row' = [row EXCEPT ![u] = "failed"]
          /\ UNCHANGED <<excused, left>>
       \/ (row[u] = "gone" \/ u \in busy) /\ UNCHANGED <<row, excused, left>>
       \/ Fault /\ excused' = excused \union {u} /\ UNCHANGED row
    /\ put' = [put EXCEPT ![u] = "discard"]
    /\ UNCHANGED <<kind, at, slots, gateVars, blobs, bytes, removing, busy, phase>>

Finish(u) ==
    /\ put[u] = "discard" /\ Discard(u)
    /\ put' = [put EXCEPT ![u] = "settled"]
    /\ UNCHANGED <<kind, at, slots, gateVars, blobs, row, removing, busy, phase>>

-----------------------------------------------------------------------------
(* The owner, in sessions of its own. *)

\* A rename or another mutation is cut off in the Paste cell, which finishes
\* it with its alarm.
Interrupt(u) ==
    /\ row[u] \in {"pending", "ready"} /\ u \notin busy
    /\ Fault /\ busy' = busy \union {u}
    /\ UNCHANGED <<kind, at, slots, gateVars, blobs, put, row, bytes, removing, excused, phase>>

Resume(u) ==
    /\ u \in busy /\ busy' = busy \ {u}
    /\ UNCHANGED <<kind, at, slots, gateVars, blobs, put, row, bytes, removing, excused, left, phase>>

\* The row goes; the answer names the upload, or is lost.
Delete(u) ==
    /\ phase \in {"serving", "stopping"} /\ row[u] \in {"pending", "ready", "failed"} /\ u \notin busy
    /\ row' = [row EXCEPT ![u] = "gone"]
    /\ \/ Spend("deletes") /\ removing' = removing \union {u} /\ UNCHANGED excused
       \/ /\ left.deletes > 0 /\ left.faults > 0
          /\ left' = [left EXCEPT !.deletes = @ - 1, !.faults = @ - 1]
          /\ excused' = excused \union {u} /\ UNCHANGED removing
    /\ UNCHANGED <<kind, at, slots, gateVars, blobs, put, bytes, busy, phase>>

DeleteBytes(u) ==
    /\ u \in removing /\ removing' = removing \ {u}
    /\ Discard(u)
    /\ UNCHANGED <<kind, at, slots, gateVars, blobs, put, row, busy, phase>>

-----------------------------------------------------------------------------
(* The shutdown. *)

Finalizing(u) == kind[u] = "paste" /\ put[u] \notin {"none", "settled"}

SessionsOver == removing = {} /\ \A u \in Uploads : at[u] \in {"new", "done"}

\* The finalizers are awaited only once no session can start another, and the
\* bound on the whole may end it anywhere.
Shutdown ==
    /\ \/ phase = "serving" /\ left.stops > 0 /\ phase' = "stopping"
       \/ phase = "stopping" /\ SessionsOver /\ phase' = "waiting"
       \/ phase = "waiting" /\ (\A u \in Uploads : ~Finalizing(u)) /\ phase' = "exited"
       \/ phase \in {"stopping", "waiting"} /\ phase' = "killed"
    /\ UNCHANGED <<kind, at, slots, gateVars, blobs, put, storeVars>>

-----------------------------------------------------------------------------
Session(u) ==
    \/ GiveUp(u) \/ Read(u) \/ Admitted(u) \/ InsertPaste(u) \/ LeaveGate(u)
    \/ InsertSite(u) \/ DiscardSite(u)
Background(u) == Write(u) \/ MarkReady(u) \/ MarkFailed(u) \/ Finish(u)

Next ==
    \/ Running /\ \E u \in Uploads :
          Open(u) \/ Session(u) \/ Background(u) \/ Delete(u) \/ DeleteBytes(u)
          \/ Interrupt(u) \/ Resume(u)
    \/ Running /\ Shutdown

\* Every call to a cell or to the store ends, and so do the two timed waits.
Spec ==
    /\ Init /\ [][Next]_uploadVars
    /\ \A u \in Uploads : /\ WF_uploadVars(Running /\ Session(u))
                          /\ WF_uploadVars(Running /\ Background(u))

-----------------------------------------------------------------------------
(* Properties. *)

Ended(u) == at[u] = "done" /\ ~Finalizing(u)

\* However sessions enter and leave the create admission, at most Width creates
\* of one owner are at the metadata at once, and an owner with none holds no
\* entry (admission.go Acquire).
WidthKept == \A o \in Owners :
    LET here == {u \in Uploads : OwnerOf[u] = o} IN
    /\ Cardinality({u \in here : at[u] = "insert"}) <= Width
    /\ keys[o] # NoEntry <=> \E u \in here : at[u] \in {"gate", "insert", "created", "refused"}

\* Nobody waits at a gate that lets nobody through (upload_admission.go,
\* blob_gated.go weight).
GatesMove == \A sem \in {slots, blobs} : sem.queue # <<>> => sem.held # {}

\* The three gates hold what they must and let through what they may.
GatesHold == WidthKept /\ GatesMove

\* A row that says ready has its bytes, whatever the store answered and
\* whoever deleted meanwhile (upload.go finalize, upload_bytes.go).
ReadyStored == \A u \in Uploads : row[u] = "ready" => bytes[u]

\* Once an upload and its delete are over, its bytes are there for a row, or
\* for an answer or a delete that was lost (upload.go finalize, manage.go
\* Delete).
NothingLeaks == \A u \in Uploads :
    Ended(u) /\ u \notin removing /\ bytes[u] => row[u] \in {"pending", "ready"} \/ u \in excused

\* A process that exits in time leaves no paste without its finalizer having
\* run (shutdown.go shutdownDaemon).
DrainFinalizes == phase = "exited" =>
    \A u \in Uploads : row[u] = "pending" => put[u] = "settled" \/ u \in excused

\* The bytes of an upload follow its row, in the background, over deletes and
\* to the end of the process.
BytesFollowRows == ReadyStored /\ NothingLeaks /\ DrainFinalizes

\* Every session that opened ends, and so does its finalizer: no gate keeps a
\* slot of an upload that failed (admission.go, upload_admission.go).
UploadsEnd == <>[](phase = "killed" \/ \A u \in Uploads : at[u] = "new" \/ Ended(u))

\* docs/SPEC.md "Paste lifecycle status": when the write of the bytes failed
\* the paste is failed and its charge released.
FailureShown == \A u \in Uploads :
    Ended(u) /\ put[u] = "settled" /\ row[u] = "pending" => bytes[u] \/ u \in excused
=============================================================================
