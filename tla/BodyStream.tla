----------------------------- MODULE BodyStream -----------------------------
(***************************************************************************)
(* A response body on its way to a client and, in step with it, into a     *)
(* cache: exactLength (worker/src/public/length.js), lockstepTee, bounded  *)
(* and keep (worker/src/public/caches.js).                                 *)
(*                                                                         *)
(* The tee reads a chunk once every live copy waits for one.  Its first    *)
(* copy is the client's and leads; the second is the cache put's, cut off  *)
(* past a size or a deadline.  The stored object may be shorter or longer  *)
(* than its recorded size, or damaged.                                     *)
(*                                                                         *)
(* Abstractions.  Chunks are counted.  A promise that resolves wakes its   *)
(* reader at once.  The Cache API is external: a put reads to the end and  *)
(* stores, or fails at any time, with or without cancelling its body.      *)
(***************************************************************************)
EXTENDS Naturals, FiniteSets

CONSTANTS
    Size,      \* the recorded length, in chunks
    MaxChunks  \* maxBytes of the fill

ASSUME BodyAssumption == Size \in Nat \ {0} /\ MaxChunks \in Nat

VARIABLES
    object,  \* the stored object: its chunks, and whether it ends cleanly
    tee,     \* chunks read, a read of the source under way, its end
    copy,    \* "client", "put" -> its stream, and the chunks it was given
    late,    \* the deadline of the fill has passed
    cached   \* chunks of the stored entry, or NotStored

bodyVars == <<object, tee, copy, late, cached>>

NotStored == Size + 2
Copies == {"client", "put"}
NoCopy == [stream |-> "none", waits |-> FALSE, got |-> 0]
OpenCopy == [NoCopy EXCEPT !.stream = "open"]
UnreadObject == [chunks |-> Size, clean |-> TRUE]

BodyInit ==
    /\ object = UnreadObject
    /\ tee = [read |-> 0, reading |-> FALSE, cancelled |-> FALSE]
    /\ copy = [c \in Copies |-> NoCopy]
    /\ late = FALSE /\ cached = NotStored

\* A read that missed answers, with a tee of its body if it fills the cache.
Responds ==
    /\ copy["client"].stream = "none"
    /\ object' \in [chunks : 0..(Size + 1), clean : BOOLEAN]
    /\ copy' \in {[client |-> OpenCopy, put |-> OpenCopy],
                  [client |-> OpenCopy, put |-> [NoCopy EXCEPT !.stream = "gone"]]}
    /\ UNCHANGED <<tee, late, cached>>

\* A stream is none yet, open, closed at its end, errored, or given up by its reader.
Live(copies) == {c \in Copies : copies[c].stream \notin {"none", "gone"}}

\* step: every live copy waits and no read is under way.
Stepped(copies) ==
    /\ copy' = copies
    /\ tee' = [tee EXCEPT !.reading = @ \/ (Live(copies) # {} /\ ~tee.cancelled
                   /\ \A c \in Live(copies) : copies[c].waits)]

\* A reader asks for the next chunk.
Pulls(c) ==
    /\ copy[c].stream = "open" /\ ~copy[c].waits
    /\ Stepped([copy EXCEPT ![c].waits = TRUE])
    /\ UNCHANGED <<object, late, cached>>

-----------------------------------------------------------------------------
(* exactLength: what the next read of the source gives after n chunks. *)

\* The last chunk is held until the object has ended cleanly.
ObjectWhole == object.chunks = Size /\ object.clean

NextRead(n) ==
    CASE n = Size                                -> "done"
      [] n < Size - 1 /\ object.chunks > n       -> "chunk"
      [] n = Size - 1 /\ ObjectWhole                 -> "chunk"
      [] OTHER                                   -> "error"

\* What a copy makes of it; one that stopped waiting meanwhile misses it.
Given(c, next) ==
    IF ~copy[c].waits THEN copy[c]
    ELSE [copy[c] EXCEPT !.waits = FALSE,
              !.got = IF next = "chunk" THEN @ + 1 ELSE @,
              !.stream = CASE next = "chunk" -> @ [] next = "done" -> "closed" [] OTHER -> "errored"]

SourceAnswers ==
    LET next == NextRead(tee.read) IN
    /\ tee.reading
    /\ copy' = [c \in Copies |-> Given(c, next)]
    /\ tee' = [tee EXCEPT !.reading = FALSE, !.read = IF next = "chunk" THEN @ + 1 ELSE @]
    /\ UNCHANGED <<object, late, cached>>

-----------------------------------------------------------------------------
(* The readers. *)

\* release(0): the source is cancelled, and the second copy errors.
DroppedPutClosed == [copy["put"] EXCEPT !.stream = IF @ = "open" THEN "closed" ELSE @, !.waits = FALSE]

DroppedPut == [copy["put"] EXCEPT !.stream = IF @ = "open" THEN "errored" ELSE @, !.waits = FALSE]

ClientLeaves ==
    /\ copy["client"].stream = "open"
    /\ copy' = [client |-> [copy["client"] EXCEPT !.stream = "gone", !.waits = FALSE], put |-> DroppedPut]
    /\ tee' = [tee EXCEPT !.reading = FALSE, !.cancelled = TRUE]
    /\ UNCHANGED <<object, late, cached>>

\* The put ends without an entry and the copy is released, which lets the
\* client read alone.
ReleasedNever == [copy EXCEPT !["put"].stream = "errored"]

Released == [copy EXCEPT !["put"].stream = "gone", !["put"].waits = FALSE]

\* bounded: too long, or past the deadline; the source failed; or the Cache
\* API gave up.
PutFails ==
    /\ cached = NotStored /\ "put" \in Live(copy)
    /\ Stepped(Released)
    /\ UNCHANGED <<object, late, cached>>

Within == copy["put"].got <= MaxChunks /\ ~late

PutReads == copy["put"].stream = "open" /\ Within /\ Pulls("put")

PutStores ==
    /\ copy["put"].stream = "closed" /\ Within /\ cached = NotStored
    /\ cached' = copy["put"].got
    /\ UNCHANGED <<object, tee, copy, late>>

DeadlinePasses ==
    /\ ~late /\ copy["client"].stream # "none" /\ late' = TRUE
    /\ UNCHANGED <<object, tee, copy, cached>>

BodyWorks == Pulls("client") \/ SourceAnswers
PutWorks == PutReads \/ PutStores \/ PutFails

BodyNext == Responds \/ BodyWorks \/ PutWorks \/ ClientLeaves \/ DeadlinePasses

-----------------------------------------------------------------------------
\* An entry of the cache holds the whole object: no body that ended short, ran
\* long, failed its checksum or lost its client is stored as if whole, and
\* none over the size cap (length.js exactLength, caches.js drop, bounded).
StoredWhole == cached # NotStored =>
    cached = Size /\ cached <= MaxChunks /\ object = UnreadObject

\* The client's body ends, however the fill fares: a put that stops reading,
\* fails or is cut off never stalls it (caches.js release, keep).
ClientServed == copy["client"].stream = "open" ~> copy["client"].stream # "open"
=============================================================================
