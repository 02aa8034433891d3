----------------------------- MODULE ChangeFeed -----------------------------
(***************************************************************************)
(* The change feed and the room index (worker/src/cells/feed.js, and       *)
(* noticed, touchRoom and roomIndex of worker/src/cells/paste.js): what an *)
(* operator's scan reads instead of every cell.                            *)
(*                                                                         *)
(* Each operation of an app's Paste cell compares the row before and after *)
(* it, and notes a change in the Feed cell.  A room that is created or     *)
(* resized is stamped in the app's index, and the feed is told at most     *)
(* once in Every units.  An append may fail, and nothing retries it.       *)
(*                                                                         *)
(* Abstractions.  One app.  An entry is its instant: the key of an entry   *)
(* has no kind.  What a reader sees of the row is a member of Stamps.  Two *)
(* cells read one clock.                                                   *)
(***************************************************************************)
EXTENDS Integers, FiniteSets

CONSTANTS
    Rooms,
    Stamps,    \* what the row and its quarantine can look like
    Requests,  \* operations of the Paste cell that run at once
    Every,     \* FEED_ROOMS_EVERY_MS
    Retention, \* FEED_RETENTION_MS
    PageMax,   \* PAGE_MAX
    MaxInstant, \* bound on the clock
    Works      \* bounds, one chosen per behaviour: how many operations, touches,
               \* polls and lost notes

ASSUME FeedAssumption ==
    /\ {Every, Retention, PageMax} \subseteq Nat \ {0} /\ MaxInstant \in Nat
    /\ Works \subseteq [requests : Nat, touches : Nat, polls : Nat, lost : Nat]
    /\ Every < Retention

VARIABLES
    instant,  \* the clock
    row,      \* its stamp, as its last note told it, and as the operation that
              \* changed it last saw it first
    request,  \* operation -> its stage and the stamp it saw before
    rooms,    \* the room index, when the feed was told, a note on its way
    feed,     \* the entries of the feed
    failed,   \* instants of the notes that were lost
    poll,     \* a scan at work: its cursor, what there was and what it has read
    work      \* what is left of the bounds

feedVars == <<instant, row, request, rooms, feed, failed, poll, work>>

Untouched == -1
NoRequest == [stage |-> "idle", before |-> "", at |-> 0]
NoPoll == [stage |-> "idle", cursor |-> 0, began |-> {}, read |-> {}]

FeedInit ==
    /\ instant = 0 /\ feed = {} /\ failed = {} /\ poll = NoPoll /\ work \in Works
    /\ \E s \in Stamps : row = [stamp |-> s, told |-> s, seen |-> s]
    /\ request = [q \in Requests |-> NoRequest]
    /\ rooms = [index |-> [r \in Rooms |-> Untouched], told |-> Untouched, noting |-> FALSE]

Uses(kind) == work[kind] > 0 /\ work' = [work EXCEPT ![kind] = @ - 1]

\* append: the entry, and the old ones go.
Appends == feed' = {e \in feed : e >= instant - Retention} \union {instant}

\* noteChange: what fails is ignored.
Noted ==
    \/ Appends /\ UNCHANGED <<failed, work>>
    \/ Uses("lost") /\ failed' = failed \union {instant} /\ UNCHANGED feed

-----------------------------------------------------------------------------
(* noticed: the stamp before, the work, the stamp after.  The work holds the
   cell, but only from when the body of its request was read. *)

RequestStarts(q) ==
    /\ request[q].stage = "idle" /\ Uses("requests")
    /\ request' = [request EXCEPT ![q] = [stage |-> "working", before |-> row.stamp, at |-> instant]]
    /\ UNCHANGED <<instant, row, rooms, feed, failed, poll>>

RowChanges(q) == \E s \in Stamps :
    /\ request[q].stage = "working"
    /\ row' = IF s = row.stamp THEN row ELSE [row EXCEPT !.stamp = s, !.seen = request[q].before]
    /\ request' = [request EXCEPT ![q].stage = "worked"]
    /\ UNCHANGED <<instant, rooms, feed, failed, poll, work>>

\* A row that cannot be read is not noted.
RequestEnds(q) ==
    /\ request[q].stage = "worked"
    /\ request' = [request EXCEPT ![q] = NoRequest]
    /\ IF row.stamp # request[q].before
       THEN Noted /\ row' = [row EXCEPT !.told = row.stamp]
       ELSE UNCHANGED <<row, feed, failed, work>>
    /\ UNCHANGED <<instant, rooms, poll>>

-----------------------------------------------------------------------------
(* touchRoom, which holds the cell until its note is answered. *)

TellsLately == rooms.told = Untouched \/ instant - rooms.told >= Every

ToldAtEveryTouch(r, tell) ==
    [rooms EXCEPT !.index[r] = instant, !.told = instant, !.noting = tell]

Touched(r, tell) ==
    [rooms EXCEPT !.index[r] = instant, !.told = IF tell THEN instant ELSE @, !.noting = tell]

TouchRoom(r) ==
    /\ ~rooms.noting /\ Uses("touches")
    /\ rooms' = Touched(r, TellsLately)
    /\ UNCHANGED <<instant, row, request, feed, failed, poll>>

TouchTold ==
    /\ rooms.noting
    /\ rooms' = [rooms EXCEPT !.noting = FALSE]
    /\ Noted
    /\ UNCHANGED <<instant, row, request, poll>>

\* roomremoved and roomindexdrop take a room out of the index; a room that was
\* never touched enters it by roomindexadd, with the instant the operator says.
IndexDrop(r) ==
    /\ ~rooms.noting /\ rooms.index[r] # Untouched
    /\ rooms' = [rooms EXCEPT !.index[r] = Untouched]
    /\ UNCHANGED <<instant, row, request, feed, failed, poll, work>>

-----------------------------------------------------------------------------
(* since, a page at a time. *)

PollStarts == \E at \in {0, instant} :
    /\ poll.stage = "idle" /\ Uses("polls")
    /\ poll' = [stage |-> "reading", cursor |-> at, began |-> {e \in feed : e >= at}, read |-> {}]
    /\ UNCHANGED <<instant, row, request, rooms, feed, failed>>

\* The first entries from the cursor on, and the key of the first left out.
PollPage ==
    LET rest == {e \in feed : e >= poll.cursor}
        left == {e \in rest : Cardinality({f \in rest : f < e}) >= PageMax}
    IN
    /\ poll.stage = "reading"
    /\ poll' = [poll EXCEPT !.read = @ \union (rest \ left),
                    !.stage = IF left = {} THEN "done" ELSE @,
                    !.cursor = IF left = {} THEN @ ELSE CHOOSE e \in left : \A f \in left : e <= f]
    /\ UNCHANGED <<instant, row, request, rooms, feed, failed, work>>

PollEnds ==
    /\ poll.stage = "done" /\ poll' = NoPoll
    /\ UNCHANGED <<instant, row, request, rooms, feed, failed, work>>

\* The cell answers within a unit of the clock.
InstantPasses ==
    /\ instant < MaxInstant /\ ~rooms.noting
    /\ \A q \in Requests : request[q].stage = "idle" \/ request[q].at = instant
    /\ instant' = instant + 1
    /\ UNCHANGED <<row, request, rooms, feed, failed, poll, work>>

FeedNext ==
    \/ \E q \in Requests : RequestStarts(q) \/ RowChanges(q) \/ RequestEnds(q)
    \/ \E r \in Rooms : TouchRoom(r) \/ IndexDrop(r)
    \/ TouchTold \/ PollStarts \/ PollPage \/ PollEnds \/ InstantPasses

-----------------------------------------------------------------------------
Covers(S, t) == \E e \in S : t - Every < e /\ e <= instant

\* A scan of the feed finds every app with a room touched within what the feed
\* keeps, though most touches are not told: one before it, less than Every
\* ago, was, unless that note was lost.  It finds every row that looks new,
\* unless it looks as the operation that changed it saw it before it waited
\* for its body.  And a poll reads every entry there was when it began,
\* whatever is appended and dropped between its pages (paste.js noticed and
\* touchRoom, feed.js append and since).
FeedComplete ==
    /\ \A r \in Rooms : LET t == rooms.index[r] IN
           t # Untouched /\ instant - t <= Retention - Every /\ ~rooms.noting
               => Covers(feed, t) \/ Covers(failed, t)
    /\ (\A q \in Requests : request[q].stage = "idle") => row.stamp \in {row.told, row.seen}
    /\ poll.stage = "done" => poll.began \intersect feed \subseteq poll.read
=============================================================================
