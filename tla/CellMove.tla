------------------------------ MODULE CellMove ------------------------------
(***************************************************************************)
(* Moving a cell between runtimes (worker/src/cells/image.js): the pages   *)
(* of its image, the restore of a copy in parts, disarm and clear.         *)
(*                                                                         *)
(* A mover disarms the original, reads its image page by page, and sends   *)
(* each page as a part of one restore.  The network may lose an answer,    *)
(* so a part is sent again, and several movers may work on the same cell   *)
(* at different times, each with what it read.                             *)
(*                                                                         *)
(* Abstractions.  Keys are numbers, in their storage order; values travel  *)
(* whole or fail the image, which is a mover that stops.  Each run of a    *)
(* mover has an id of its own.  The mover is not in the repository: it is  *)
(* modelled from what the routes say of it.                                *)
(***************************************************************************)
EXTENDS Naturals, FiniteSets, Sequences

CONSTANTS
    Movers,    \* runs of a mover, each the id of its parts
    Keys,      \* the keys the cell may hold: 1..n
    PageLimit, \* the limit of a page
    MaxWrites  \* bound on what the application writes between two moves

ASSUME MoveAssumption == Keys \subseteq Nat \ {0} /\ PageLimit \in Nat \ {0}

VARIABLES
    source,   \* the original: its keys, and the time of its alarm or 0
    writes,   \* what is left of MaxWrites
    mover,    \* run -> what it froze and has read, and the part it sends next
    target    \* the copy: entries as <<id, key>>, its restore marker, alarm

moveVars == <<source, writes, mover, target>>

NoMarker == [id |-> "", next |-> 0, count |-> 0]
BlankCell == [kv |-> {}, marker |-> NoMarker, armed |-> FALSE, retired |-> FALSE]
IdleMover == [stage |-> "new", image |-> {}, from |-> 1, parts |-> <<>>, index |-> 0, alarm |-> FALSE]

MoveInit ==
    /\ \E kv \in SUBSET Keys : kv # {} /\ source = [kv |-> kv, armed |-> TRUE, frozen |-> FALSE]
    /\ writes = MaxWrites
    /\ mover = [m \in Movers |-> IdleMover]
    /\ target = BlankCell

-----------------------------------------------------------------------------
(* The original. *)

\* The application writes while no mover has frozen the cell.
AppWrites ==
    /\ writes > 0 /\ writes' = writes - 1
    /\ ~source.frozen
    /\ \E k \in Keys : source' = [source EXCEPT !.kv = IF k \in @ THEN @ \ {k} ELSE @ \union {k}]
    /\ UNCHANGED <<mover, target>>

\* disarm: answers the alarm it deletes.  The mover works on a frozen cell.
Disarm(m) ==
    /\ mover[m].stage = "new"
    /\ mover' = [mover EXCEPT ![m].stage = "reading", ![m].alarm = source.armed,
                     ![m].image = {<<m, k>> : k \in source.kv}]
    /\ source' = [source EXCEPT !.armed = FALSE, !.frozen = TRUE]
    /\ UNCHANGED <<writes, target>>

\* image: the entries from `from` on, at most limit of them, and the first
\* key left out, or 0.
Lowest(S) == CHOOSE k \in S : \A l \in S : k <= l
Page(from) ==
    LET rest == {k \in source.kv : k >= from}
        left == {k \in rest : Cardinality({l \in rest : l < k}) >= PageLimit}
    IN  [kv |-> rest \ left, next |-> IF left = {} THEN 0 ELSE Lowest(left)]

ReadPage(m) ==
    LET page == Page(mover[m].from) IN
    /\ mover[m].stage = "reading"
    /\ mover' = [mover EXCEPT ![m].parts = Append(@, page.kv), ![m].from = page.next,
                     ![m].stage = IF page.next = 0 THEN "sending" ELSE @]
    /\ UNCHANGED <<source, writes, target>>

\* The mover gives up: the cell serves again, armed as it was.
GiveUp(m) ==
    /\ mover[m].stage \in {"reading", "sending"}
    /\ mover' = [mover EXCEPT ![m].stage = "gone"]
    /\ source' = [source EXCEPT !.frozen = \E o \in Movers \ {m} :
                                    mover[o].stage \in {"reading", "sending", "moved"}]
    /\ UNCHANGED <<writes, target>>

-----------------------------------------------------------------------------
(* The copy. *)

Count(m) == Len(mover[m].parts)
KeysHeld == {e[2] : e \in target.kv}

\* restoreCell, the checks: a blank cell for the first part, the marker of
\* this restore for a later one, and no key twice.
AcceptsByCount(m, i) ==
    IF i = 0 THEN target = BlankCell
    ELSE target.marker.next = i /\ target.marker.count = Count(m)

Accepts(m, i) ==
    IF i = 0 THEN target = BlankCell
    ELSE /\ target.marker = [id |-> m, next |-> i, count |-> Count(m)]
         /\ mover[m].parts[i + 1] \intersect KeysHeld = {}

\* One transaction: the entries, and the marker or, with the last part, the
\* alarm.
Restore(m, i) ==
    target' = [target EXCEPT !.kv = @ \union {<<m, k>> : k \in mover[m].parts[i + 1]},
                   !.marker = IF i + 1 = Count(m) THEN NoMarker
                              ELSE [id |-> m, next |-> i + 1, count |-> Count(m)],
                   !.armed = i + 1 = Count(m) /\ mover[m].alarm]

\* The mover sends a part, which is refused, restored, or restored with its
\* answer lost: then, or when it was only slow, it is sent again.
SendPart(m) ==
    LET i == mover[m].index IN
    /\ mover[m].stage = "sending"
    /\ \/ /\ Accepts(m, i) /\ Restore(m, i)
          /\ \/ mover' = [mover EXCEPT ![m].index = i + 1,
                              ![m].stage = IF i + 1 = Count(m) THEN "moved" ELSE @]
             \/ UNCHANGED mover
       \/ /\ ~Accepts(m, i) /\ UNCHANGED target
          /\ \/ target.marker.id = m /\ target.marker.next = i + 1
                /\ mover' = [mover EXCEPT ![m].index = i + 1]
             \/ mover' = [mover EXCEPT ![m].stage = "gone"]
    /\ UNCHANGED <<source, writes>>

\* clear: the alarm, then every key, in batches and in their order, which has
\* the marker first; a mover that was sending to the copy does not know.
Clear ==
    /\ target # BlankCell
    /\ \/ target' = BlankCell
       \/ \E left \in SUBSET target.kv \ {{}} :
            target' = [kv |-> left, marker |-> NoMarker, armed |-> FALSE, retired |-> TRUE]
    /\ UNCHANGED <<source, writes, mover>>

MoveNext ==
    \/ AppWrites \/ Clear
    \/ \E m \in Movers : Disarm(m) \/ ReadPage(m) \/ GiveUp(m) \/ SendPart(m)

MoveSpec == MoveInit /\ [][MoveNext]_moveVars

-----------------------------------------------------------------------------
(* What the copy holds, as an image: nothing until the last part, and nothing
   once a clear began. *)
Complete == target.kv # {} /\ target.marker = NoMarker /\ ~target.retired


\* The images a mover may take, those that were taken, and what is served.
AllImages == {{<<m, k>> : k \in kv} : m \in Movers, kv \in SUBSET Keys}
Taken == {mover[m].image : m \in {o \in Movers : mover[o].stage # "new"}}
Held == IF Complete THEN target.kv ELSE {}

Moved == INSTANCE WholeCopy WITH Images <- AllImages, Blank <- {}, taken <- Taken, held <- Held

\* However the parts of several movers, repeated and lost, reach the copy, it
\* serves nothing or what one mover read, whole, and only a clear makes room
\* for another (image.js restoreCell).
MoveIsWhole == Moved!WholeSpec
=============================================================================
