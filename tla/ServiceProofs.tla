--------------------------- MODULE ServiceProofs ----------------------------
(***************************************************************************)
(* Proofs about the services around the cells, for all their constants.    *)
(*                                                                         *)
(* The restore of a cell in parts implements WholeCopy.  While a mover     *)
(* reads, what it has read and what the frozen original holds from its     *)
(* cursor on make up the image it took.  And while the copy has a marker,  *)
(* it holds exactly the parts before the marker of the one restore that    *)
(* the marker names.                                                       *)
(*                                                                         *)
(* A body that is stored is whole: the copy that is put ends only with the *)
(* last chunk, which is given only for a whole object.  A pod is bound to  *)
(* the storage of its link: a link that was completed never changes.  The  *)
(* feed misses nothing: a touch is told, or another shortly before it was; *)
(* what a scan has behind its cursor it has read.  A purge is tried again: *)
(* every timer armed is the one the entry of its host names.               *)
(*                                                                         *)
(* The objects of a site: what two versions share every version between    *)
(* them shares (Runs), so what the neighbours of a version do not hold no  *)
(* other one does, and a version is charged what the kept one before it    *)
(* does not hold.                                                          *)
(*                                                                         *)
(* The gate of sessions: a check put back only the live part of the list   *)
(* it compiled (ListInv); the cell masks the networks it stores            *)
(* (ListMasked), so two spellings of one are one entry; and a key its      *)
(* subnet knows is noted, unless its note is still to be written or its    *)
(* call was lost twice (KnownNoted).                                       *)
(***************************************************************************)
EXTENDS CellMove, BodyStream, PodLink, ChangeFeed, Repurging, Redeploy, SessionGate,
        TotalsProofs, SequenceTheorems, FiniteSetTheorems, TLAPS

(* The move of a cell *)

CopyEntries == Movers \X Keys

MoveStages == {"new", "reading", "sending", "moved", "gone"}

Mover == [stage : MoveStages, image : SUBSET CopyEntries, from : Nat,
          parts : Seq(SUBSET Keys), index : Nat, alarm : BOOLEAN]

Marker == [id : Movers \union {""}, next : Nat, count : Nat]

MoveTypes ==
    /\ source \in [kv : SUBSET Keys, armed : BOOLEAN, frozen : BOOLEAN]
    /\ mover \in [Movers -> Mover]
    /\ target \in [kv : SUBSET CopyEntries, marker : Marker, armed : BOOLEAN, retired : BOOLEAN]

\* The entries of the first n parts of a mover.
Tagged(m, keys) == {<<m, k>> : k \in keys}
PartsOf(m, n) == Tagged(m, UNION {mover[m].parts[j] : j \in 1..n})

\* What a mover has still to read.
Unread(m) == {k \in source.kv : k >= mover[m].from}

\* A mover that has not started knows nothing.
Fresh == \A m \in Movers : mover[m].stage = "new" => mover[m] = IdleMover

Reads == \A m \in Movers : mover[m].stage = "reading" =>
    /\ source.frozen
    /\ mover[m].image = PartsOf(m, Count(m)) \union Tagged(m, Unread(m))

Sends == \A m \in Movers : mover[m].stage = "sending" =>
    /\ Count(m) > 0
    /\ mover[m].image = PartsOf(m, Count(m))

\* The copy of a restore that is not over.
Holds == target.marker.next > 0 =>
    LET m == target.marker.id IN
    /\ m \in Movers /\ mover[m].stage \in {"sending", "moved", "gone"}
    /\ target.marker.count = Count(m) /\ target.marker.next < Count(m)
    /\ target.kv = PartsOf(m, target.marker.next)

MoveInv == MoveTypes /\ Fresh /\ Reads /\ Sends /\ Holds

-----------------------------------------------------------------------------
(* The pages of an image. *)

\* The lowest key of a set of keys is in it and below every other
\* (image.js cellImage, the next key).
LEMMA LowestIsLeast ==
  ASSUME NEW S \in SUBSET Keys, S # {}
  PROVE  Lowest(S) \in S /\ \A l \in S : Lowest(S) <= l
<1>1. S \in SUBSET Nat
  BY MoveAssumption
<1>2. \E k \in S : \A l \in S : k <= l
  BY <1>1, LowestExists
<1>3. QED
  BY <1>2, Zenon DEF Lowest

\* A page and what is left from its next key on are what was left from its
\* own; the last page leaves nothing (image.js cellImage).
LEMMA PageCovers ==
  ASSUME MoveTypes, NEW from \in Nat
  PROVE  LET rest == {k \in source.kv : k >= from}
             page == Page(from)
         IN  /\ page.kv \subseteq source.kv /\ page.next \in Nat
             /\ page.next = 0 => rest = page.kv
             /\ page.next # 0 => rest = page.kv \union {k \in source.kv : k >= page.next}
<1> DEFINE rest == {k \in source.kv : k >= from}
           left == {k \in rest : Cardinality({l \in rest : l < k}) >= PageLimit}
<1>1. Page(from) = [kv |-> rest \ left, next |-> IF left = {} THEN 0 ELSE Lowest(left)]
  BY Zenon DEF Page
<1>2. source.kv \subseteq Keys /\ Keys \subseteq Nat \ {0} /\ left \subseteq rest /\ rest \subseteq source.kv
  BY MoveAssumption DEF MoveTypes
<1> HIDE DEF left
<1>3. CASE left = {}
  BY <1>1, <1>2, <1>3
<1>4. CASE left # {}
  <2>1. Lowest(left) \in left /\ \A l \in left : Lowest(left) <= l
    BY <1>2, <1>4, LowestIsLeast
  <2>2. /\ Page(from).kv = rest \ left /\ Page(from).next = Lowest(left)
        /\ Lowest(left) \in rest /\ Lowest(left) \in Nat \ {0}
    <3>1. Page(from).kv = rest \ left /\ Page(from).next = Lowest(left)
      BY <1>1, <1>4
    <3>2. Lowest(left) \in rest
      BY <1>2, <2>1, Zenon
    <3>3. Lowest(left) \in Nat \ {0}
      BY <1>2, <3>2, Zenon
    <3>4. QED
      BY <3>1, <3>2, <3>3
  <2>3. \A k \in source.kv : k >= Lowest(left) => k >= from
    <3>1. Lowest(left) >= from /\ Lowest(left) \in Nat
      BY <2>2
    <3>2. \A k \in source.kv : k \in Nat
      BY <1>2
    <3>3. QED
      BY <3>1, <3>2
  <2>4. rest = (rest \ left) \union {k \in source.kv : k >= Lowest(left)}
    BY <1>2, <2>1, <2>3
  <2>5. QED
    BY <1>2, <2>2, <2>4
<1>5. QED
  BY <1>3, <1>4

-----------------------------------------------------------------------------
(* The parts of an image. *)

\* One part more is the entries of that part more.
LEMMA PartsNext ==
  ASSUME MoveTypes, NEW m \in Movers, NEW n \in Nat
  PROVE  /\ PartsOf(m, 0) = {}
         /\ PartsOf(m, n + 1) = PartsOf(m, n) \union Tagged(m, mover[m].parts[n + 1])
<1>1. 1..0 = {} /\ 1..(n + 1) = (1..n) \union {n + 1}
  OBVIOUS
<1>2. PartsOf(m, 0) = {}
  BY <1>1, Zenon DEF PartsOf, Tagged
<1>3. UNION {mover[m].parts[j] : j \in 1..(n + 1)}
        = (UNION {mover[m].parts[j] : j \in 1..n}) \union mover[m].parts[n + 1]
  BY <1>1
<1>4. QED
  BY <1>2, <1>3 DEF PartsOf, Tagged

\* A mover whose parts stay has the same entries in them.
LEMMA PartsKept ==
  ASSUME NEW m \in Movers, mover'[m].parts = mover[m].parts
  PROVE  /\ Count(m)' = Count(m)
         /\ \A n \in Nat : PartsOf(m, n)' = PartsOf(m, n)
         /\ PartsOf(m, Count(m))' = PartsOf(m, Count(m))
BY Zenon DEF Count, PartsOf

\* A page read is one part more at the end.
LEMMA PartsRead ==
  ASSUME MoveTypes, NEW m \in Movers, NEW keys \in SUBSET Keys,
         mover'[m].parts = Append(mover[m].parts, keys)
  PROVE  /\ Count(m)' = Count(m) + 1 /\ Count(m) \in Nat
         /\ PartsOf(m, Count(m))' = PartsOf(m, Count(m)) \union Tagged(m, keys)
<1> DEFINE old == mover[m].parts
           new == Append(old, keys)
<1>1. old \in Seq(SUBSET Keys)
  BY DEF MoveTypes, Mover
<1> HIDE DEF old
<1>2. /\ Len(old) \in Nat /\ Len(new) = Len(old) + 1
      /\ \A j \in 1..Len(old) : new[j] = old[j]
      /\ new[Len(old) + 1] = keys
  BY <1>1
<1> HIDE DEF new
<1>3. UNION {new[j] : j \in 1..(Len(old) + 1)} = (UNION {old[j] : j \in 1..Len(old)}) \union keys
  <2>1. 1..(Len(old) + 1) = (1..Len(old)) \union {Len(old) + 1}
    BY <1>2
  <2>2. UNION {new[j] : j \in 1..(Len(old) + 1)} = (UNION {new[j] : j \in 1..Len(old)}) \union keys
    BY <1>2, <2>1
  <2>3. {new[j] : j \in 1..Len(old)} = {old[j] : j \in 1..Len(old)}
    BY <1>2
  <2>4. QED
    BY <2>2, <2>3
<1>4. Count(m) = Len(old) /\ Count(m)' = Len(old) + 1
  BY <1>2 DEF Count, old, new
<1>5. PartsOf(m, Count(m)) = Tagged(m, UNION {old[j] : j \in 1..Len(old)})
  BY <1>4 DEF PartsOf, old
<1>6. PartsOf(m, Count(m))' = Tagged(m, UNION {new[j] : j \in 1..(Len(old) + 1)})
  BY <1>4 DEF PartsOf, old, new
<1>7. QED
  BY <1>2, <1>3, <1>4, <1>5, <1>6 DEF Tagged

-----------------------------------------------------------------------------
(* The steps. *)

\* A move begins with untouched cells and idle movers (image.js cellImage).
LEMMA InitMoves == MoveInit => MoveInv
<1> SUFFICES ASSUME MoveInit PROVE MoveInv
  OBVIOUS
<1>1. IdleMover \in Mover
  BY DEF IdleMover, Mover, MoveStages
<1>2. target.marker.next = 0
      /\ target \in [kv : SUBSET CopyEntries, marker : Marker, armed : BOOLEAN, retired : BOOLEAN]
  BY DEF MoveInit, BlankCell, NoMarker, Marker
<1>3. MoveTypes
  <2>1. source \in [kv : SUBSET Keys, armed : BOOLEAN, frozen : BOOLEAN]
    BY DEF MoveInit
  <2>2. mover \in [Movers -> Mover]
    BY <1>1 DEF MoveInit
  <2>3. QED
    BY <1>2, <2>1, <2>2 DEF MoveTypes
<1>4. \A m \in Movers : mover[m] = IdleMover /\ mover[m].stage = "new"
  BY DEF MoveInit, IdleMover
<1>5. QED
  BY <1>2, <1>3, <1>4 DEF MoveInv, Fresh, Reads, Sends, Holds

\* The copy stays as it is, and so do the parts of whoever sends to it.
LEMMA CopyStays ==
  ASSUME MoveInv, target' = target,
         \A o \in Movers : mover[o].stage \in {"sending", "moved", "gone"} =>
            mover'[o].parts = mover[o].parts /\ mover'[o].stage \in {"sending", "moved", "gone"}
  PROVE  Holds'
<1> SUFFICES ASSUME target.marker.next > 0
             PROVE  Holds'
  BY DEF Holds
<1>1. PICK o \in Movers, n \in Nat : o = target.marker.id /\ n = target.marker.next
  BY DEF MoveInv, MoveTypes, Marker, Holds
<1>2. /\ mover[o].stage \in {"sending", "moved", "gone"}
      /\ target.marker.count = Count(o) /\ n < Count(o) /\ target.kv = PartsOf(o, n)
  BY <1>1 DEF MoveInv, Holds
<1>3. Count(o)' = Count(o) /\ PartsOf(o, n)' = PartsOf(o, n)
  BY <1>2, PartsKept
<1>4. QED
  BY <1>1, <1>2, <1>3 DEF Holds, PartsOf

\* What the application writes meets no reader.
LEMMA WritesMove == MoveInv /\ AppWrites => MoveInv'
<1> SUFFICES ASSUME MoveInv, AppWrites PROVE MoveInv'
  OBVIOUS
<1>1. MoveTypes'
  BY DEF MoveInv, MoveTypes, AppWrites
<1>2. \A m \in Movers : mover[m].stage # "reading"
  BY DEF MoveInv, Reads, AppWrites
<1>3. mover' = mover /\ target' = target
  BY DEF AppWrites
<1>4. \A m \in Movers : Count(m)' = Count(m) /\ \A n \in Nat : PartsOf(m, n)' = PartsOf(m, n)
  BY <1>3, PartsKept
<1>5. Fresh' /\ Reads'
  BY <1>2, <1>3 DEF MoveInv, Fresh, Reads
<1>6. Sends'
  BY <1>3 DEF MoveInv, Sends, PartsOf, Count
<1>7. Holds'
  BY <1>3, CopyStays
<1>8. QED
  BY <1>1, <1>5, <1>6, <1>7 DEF MoveInv

\* A step of one mover on the original: the others, and the copy, stay.
LEMMA Others ==
  ASSUME MoveInv, MoveTypes', NEW m \in Movers, NEW new,
         mover' = [mover EXCEPT ![m] = new], target' = target,
         mover[m].stage \in {"new", "reading"} \/ new.parts = mover[m].parts,
         mover[m].stage \in {"sending", "moved", "gone"} => new.stage \in {"sending", "moved", "gone"},
         source'.kv = source.kv,
         \A o \in Movers \ {m} : mover[o].stage = "reading" => source'.frozen,
         new.stage # "new",
         new.stage = "reading" => source'.frozen /\ new.image = (PartsOf(m, Count(m)) \union Tagged(m, Unread(m)))',
         new.stage = "sending" => Count(m)' > 0 /\ new.image = PartsOf(m, Count(m))'
  PROVE  MoveInv'
<1>1. mover'[m] = new /\ \A o \in Movers \ {m} : mover'[o] = mover[o]
  BY DEF MoveInv, MoveTypes
<1>2. \A o \in Movers \ {m} :
         /\ Count(o)' = Count(o) /\ \A n \in Nat : PartsOf(o, n)' = PartsOf(o, n)
         /\ PartsOf(o, Count(o))' = PartsOf(o, Count(o))
  BY <1>1, PartsKept
<1>3. \A o \in Movers \ {m} : Count(o) \in Nat
  BY DEF MoveInv, MoveTypes, Mover, Count
<1>4. Fresh'
  BY <1>1 DEF MoveInv, Fresh
<1>5. Reads'
  <2> SUFFICES ASSUME NEW o \in Movers, mover'[o].stage = "reading"
               PROVE  source'.frozen /\ mover'[o].image = (PartsOf(o, Count(o)) \union Tagged(o, Unread(o)))'
    BY DEF Reads
  <2>1. CASE o = m
    BY <1>1, <2>1
  <2>2. CASE o # m
    <3>1. Unread(o)' = Unread(o)
      BY <1>1, <2>2 DEF Unread
    <3>2. PartsOf(o, Count(o))' = PartsOf(o, Count(o))
      BY <1>2, <2>2
    <3>3. mover[o].image = PartsOf(o, Count(o)) \union Tagged(o, Unread(o))
      BY <1>1, <2>2 DEF MoveInv, Reads
    <3>4. QED
      BY <1>1, <2>2, <3>1, <3>2, <3>3 DEF Tagged
  <2>3. QED
    BY <2>1, <2>2
<1>6. Sends'
  <2> SUFFICES ASSUME NEW o \in Movers, mover'[o].stage = "sending"
               PROVE  Count(o)' > 0 /\ mover'[o].image = PartsOf(o, Count(o))'
    BY DEF Sends
  <2>1. CASE o = m
    BY <1>1, <2>1
  <2>2. CASE o # m
    <3>1. PartsOf(o, Count(o))' = PartsOf(o, Count(o))
      BY <1>2, <2>2
    <3>2. QED
      BY <1>1, <1>2, <2>2, <3>1 DEF MoveInv, Sends
  <2>3. QED
    BY <2>1, <2>2
<1>7. Holds'
  BY <1>1, CopyStays
<1>8. QED
  BY <1>4, <1>5, <1>6, <1>7 DEF MoveInv

\* A mover stays a mover when its stage changes.
LEMMA StageSet ==
  ASSUME NEW r \in Mover, NEW stage \in MoveStages
  PROVE  [r EXCEPT !.stage = stage] \in Mover
BY DEF Mover

\* A mover stays a mover when it goes on to another part.
LEMMA IndexSet ==
  ASSUME NEW r \in Mover, NEW n \in Nat
  PROVE  [r EXCEPT !.index = n] \in Mover
BY DEF Mover

\* A mover freezes the original and has its whole image still to read
\* (image.js, the disarm route).
LEMMA DisarmMoves == ASSUME MoveInv, NEW m \in Movers, Disarm(m) PROVE MoveInv'
<1> DEFINE new == [IdleMover EXCEPT !.stage = "reading", !.alarm = source.armed, !.image = Tagged(m, source.kv)]
<1>1. mover[m] = IdleMover /\ IdleMover \in Mover
  BY DEF MoveInv, Fresh, Disarm, IdleMover, Mover, MoveStages
<1>2. /\ mover' = [mover EXCEPT ![m] = new] /\ new \in Mover
      /\ new.stage = "reading" /\ new.image = Tagged(m, source.kv) /\ new.parts = <<>> /\ new.from = 1
  <2>1. Tagged(m, source.kv) \in SUBSET CopyEntries /\ source.armed \in BOOLEAN
    BY DEF MoveInv, MoveTypes, Tagged, CopyEntries
  <2>2. mover' = [mover EXCEPT ![m] = new]
    BY <1>1 DEF Disarm, IdleMover, Tagged
  <2>3. [IdleMover EXCEPT !.stage = "reading"] \in Mover
    BY <1>1, StageSet DEF MoveStages
  <2>4. [IdleMover EXCEPT !.stage = "reading", !.alarm = source.armed] \in Mover
    BY <2>1, <2>3 DEF Mover
  <2>5. new \in Mover
    BY <2>1, <2>4 DEF Mover
  <2>6. QED
    BY <2>2, <2>5 DEF IdleMover
<1>3. /\ source'.frozen /\ source'.kv = source.kv /\ target' = target
      /\ source' \in [kv : SUBSET Keys, armed : BOOLEAN, frozen : BOOLEAN]
  BY DEF Disarm, MoveInv, MoveTypes
<1>4. MoveTypes' /\ mover'[m] = new
  BY <1>2, <1>3 DEF MoveInv, MoveTypes
<1>5. new.image = (PartsOf(m, Count(m)) \union Tagged(m, Unread(m)))'
  <2>1. PartsOf(m, Count(m))' = {}
    <3>1. Count(m)' = 0 /\ 1..0 = {}
      <4>1. Count(m)' = Len(mover'[m].parts)
        BY DEF Count
      <4>2. QED
        BY <1>2, <1>4, <4>1
    <3>2. QED
      BY <3>1 DEF PartsOf, Tagged
  <2>2. Unread(m)' = source.kv
    BY <1>2, <1>3, <1>4, MoveAssumption DEF Unread, MoveInv, MoveTypes
  <2>3. QED
    BY <1>2, <2>1, <2>2 DEF Tagged
<1>6. mover[m].stage = "new"
  BY DEF Disarm
<1>7. QED
  BY <1>2, <1>3, <1>4, <1>5, <1>6, Others

\* A page read moves from what is left to what was read.
LEMMA PagesMove == ASSUME MoveInv, NEW m \in Movers, ReadPage(m) PROVE MoveInv'
<1> DEFINE page == Page(mover[m].from)
           new == [mover[m] EXCEPT !.parts = Append(@, page.kv), !.from = page.next,
                       !.stage = IF page.next = 0 THEN "sending" ELSE @]
<1>1. mover[m] \in Mover /\ mover[m].from \in Nat /\ mover[m].stage = "reading" /\ MoveTypes
  BY DEF MoveInv, MoveTypes, Mover, ReadPage
<1>2. /\ page.kv \in SUBSET Keys /\ page.next \in Nat
      /\ page.next = 0 => Unread(m) = page.kv
      /\ page.next # 0 => Unread(m) = page.kv \union {k \in source.kv : k >= page.next}
  <2>1. source.kv \in SUBSET Keys
    BY <1>1 DEF MoveTypes
  <2>2. QED
    BY <1>1, <2>1, PageCovers, Zenon DEF Unread
<1> HIDE DEF page
<1>3. /\ mover' = [mover EXCEPT ![m] = new] /\ source' = source /\ target' = target
  BY DEF ReadPage, page
<1>4. /\ new \in Mover /\ new.parts = Append(mover[m].parts, page.kv) /\ new.image = mover[m].image
      /\ new.stage = IF page.next = 0 THEN "sending" ELSE "reading"
      /\ new.from = page.next
  <2>2. Append(mover[m].parts, page.kv) \in Seq(SUBSET Keys)
    BY <1>1, <1>2 DEF Mover
  <2>3. [mover[m] EXCEPT !.parts = Append(@, page.kv)] \in Mover
    BY <1>1, <2>2 DEF Mover
  <2>4. [mover[m] EXCEPT !.parts = Append(@, page.kv), !.from = page.next] \in Mover
    BY <1>2, <2>3 DEF Mover
  <2>5. new \in Mover
    BY <1>1, <2>4, StageSet DEF MoveStages
  <2>6. QED
    BY <1>1, <2>5 DEF Mover
<1> HIDE DEF new
<1>5. MoveTypes' /\ mover'[m] = new
  BY <1>1, <1>3, <1>4 DEF MoveTypes
<1>6. /\ Count(m)' = Count(m) + 1 /\ Count(m) \in Nat
      /\ PartsOf(m, Count(m))' = PartsOf(m, Count(m)) \union Tagged(m, page.kv)
  BY <1>1, <1>2, <1>4, <1>5, PartsRead
<1>7. source.frozen /\ mover[m].image = PartsOf(m, Count(m)) \union Tagged(m, Unread(m))
  BY <1>1 DEF MoveInv, Reads
<1>8. page.next = 0 => new.image = PartsOf(m, Count(m))'
  BY <1>2, <1>4, <1>6, <1>7
<1>9. page.next # 0 => new.image = (PartsOf(m, Count(m)) \union Tagged(m, Unread(m)))'
  <2>1. Unread(m)' = {k \in source.kv : k >= page.next}
    BY <1>3, <1>4, <1>5 DEF Unread
  <2>2. page.next # 0 => Tagged(m, Unread(m)) = Tagged(m, page.kv) \union Tagged(m, Unread(m)')
    BY <1>2, <2>1 DEF Tagged
  <2>3. Tagged(m, Unread(m))' = Tagged(m, Unread(m)')
    BY DEF Tagged
  <2>4. QED
    BY <1>4, <1>6, <1>7, <2>2, <2>3
<1>10. \A o \in Movers : mover[o].stage = "reading" => source'.frozen
  BY <1>3, <1>7
<1>11. /\ new.stage # "new"
       /\ new.stage = "sending" => Count(m)' > 0 /\ new.image = PartsOf(m, Count(m))'
       /\ new.stage = "reading" => source'.frozen /\ new.image = (PartsOf(m, Count(m)) \union Tagged(m, Unread(m)))'
  BY <1>3, <1>4, <1>6, <1>7, <1>8, <1>9
<1>12. source'.kv = source.kv
  BY <1>3
<1>13. QED
  BY <1>1, <1>3, <1>5, <1>10, <1>11, <1>12, Others

\* A mover that gives up leaves the other frozen cells frozen and its parts
\* in the copy as they are.
LEMMA GivesUp == ASSUME MoveInv, NEW m \in Movers, GiveUp(m) PROVE MoveInv'
<1> DEFINE new == [mover[m] EXCEPT !.stage = "gone"]
<1>1. /\ mover' = [mover EXCEPT ![m] = new] /\ new \in Mover /\ new.stage = "gone"
      /\ new.parts = mover[m].parts /\ target' = target
  <2>1. mover[m] \in Mover
    BY DEF MoveInv, MoveTypes
  <2>2. new = [stage |-> "gone", image |-> mover[m].image, from |-> mover[m].from,
               parts |-> mover[m].parts, index |-> mover[m].index, alarm |-> mover[m].alarm]
    BY <2>1 DEF Mover
  <2>3. new \in Mover
    BY <2>1, <2>2 DEF Mover, MoveStages
  <2>4. QED
    BY <2>2, <2>3 DEF GiveUp
<1> HIDE DEF new
<1>2. /\ source'.kv = source.kv
      /\ source' \in [kv : SUBSET Keys, armed : BOOLEAN, frozen : BOOLEAN]
      /\ \A o \in Movers \ {m} : mover[o].stage = "reading" => source'.frozen
  BY DEF GiveUp, MoveInv, MoveTypes
<1>3. MoveTypes'
  BY <1>1, <1>2 DEF MoveInv, MoveTypes
<1>4. QED
  BY <1>1, <1>2, <1>3, Others

-----------------------------------------------------------------------------
(* The copy. *)

\* What one part does to the copy: it then holds the parts up to it, and its
\* marker says so unless it was the last (image.js restoreCell).
LEMMA RestoresPart ==
  ASSUME MoveInv, NEW m \in Movers, mover[m].stage = "sending", NEW i \in Nat, i = mover[m].index,
         Accepts(m, i), Restore(m, i)
  PROVE  /\ i + 1 <= Count(m) /\ Count(m) \in Nat
         /\ target'.kv = PartsOf(m, i + 1)
         /\ target'.marker = IF i + 1 = Count(m) THEN NoMarker ELSE [id |-> m, next |-> i + 1, count |-> Count(m)]
         /\ target' \in [kv : SUBSET CopyEntries, marker : Marker, armed : BOOLEAN, retired : BOOLEAN]
         /\ target.kv = {} \/ target.marker # NoMarker
<1> DEFINE marker == IF i + 1 = Count(m) THEN NoMarker ELSE [id |-> m, next |-> i + 1, count |-> Count(m)]
           kv == {<<m, k>> : k \in mover[m].parts[i + 1]}
           full == i + 1 = Count(m) /\ mover[m].alarm
<1>1. /\ mover[m].parts \in Seq(SUBSET Keys) /\ Count(m) \in Nat /\ Count(m) = Len(mover[m].parts)
      /\ Count(m) > 0 /\ mover[m].alarm \in BOOLEAN
  BY DEF MoveInv, MoveTypes, Mover, Sends, Count
<1>2. /\ i + 1 <= Count(m) /\ target.kv = PartsOf(m, i)
      /\ target.kv = {} \/ target.marker # NoMarker
  <2>1. CASE i = 0
    <3>1. target.kv = {}
      BY <2>1 DEF Accepts, BlankCell
    <3>2. PartsOf(m, 0) = {}
      BY PartsNext DEF MoveInv
    <3>3. QED
      BY <1>1, <2>1, <3>1, <3>2
  <2>2. CASE i # 0
    <3>1. target.marker = [id |-> m, next |-> i, count |-> Count(m)]
      BY <2>2 DEF Accepts
    <3>2. target.marker.id = m /\ target.marker.next = i /\ i > 0
      BY <2>2, <3>1
    <3>3. i < Count(m) /\ target.kv = PartsOf(m, i)
      BY <3>2 DEF MoveInv, Holds
    <3>4. target.marker # NoMarker
      <4>1. NoMarker.next = 0
        BY DEF NoMarker
      <4>2. QED
        BY <3>2, <4>1
    <3>5. QED
      BY <1>1, <3>3, <3>4
  <2>3. QED
    BY <2>1, <2>2
<1>3. mover[m].parts[i + 1] \in SUBSET Keys
  BY <1>1, <1>2
<1>4. target' = [target EXCEPT !.kv = @ \union kv, !.marker = marker, !.armed = full]
  BY DEF Restore
<1>5. kv = Tagged(m, mover[m].parts[i + 1]) /\ kv \in SUBSET CopyEntries
  BY <1>3 DEF Tagged, CopyEntries
<1>6. PartsOf(m, i + 1) = target.kv \union kv
  BY <1>2, <1>5, PartsNext DEF MoveInv
<1>7. marker \in Marker /\ full \in BOOLEAN
  <2>1. NoMarker \in Marker
    BY DEF Marker, NoMarker
  <2>2. [id |-> m, next |-> i + 1, count |-> Count(m)] \in Marker
    <3>1. m \in Movers \union {""}
      BY Zenon
    <3>2. i + 1 \in Nat
      OBVIOUS
    <3>3. QED
      BY <1>1, <3>1, <3>2, Zenon DEF Marker
  <2>3. marker \in Marker
    BY <2>1, <2>2
  <2>4. QED
    BY <1>1, <2>3
<1>8. target \in [kv : SUBSET CopyEntries, marker : Marker, armed : BOOLEAN, retired : BOOLEAN]
  BY DEF MoveInv, MoveTypes
<1> HIDE DEF marker, kv, full
<1>9. /\ target'.kv = target.kv \union kv /\ target'.marker = marker
      /\ target' \in [kv : SUBSET CopyEntries, marker : Marker, armed : BOOLEAN, retired : BOOLEAN]
  BY <1>4, <1>5, <1>7, <1>8
<1>10. QED
  BY <1>1, <1>2, <1>6, <1>9 DEF marker

\* What a step of a mover that sends leaves of its own record.
LEMMA SenderStays ==
  ASSUME MoveInv, NEW m \in Movers, SendPart(m)
  PROVE  /\ mover[m].stage = "sending" /\ source' = source
         /\ mover' \in [Movers -> Mover]
         /\ \A o \in Movers : /\ mover'[o].parts = mover[o].parts /\ mover'[o].image = mover[o].image
                              /\ o # m => mover'[o] = mover[o]
         /\ mover'[m].stage \in {"sending", "moved", "gone"}
<1> DEFINE i == mover[m].index
           next == [mover[m] EXCEPT !.index = i + 1]
           over(stage) == [mover[m] EXCEPT !.index = i + 1, !.stage = stage]
           gone == [mover[m] EXCEPT !.stage = "gone"]
<1>1. mover[m] \in Mover /\ i \in Nat /\ mover \in [Movers -> Mover]
  BY DEF MoveInv, MoveTypes, Mover
<1>2. /\ next \in Mover /\ next.stage = mover[m].stage
      /\ next.parts = mover[m].parts /\ next.image = mover[m].image
  <2>1. i + 1 \in Nat
    BY <1>1
  <2>2. next \in Mover
    BY <1>1, <2>1, IndexSet
  <2>3. QED
    BY <1>1, <2>2 DEF Mover
<1>3. /\ gone \in Mover /\ gone.stage = "gone"
      /\ gone.parts = mover[m].parts /\ gone.image = mover[m].image
  BY <1>1, StageSet DEF MoveStages, Mover
<1>4. ASSUME NEW stage \in MoveStages
      PROVE  /\ over(stage) \in Mover /\ over(stage).stage = stage
             /\ over(stage).parts = mover[m].parts /\ over(stage).image = mover[m].image
  <2>1. over(stage) = [next EXCEPT !.stage = stage]
    OBVIOUS
  <2>2. QED
    BY <1>2, <2>1, StageSet DEF Mover
<1>5. mover[m].stage = "sending" /\ source' = source
  BY DEF SendPart
<1>6. \E new \in {mover[m], next, gone, over("moved"), over("sending")} :
         mover' = [mover EXCEPT ![m] = new]
  BY <1>1, <1>5 DEF SendPart
<1>7. PICK new \in {mover[m], next, gone, over("moved"), over("sending")} :
         mover' = [mover EXCEPT ![m] = new]
  BY <1>6
<1>8. /\ new \in Mover /\ new.parts = mover[m].parts /\ new.image = mover[m].image
      /\ new.stage \in {"sending", "moved", "gone"}
  <2>1. "moved" \in MoveStages /\ "sending" \in MoveStages
    BY DEF MoveStages
  <2>2. QED
    BY <1>1, <1>2, <1>3, <1>4, <1>5, <2>1
<1> HIDE DEF next, over, gone
<1>9. QED
  BY <1>1, <1>5, <1>7, <1>8

\* A part that is restored, refused, or restored with its answer lost keeps the
\* copy of a restore the parts before its marker (image.js restoreCell).
LEMMA SendsMove == ASSUME MoveInv, NEW m \in Movers, SendPart(m) PROVE MoveInv'
<1>1. /\ mover[m].stage = "sending" /\ source' = source /\ mover' \in [Movers -> Mover]
      /\ \A o \in Movers : /\ mover'[o].parts = mover[o].parts /\ mover'[o].image = mover[o].image
                           /\ o # m => mover'[o] = mover[o]
      /\ mover'[m].stage \in {"sending", "moved", "gone"}
  BY SenderStays
<1>2. PICK i \in Nat : i = mover[m].index
  BY DEF MoveInv, MoveTypes, Mover
<1>3. (Accepts(m, i) /\ Restore(m, i)) \/ target' = target
  BY <1>2 DEF SendPart
<1>4. Fresh' /\ Reads'
  <2>1. Fresh'
    BY <1>1 DEF MoveInv, Fresh
  <2>2. \A o \in Movers : mover'[o].stage = "reading" => mover'[o] = mover[o]
    BY <1>1
  <2>3. Reads'
    <3> SUFFICES ASSUME NEW o \in Movers, mover'[o].stage = "reading"
                 PROVE  source'.frozen /\ mover'[o].image = (PartsOf(o, Count(o)) \union Tagged(o, Unread(o)))'
      BY DEF Reads
    <3>1. mover'[o] = mover[o]
      BY <2>2
    <3>2. source.frozen /\ mover[o].image = PartsOf(o, Count(o)) \union Tagged(o, Unread(o))
      BY <3>1 DEF MoveInv, Reads
    <3>3. QED
      BY <1>1, <3>1, <3>2 DEF PartsOf, Count, Tagged, Unread
  <2>4. QED
    BY <2>1, <2>3
<1>5. Sends'
  <2> SUFFICES ASSUME NEW o \in Movers, mover'[o].stage = "sending"
               PROVE  Count(o)' > 0 /\ mover'[o].image = PartsOf(o, Count(o))'
    BY DEF Sends
  <2>1. mover[o].stage = "sending"
    BY <1>1
  <2>2. Count(o) > 0 /\ mover[o].image = PartsOf(o, Count(o))
    BY <2>1 DEF MoveInv, Sends
  <2>3. mover'[o].parts = mover[o].parts /\ mover'[o].image = mover[o].image
    BY <1>1
  <2>4. QED
    BY <2>2, <2>3 DEF PartsOf, Count
<1>6. CASE target' = target
  <2>1. MoveTypes'
    BY <1>1, <1>6 DEF MoveInv, MoveTypes
  <2>2. Holds'
    BY <1>1, <1>6, CopyStays
  <2>3. QED
    BY <1>4, <1>5, <2>1, <2>2 DEF MoveInv
<1>7. CASE Accepts(m, i) /\ Restore(m, i)
  <2>1. /\ i + 1 <= Count(m) /\ Count(m) \in Nat /\ target'.kv = PartsOf(m, i + 1)
        /\ target'.marker = IF i + 1 = Count(m) THEN NoMarker ELSE [id |-> m, next |-> i + 1, count |-> Count(m)]
        /\ target' \in [kv : SUBSET CopyEntries, marker : Marker, armed : BOOLEAN, retired : BOOLEAN]
    BY <1>1, <1>2, <1>7, RestoresPart
  <2>2. MoveTypes'
    BY <1>1, <2>1 DEF MoveInv, MoveTypes
  <2>3. Holds'
    <3> SUFFICES ASSUME target'.marker.next > 0 PROVE Holds'
      BY DEF Holds
    <3>1. NoMarker.next = 0
      BY DEF NoMarker
    <3>2. i + 1 # Count(m) /\ target'.marker = [id |-> m, next |-> i + 1, count |-> Count(m)]
      BY <2>1, <3>1
    <3>3. PICK n \in Nat : n = i + 1
      OBVIOUS
    <3>4. Count(m)' = Count(m) /\ PartsOf(m, n)' = PartsOf(m, n)
      BY <1>1, PartsKept
    <3>5. target'.marker.id = m /\ target'.marker.next = n /\ target'.marker.count = Count(m)
      BY <3>2, <3>3
    <3>6. n < Count(m)' /\ target'.kv = PartsOf(m, n)'
      BY <2>1, <3>2, <3>3, <3>4
    <3>7. QED
      BY <1>1, <3>4, <3>5, <3>6 DEF Holds, PartsOf
  <2>4. QED
    BY <1>4, <1>5, <2>2, <2>3 DEF MoveInv
<1>8. QED
  BY <1>3, <1>6, <1>7

\* A clear, whole or interrupted, leaves no marker (image.js clearCell).
LEMMA ClearsMove == MoveInv /\ Clear => MoveInv'
<1> SUFFICES ASSUME MoveInv, Clear PROVE MoveInv'
  OBVIOUS
<1>1. source' = source /\ mover' = mover
  BY DEF Clear
<1>2. /\ target' \in [kv : SUBSET CopyEntries, marker : Marker, armed : BOOLEAN, retired : BOOLEAN]
      /\ target'.marker.next = 0
  <2>1. NoMarker \in Marker /\ NoMarker.next = 0
    BY DEF NoMarker, Marker
  <2>2. CASE target' = BlankCell
    BY <2>1, <2>2 DEF BlankCell
  <2>3. ASSUME NEW left \in SUBSET target.kv \ {{}},
               target' = [kv |-> left, marker |-> NoMarker, armed |-> FALSE, retired |-> TRUE]
        PROVE  /\ target' \in [kv : SUBSET CopyEntries, marker : Marker, armed : BOOLEAN, retired : BOOLEAN]
               /\ target'.marker.next = 0
    <3>1. left \in SUBSET CopyEntries
      BY DEF MoveInv, MoveTypes
    <3>2. QED
      BY <2>1, <2>3, <3>1
  <2>4. QED
    BY <2>2, <2>3 DEF Clear
<1>3. MoveTypes' /\ Holds'
  BY <1>1, <1>2 DEF MoveInv, MoveTypes, Holds
<1>4. Fresh' /\ Reads' /\ Sends'
  BY <1>1 DEF MoveInv, Fresh, Reads, Sends, PartsOf, Count, Unread, Tagged
<1>5. QED
  BY <1>3, <1>4 DEF MoveInv

\* What the copy and the movers hold is kept by every step.
LEMMA NextMoves == MoveInv /\ [MoveNext]_moveVars => MoveInv'
<1> SUFFICES ASSUME MoveInv, [MoveNext]_moveVars PROVE MoveInv'
  OBVIOUS
<1>1. CASE AppWrites
  BY <1>1, WritesMove
<1>2. CASE Clear
  BY <1>2, ClearsMove
<1>3. ASSUME NEW m \in Movers, Disarm(m) PROVE MoveInv'
  BY <1>3, DisarmMoves
<1>4. ASSUME NEW m \in Movers, ReadPage(m) PROVE MoveInv'
  BY <1>4, PagesMove
<1>5. ASSUME NEW m \in Movers, GiveUp(m) PROVE MoveInv'
  BY <1>5, GivesUp
<1>6. ASSUME NEW m \in Movers, SendPart(m) PROVE MoveInv'
  BY <1>6, SendsMove
<1>7. CASE UNCHANGED moveVars
  BY <1>7 DEF moveVars, MoveInv, MoveTypes, Fresh, Reads, Sends, Holds, PartsOf, Count, Unread, Tagged
<1>8. QED
  BY <1>1, <1>2, <1>3, <1>4, <1>5, <1>6, <1>7 DEF MoveNext

-----------------------------------------------------------------------------
(* The refinement. *)

\* The images taken change only when a mover starts or changes its image.
LEMMA TakenStays ==
  ASSUME \A o \in Movers : /\ mover'[o].image = mover[o].image
                           /\ mover'[o].stage = "new" <=> mover[o].stage = "new"
  PROVE  Taken' = Taken
BY DEF Taken

\* What the copy serves changes only with the copy.
LEMMA HeldStays == ASSUME target' = target PROVE Held' = Held
BY DEF Held, Complete

\* A mover that freezes the original takes its image.
LEMMA DisarmTakes ==
  ASSUME MoveInv, NEW m \in Movers, Disarm(m)
  PROVE  /\ \E image \in AllImages : Taken' = Taken \union {image}
         /\ Held' = Held
<1> DEFINE image == {<<m, k>> : k \in source.kv}
<1>1. /\ mover'[m].stage = "reading" /\ mover'[m].image = image /\ mover[m].stage = "new"
      /\ \A o \in Movers \ {m} : mover'[o] = mover[o]
  BY DEF Disarm, MoveInv, MoveTypes, Mover
<1>2. image \in AllImages
  <2>1. source.kv \in SUBSET Keys
    BY DEF MoveInv, MoveTypes
  <2>2. \E o \in Movers, kv \in SUBSET Keys : image = {<<o, k>> : k \in kv}
    BY <2>1
  <2>3. QED
    BY <2>2 DEF AllImages
<1> HIDE DEF image
<1>3. Taken' = Taken \union {image}
  BY <1>1 DEF Taken
<1>4. Held' = Held
  BY HeldStays DEF Disarm
<1>5. QED
  BY <1>2, <1>3, <1>4

\* A part leaves what the copy serves, or is the last of an image: then the
\* copy served nothing and serves that image.
LEMMA SendLands ==
  ASSUME MoveInv, NEW m \in Movers, SendPart(m)
  PROVE  Taken' = Taken /\ (Held' = Held \/ (Held = {} /\ Held' \in Taken))
<1>1. /\ mover[m].stage = "sending"
      /\ \A o \in Movers : mover'[o].image = mover[o].image /\ (o # m => mover'[o] = mover[o])
      /\ mover'[m].stage \in {"sending", "moved", "gone"}
  BY SenderStays
<1>2. Taken' = Taken
  BY <1>1, TakenStays
<1>3. PICK i \in Nat : i = mover[m].index
  BY DEF MoveInv, MoveTypes, Mover
<1>4. CASE target' = target
  BY <1>2, <1>4, HeldStays
<1>5. CASE Accepts(m, i) /\ Restore(m, i)
  <2>1. /\ i + 1 <= Count(m) /\ Count(m) \in Nat /\ target'.kv = PartsOf(m, i + 1)
        /\ target'.marker = IF i + 1 = Count(m) THEN NoMarker ELSE [id |-> m, next |-> i + 1, count |-> Count(m)]
        /\ target.kv = {} \/ target.marker # NoMarker
    BY <1>1, <1>3, <1>5, RestoresPart
  <2>2. Held = {}
    BY <2>1 DEF Held, Complete
  <2>3. CASE i + 1 = Count(m)
    <3>1. target'.kv = mover[m].image
      BY <1>1, <2>1, <2>3 DEF MoveInv, Sends
    <3>2. target'.kv \in Taken
      BY <1>1, <3>1 DEF Taken
    <3>3. Held' = target'.kv \/ Held' = {}
      BY DEF Held
    <3>4. QED
      BY <1>2, <2>2, <3>2, <3>3
  <2>4. CASE i + 1 # Count(m)
    <3>1. target'.marker # NoMarker
      <4>1. NoMarker.next = 0
        BY DEF NoMarker
      <4>2. target'.marker = [id |-> m, next |-> i + 1, count |-> Count(m)]
        BY <2>1, <2>4
      <4>3. target'.marker.next = i + 1
        BY <4>2
      <4>4. QED
        BY <4>1, <4>3
    <3>2. Held' = {}
      BY <3>1 DEF Held, Complete
    <3>3. QED
      BY <1>2, <2>2, <3>2
  <2>5. QED
    BY <2>3, <2>4
<1>6. QED
  BY <1>3, <1>4, <1>5 DEF SendPart

\* Once a clear began the copy serves nothing.
LEMMA ClearRetires == ASSUME Clear PROVE Held' = {} /\ Taken' = Taken
<1>1. Taken' = Taken
  BY DEF Clear, Taken
<1>2. Held' = {}
  BY DEF Clear, Held, Complete, BlankCell
<1>3. QED
  BY <1>1, <1>2

\* Every step of the cells and the movers is one of WholeCopy, or changes
\* neither what was taken nor what the copy serves.
LEMMA StepsRefine ==
  MoveInv /\ [MoveNext]_moveVars => [Moved!Take \/ Moved!Lands \/ Moved!Retired]_<<Taken, Held>>
<1> SUFFICES ASSUME MoveInv, [MoveNext]_moveVars
             PROVE  [Moved!Take \/ Moved!Lands \/ Moved!Retired]_<<Taken, Held>>
  OBVIOUS
<1>1. ASSUME NEW m \in Movers, Disarm(m) PROVE Moved!Take
  <2>1. (\E image \in AllImages : Taken' = Taken \union {image}) /\ Held' = Held
    BY <1>1, DisarmTakes
  <2>2. QED
    BY <2>1 DEF Moved!Take
<1>2. ASSUME NEW m \in Movers, SendPart(m) PROVE Moved!Lands \/ UNCHANGED <<Taken, Held>>
  BY <1>2, SendLands DEF Moved!Lands
<1>3. CASE Clear
  BY <1>3, ClearRetires DEF Moved!Retired
<1>4. ASSUME NEW m \in Movers, ReadPage(m) \/ GiveUp(m) PROVE UNCHANGED <<Taken, Held>>
  <2>1. \A o \in Movers : /\ mover'[o].image = mover[o].image
                          /\ mover'[o].stage = "new" <=> mover[o].stage = "new"
    <3> DEFINE page == Page(mover[m].from)
               read == [mover[m] EXCEPT !.parts = Append(@, page.kv), !.from = page.next,
                            !.stage = IF page.next = 0 THEN "sending" ELSE @]
               gone == [mover[m] EXCEPT !.stage = "gone"]
    <3>1. mover[m] \in Mover /\ mover \in [Movers -> Mover] /\ mover[m].stage \in {"reading", "sending"}
      BY <1>4 DEF ReadPage, GiveUp, MoveInv, MoveTypes
    <3>2. /\ read.image = mover[m].image /\ read.stage \in {"reading", "sending"} \union {mover[m].stage}
          /\ gone.image = mover[m].image /\ gone.stage = "gone"
      BY <3>1 DEF Mover
    <3>3. mover' = [mover EXCEPT ![m] = read] \/ mover' = [mover EXCEPT ![m] = gone]
      BY <1>4, Zenon DEF ReadPage, GiveUp
    <3> HIDE DEF page, read, gone
    <3>4. QED
      BY <3>1, <3>2, <3>3
  <2>2. target' = target
    BY <1>4 DEF ReadPage, GiveUp
  <2>3. QED
    BY <2>1, <2>2, TakenStays, HeldStays
<1>5. CASE AppWrites \/ UNCHANGED moveVars
  BY <1>5 DEF AppWrites, moveVars, Taken, Held, Complete
<1>6. QED
  BY <1>1, <1>2, <1>3, <1>4, <1>5 DEF MoveNext

\* No image is taken and the copy is blank at the start.
LEMMA InitRefines == MoveInit => Moved!WholeInit
<1> SUFFICES ASSUME MoveInit PROVE Moved!WholeInit
  OBVIOUS
<1>1. Taken = {} /\ Held = {}
  BY DEF MoveInit, Taken, Held, Complete, IdleMover, BlankCell
<1>2. QED
  BY <1>1 DEF Moved!WholeInit

\* However a cell is moved, in parts of any size, by any movers, with parts
\* lost and repeated, its copy serves nothing or one image whole (image.js
\* restoreCell and clearCell).
THEOREM MoveRefinesWhole == MoveSpec => MoveIsWhole
<1>1. MoveInit => MoveInv
  BY InitMoves
<1>2. MoveInv /\ [MoveNext]_moveVars => MoveInv'
  BY NextMoves
<1>3. MoveInit => Moved!WholeInit
  BY InitRefines
<1>4. MoveInv /\ [MoveNext]_moveVars
        => [Moved!Take \/ Moved!Lands \/ Moved!Retired]_<<Taken, Held>>
  BY StepsRefine
<1>5. QED
  BY <1>1, <1>2, <1>3, <1>4, PTL DEF MoveSpec, MoveIsWhole, Moved!WholeSpec

-----------------------------------------------------------------------------
(* A body on its way out *)

\* The stream of one body by itself.
BodySpec == BodyInit /\ [][BodyNext]_bodyVars

StreamStates == {"none", "open", "closed", "errored", "gone"}

Copy == [stream : StreamStates, waits : BOOLEAN, got : Nat]

BodyTypes ==
    /\ object \in [chunks : 0..(Size + 1), clean : BOOLEAN]
    /\ tee \in [read : 0..Size, reading : BOOLEAN, cancelled : BOOLEAN]
    /\ copy \in [Copies -> Copy]
    /\ cached \in Nat

\* Before the response nothing was read.
BeforeResponse == copy["client"].stream = "none" =>
    copy["put"].stream = "none" /\ tee.read = 0 /\ ~tee.reading /\ cached = NotStored

\* A copy that waits is open, and the source is read only while every open copy waits.
Lockstep ==
    /\ \A c \in Copies : copy[c].waits => copy[c].stream = "open"
    /\ tee.reading => \A c \in Copies : copy[c].stream = "open" => copy[c].waits
    /\ copy["put"].stream = "open" => copy["put"].got = tee.read

\* The last chunk is given only for a whole object, and only after it a copy ends.
WholeAtEnd ==
    /\ tee.read = Size => ObjectWhole
    /\ copy["put"].stream = "closed" => copy["put"].got = Size /\ ObjectWhole
    /\ cached # NotStored => cached = Size /\ cached <= MaxChunks /\ ObjectWhole

BodyInv == BodyTypes /\ BeforeResponse /\ Lockstep /\ WholeAtEnd

\* No copy is made before the response.
LEMMA InitBody == BodyInit => BodyInv
<1> SUFFICES ASSUME BodyInit PROVE BodyInv
  OBVIOUS
<1>1. NoCopy \in Copy /\ NoCopy.stream = "none" /\ ~NoCopy.waits
  BY DEF NoCopy, Copy, StreamStates
<1>2. /\ tee = [read |-> 0, reading |-> FALSE, cancelled |-> FALSE] /\ 0 \in 0..Size
      /\ object = [chunks |-> Size, clean |-> TRUE] /\ Size \in 0..(Size + 1)
      /\ cached = NotStored /\ NotStored \in Nat
      /\ copy = [c \in Copies |-> NoCopy]
  BY BodyAssumption DEF BodyInit, UnreadObject, NotStored
<1>3. BodyTypes
  BY <1>1, <1>2, BodyAssumption DEF BodyTypes
<1>4. BeforeResponse /\ Lockstep /\ WholeAtEnd
  BY <1>1, <1>2, BodyAssumption DEF BeforeResponse, Lockstep, WholeAtEnd, Copies, BodyInit
<1>5. QED
  BY <1>3, <1>4 DEF BodyInv

\* A client that takes its chunk or goes, or a put that goes, leaves the object
\* and what was cached; the source is read on when every open copy waits.
LEMMA StepsTogether ==
  ASSUME BodyInv, NEW copies \in [Copies -> Copy],
         Stepped(copies), UNCHANGED <<object, late, cached>>,
         copies["client"].stream = copy["client"].stream, copy["client"].stream # "none",
         copies["put"].stream = copy["put"].stream \/ copies["put"].stream = "gone",
         copies["put"].got = copy["put"].got,
         \A c \in Copies : copies[c].waits => copies[c].stream = "open",
         \A c \in Copies : copy[c].waits /\ copies[c].stream = "open" => copies[c].waits
  PROVE  BodyInv'
<1>1. /\ copy' = copies
      /\ tee' \in [read : 0..Size, reading : BOOLEAN, cancelled : BOOLEAN] /\ tee'.read = tee.read
      /\ tee'.reading => tee.reading \/ \A c \in Live(copies) : copies[c].waits
  BY DEF Stepped, BodyInv, BodyTypes
<1>2. BodyTypes' /\ BeforeResponse'
  BY <1>1 DEF BodyInv, BodyTypes, BeforeResponse
<1>3. Lockstep'
  BY <1>1 DEF BodyInv, BodyTypes, Lockstep, Live, Copies
<1>4. WholeAtEnd'
  BY <1>1 DEF BodyInv, BodyTypes, WholeAtEnd, ObjectWhole, NotStored
<1>5. QED
  BY <1>2, <1>3, <1>4 DEF BodyInv

\* A chunk goes to every copy that is open, and the last one ends them.
LEMMA SourceGives == BodyInv /\ SourceAnswers => BodyInv'
<1> SUFFICES ASSUME BodyInv, SourceAnswers PROVE BodyInv'
  OBVIOUS
<1> DEFINE next == NextRead(tee.read)
<1> USE DEF BodyInv
<1>1. /\ tee.reading /\ copy' = [c \in Copies |-> Given(c, next)]
      /\ tee' = [tee EXCEPT !.reading = FALSE, !.read = IF next = "chunk" THEN @ + 1 ELSE @]
      /\ UNCHANGED <<object, late, cached>>
  BY DEF SourceAnswers
<1>2. /\ next \in {"chunk", "done", "error"}
      /\ next = "chunk" => tee.read < Size /\ (tee.read = Size - 1 => ObjectWhole)
      /\ next = "done" => tee.read = Size
  BY BodyAssumption DEF NextRead, BodyTypes
<1> HIDE DEF next
<1>3. ASSUME NEW c \in Copies
      PROVE
        /\ copy'[c] \in Copy
        /\ ~copy[c].waits => copy'[c] = copy[c]
        /\ copy[c].waits => /\ ~copy'[c].waits /\ copy'[c].stream # "none"
                            /\ next = "chunk" => copy'[c].stream = copy[c].stream /\ copy'[c].got = copy[c].got + 1
                            /\ next = "done" => copy'[c].stream = "closed" /\ copy'[c].got = copy[c].got
                            /\ next = "error" => copy'[c].stream = "errored"
  <2>1. copy[c] \in Copy /\ copy'[c] = Given(c, next)
    BY <1>1 DEF BodyTypes
  <2>2. CASE ~copy[c].waits
    BY <2>1, <2>2 DEF Given
  <2>3. CASE copy[c].waits /\ next = "chunk"
    <3>1. copy'[c] = [copy[c] EXCEPT !.waits = FALSE, !.got = copy[c].got + 1, !.stream = copy[c].stream]
      BY <2>1, <2>3 DEF Given
    <3>2. copy[c].stream # "none"
      BY <2>3 DEF Lockstep
    <3> DEFINE n == copy[c].got + 1
               a == [copy[c] EXCEPT !.waits = FALSE, !.got = n, !.stream = copy[c].stream]
    <3>a. n \in Nat /\ copy[c].stream \in StreamStates
      BY <2>1 DEF Copy
    <3> HIDE DEF n
    <3>3. a \in Copy /\ ~a.waits /\ a.stream = copy[c].stream /\ a.got = n
      BY <2>1, <3>a DEF Copy
    <3>4. next # "done" /\ next # "error"
      BY <2>3
    <3> HIDE DEF a
    <3>5. QED
      BY <2>3, <3>1, <3>2, <3>3, <3>4 DEF a, n
  <2>4. CASE copy[c].waits /\ next = "done"
    <3>1. copy'[c] = [copy[c] EXCEPT !.waits = FALSE, !.got = copy[c].got, !.stream = "closed"]
      BY <2>1, <2>4 DEF Given
    <3>2. QED
      BY <2>1, <2>4, <3>1 DEF Copy, StreamStates
  <2>5. CASE copy[c].waits /\ next = "error"
    <3>1. copy'[c] = [copy[c] EXCEPT !.waits = FALSE, !.got = copy[c].got, !.stream = "errored"]
      BY <2>1, <2>5 DEF Given
    <3>2. QED
      BY <2>1, <2>5, <3>1 DEF Copy, StreamStates
  <2>6. QED
    BY <1>2, <2>2, <2>3, <2>4, <2>5, Zenon
<1>4. copy["client"].stream # "none" /\ "client" \in Copies /\ "put" \in Copies
  BY <1>1 DEF BeforeResponse, Copies
<1>5. /\ tee' \in [read : 0..Size, reading : BOOLEAN, cancelled : BOOLEAN] /\ ~tee'.reading
      /\ tee'.read = IF next = "chunk" THEN tee.read + 1 ELSE tee.read
  <2>1. tee \in [read : 0..Size, reading : BOOLEAN, cancelled : BOOLEAN]
    BY DEF BodyTypes
  <2>2. CASE next = "chunk"
    <3>1. tee' = [tee EXCEPT !.reading = FALSE, !.read = tee.read + 1] /\ tee.read + 1 \in 0..Size
      BY <1>1, <1>2, <2>1, <2>2, BodyAssumption
    <3>2. QED
      BY <2>1, <2>2, <3>1
  <2>3. CASE next # "chunk"
    <3>1. tee' = [tee EXCEPT !.reading = FALSE, !.read = tee.read]
      BY <1>1, <2>3
    <3>2. QED
      BY <2>1, <2>3, <3>1
  <2>4. QED
    BY <2>2, <2>3
<1>6. BodyTypes'
  BY <1>1, <1>3, <1>5 DEF BodyTypes
<1>7. BeforeResponse'
  BY <1>3, <1>4 DEF BeforeResponse
<1>8. Lockstep'
  BY <1>1, <1>2, <1>3, <1>4, <1>5 DEF BodyTypes, Lockstep
<1>9. WholeAtEnd'
  <2>1. tee'.read = Size => ObjectWhole
    BY <1>2, <1>5, BodyAssumption DEF BodyTypes, WholeAtEnd
  <2>2. copy'["put"].stream = "closed" => copy'["put"].got = Size /\ ObjectWhole
    BY <1>1, <1>2, <1>3, <1>4 DEF WholeAtEnd, Lockstep
  <2>3. QED
    BY <1>1, <2>1, <2>2 DEF WholeAtEnd, ObjectWhole, NotStored
<1>10. QED
  BY <1>6, <1>7, <1>8, <1>9

\* Every step of a stream keeps what is stored whole.
LEMMA NextBody == BodyInv /\ [BodyNext]_bodyVars => BodyInv'
<1> SUFFICES ASSUME BodyInv, [BodyNext]_bodyVars PROVE BodyInv'
  OBVIOUS
<1>1. CASE Responds
  <2> USE <1>1 DEF Responds
  <2>1. /\ UNCHANGED <<tee, late, cached>> /\ tee.read = 0 /\ ~tee.reading /\ cached = NotStored
        /\ object' \in [chunks : 0..(Size + 1), clean : BOOLEAN]
    BY DEF BodyInv, BeforeResponse
  <2>2. /\ copy' \in [Copies -> Copy]
        /\ copy'["client"].stream = "open" /\ copy'["put"].stream \in {"open", "gone"}
        /\ \A c \in Copies : ~copy'[c].waits /\ copy'[c].got = 0
    <3>1. OpenCopy \in Copy /\ NoCopy \in Copy /\ [NoCopy EXCEPT !.stream = "gone"] \in Copy
      BY DEF OpenCopy, NoCopy, Copy, StreamStates
    <3>2. /\ OpenCopy.stream = "open" /\ ~OpenCopy.waits /\ OpenCopy.got = 0
          /\ [NoCopy EXCEPT !.stream = "gone"].stream = "gone"
          /\ ~[NoCopy EXCEPT !.stream = "gone"].waits /\ [NoCopy EXCEPT !.stream = "gone"].got = 0
      BY DEF OpenCopy, NoCopy
    <3> DEFINE gone == [NoCopy EXCEPT !.stream = "gone"]
    <3>3. copy' = [client |-> OpenCopy, put |-> OpenCopy] \/ copy' = [client |-> OpenCopy, put |-> gone]
      OBVIOUS
    <3>4. gone \in Copy /\ gone.stream = "gone" /\ ~gone.waits /\ gone.got = 0
      BY <3>1, <3>2
    <3> HIDE DEF gone
    <3>5. QED
      BY <3>1, <3>2, <3>3, <3>4 DEF Copies
  <2>3. QED
    BY <2>1, <2>2, BodyAssumption DEF BodyInv, BodyTypes, BeforeResponse, Lockstep, WholeAtEnd, Copies
<1>2. ASSUME NEW c \in Copies, Pulls(c) PROVE BodyInv'
  <2> DEFINE copies == [copy EXCEPT ![c].waits = TRUE]
  <2>1. copy \in [Copies -> Copy] /\ copy[c] \in Copy /\ copy[c].stream = "open"
    BY <1>2 DEF Pulls, BodyInv, BodyTypes
  <2>2. /\ copies \in [Copies -> Copy]
        /\ \A d \in Copies : copies[d].stream = copy[d].stream /\ copies[d].got = copy[d].got
        /\ \A d \in Copies : copies[d].waits <=> (copy[d].waits \/ d = c)
    BY <2>1 DEF Copy
  <2>3. copy["client"].stream # "none" /\ "client" \in Copies /\ "put" \in Copies
    BY <2>1 DEF BodyInv, BeforeResponse, Copies
  <2>4. Stepped(copies) /\ UNCHANGED <<object, late, cached>>
    BY <1>2 DEF Pulls
  <2>5. \A d \in Copies : copies[d].waits => copies[d].stream = "open"
    BY <2>1, <2>2 DEF BodyInv, Lockstep
  <2> HIDE DEF copies
  <2>6. QED
    BY <2>2, <2>3, <2>4, <2>5, StepsTogether
<1>3. CASE SourceAnswers
  BY <1>3, SourceGives
<1>4. CASE PutFails
  <2> DEFINE gone == [copy["put"] EXCEPT !.stream = "gone", !.waits = FALSE]
  <2>1. copy \in [Copies -> Copy] /\ copy["put"] \in Copy /\ "client" \in Copies /\ "put" \in Copies
    BY DEF BodyInv, BodyTypes, Copies
  <2>2. gone \in Copy /\ gone.stream = "gone" /\ ~gone.waits /\ gone.got = copy["put"].got
    BY <2>1 DEF Copy, StreamStates
  <2>3. Released = [copy EXCEPT !["put"] = gone]
    BY DEF Released
  <2> HIDE DEF gone
  <2>4. /\ Released \in [Copies -> Copy] /\ Released["put"] = gone
        /\ \A d \in Copies \ {"put"} : Released[d] = copy[d]
    BY <2>1, <2>2, <2>3
  <2>5. copy["client"].stream # "none"
    BY <1>4 DEF PutFails, Live, BodyInv, BeforeResponse
  <2>6. \A d \in Copies : /\ Released[d].waits => Released[d].stream = "open"
                          /\ copy[d].waits /\ Released[d].stream = "open" => Released[d].waits
    BY <2>2, <2>4 DEF BodyInv, Lockstep
  <2>7. Released["client"] = copy["client"]
    BY <2>1, <2>4
  <2>8. Stepped(Released) /\ UNCHANGED <<object, late, cached>>
    BY <1>4 DEF PutFails
  <2>9. QED
    BY <2>2, <2>4, <2>5, <2>6, <2>7, <2>8, StepsTogether
<1>5. CASE PutStores
  BY <1>5, BodyAssumption DEF PutStores, Within, BodyInv, BodyTypes, BeforeResponse, Lockstep, WholeAtEnd, ObjectWhole, NotStored
<1>6. CASE ClientLeaves
  <2>1. /\ copy' \in [Copies -> Copy]
        /\ \A c \in Copies : ~copy'[c].waits /\ copy'[c].stream # "open"
        /\ copy'["client"].stream = "gone"
        /\ copy'["put"].stream = "closed" => copy["put"].stream = "closed"
        /\ copy'["put"].got = copy["put"].got
    <3> DEFINE a == [copy["client"] EXCEPT !.stream = "gone", !.waits = FALSE]
    <3>1. copy["client"] \in Copy /\ copy["put"] \in Copy
      BY DEF BodyInv, BodyTypes, Copies
    <3>2. copy' = [client |-> a, put |-> DroppedPut]
      BY <1>6 DEF ClientLeaves
    <3>3. a \in Copy /\ a.stream = "gone" /\ ~a.waits
      BY <3>1 DEF Copy, StreamStates
    <3>4. /\ DroppedPut \in Copy /\ ~DroppedPut.waits /\ DroppedPut.stream # "open"
          /\ DroppedPut.stream = "closed" => copy["put"].stream = "closed"
          /\ DroppedPut.got = copy["put"].got
      BY <3>1 DEF Copy, StreamStates, DroppedPut
    <3> HIDE DEF a
    <3>5. QED
      BY <3>2, <3>3, <3>4 DEF Copies
  <2>2. QED
    BY <1>6, <2>1 DEF ClientLeaves, BodyInv, BodyTypes, BeforeResponse, Lockstep, WholeAtEnd, ObjectWhole, NotStored
<1>7. CASE DeadlinePasses \/ UNCHANGED bodyVars
  BY <1>7 DEF DeadlinePasses, bodyVars, BodyInv, BodyTypes, BeforeResponse, Lockstep, WholeAtEnd, ObjectWhole, NotStored
<1>8. QED
  BY <1>1, <1>2, <1>3, <1>4, <1>5, <1>6, <1>7 DEF BodyNext, BodyWorks, PutWorks, PutReads, Copies

\* An entry of the cache holds the whole object and no more than the cap, in
\* whatever order the object, the client and the put go on, fail and leave, for
\* every size and cap (length.js exactLength, caches.js drop, bounded).
THEOREM AlwaysStoredWhole == BodySpec => []StoredWhole
<1>1. BodyInv => StoredWhole
  BY DEF BodyInv, BodyTypes, WholeAtEnd, StoredWhole, ObjectWhole, UnreadObject
<1>2. QED
  BY <1>1, InitBody, NextBody, PTL DEF BodySpec

-----------------------------------------------------------------------------
(* The link to a pod *)

\* The links to pods by themselves.
PodSpec == PodInit /\ [][PodNext]_podVars

LinkRecord == [state : {"none", "pending", "linked"}, logins : Seq(Logins),
               storage : Storages \union {NoStorage}, expired : BOOLEAN]

LoginStages == {"none", "chosen", "redirected", "exchanging", "signedin", "shared", "linked", "over"}

LoginRecord == [stage : LoginStages, link : Links \union {NoStorage}, storage : Storages \union {NoStorage}]

PodTypes ==
    /\ link \in [Links -> LinkRecord]
    /\ login \in [Logins -> LoginRecord]
    /\ isolate \in [Isolates -> [Links -> Storages \union {NoStorage}]]

\* A link that was completed, and with what.
Completed(l, s) == l \in Links /\ link[l].state = "linked" /\ link[l].storage = s

\* A login under way has a link and a storage; once past the sharing, that
\* storage is shared; and the one that completed its link did it with it.
LoginsBound == \A g \in Logins :
    /\ login[g].stage # "none" => login[g].link \in Links /\ login[g].storage \in Storages
    /\ login[g].stage \in {"shared", "linked"} => login[g].storage \in shared
    /\ login[g].stage = "linked" => Completed(login[g].link, login[g].storage)

\* So do the owner's pod, the links an isolate keeps and the objects.
LinksBound ==
    /\ pod # NoPod => Completed(pod.id, pod.storage) /\ pod.storage \in shared
    /\ \A i \in Isolates, l \in Links : isolate[i][l] # NoStorage => Completed(l, isolate[i][l])
    /\ \A o \in objects : Completed(o[1], o[2])

PodInv == PodTypes /\ LoginsBound /\ LinksBound

\* A link nobody started is a link.
LEMMA NoLinkIsRecord == NoLink \in LinkRecord
<1>1. <<>> \in Seq(Logins) /\ "none" \in {"none", "pending", "linked"} /\ NoStorage \in Storages \union {NoStorage}
  OBVIOUS
<1>2. QED
  BY <1>1, Zenon DEF NoLink, LinkRecord

\* Nobody is linked at first.
LEMMA InitPod == PodInit => PodInv
<1> SUFFICES ASSUME PodInit PROVE PodInv
  OBVIOUS
<1>1. NoLink \in LinkRecord
  BY NoLinkIsRecord
<1>2. NoLogin \in LoginRecord /\ NoLogin.stage = "none"
  BY DEF NoLogin, LoginRecord, LoginStages
<1>3. PodTypes
  BY <1>1, <1>2 DEF PodInit, PodTypes
<1>4. LoginsBound /\ LinksBound
  BY <1>2 DEF PodInit, LoginsBound, LinksBound
<1>5. QED
  BY <1>3, <1>4 DEF PodInv

\* A link that was completed stays as it is.
LinksStay ==
    /\ link' \in [Links -> LinkRecord]
    /\ \A l \in Links : link[l].state = "linked" => link'[l].state = "linked" /\ link'[l].storage = link[l].storage

\* A link that is not completed may become anything.
LEMMA LinkMoves ==
  ASSUME PodInv, NEW l \in Links, NEW a \in LinkRecord, link' = [link EXCEPT ![l] = a], link[l].state # "linked"
  PROVE  LinksStay /\ link'[l] = a
  BY DEF PodInv, PodTypes, LinksStay

\* What a completed link binds stays bound while nothing is unshared.
LEMMA BoundStays ==
  ASSUME PodInv, LinksStay, shared \subseteq shared'
  PROVE  /\ \A l, s : Completed(l, s) => Completed(l, s)'
         /\ UNCHANGED login => LoginsBound'
         /\ UNCHANGED <<pod, isolate, objects>> => LinksBound'
<1>1. \A l, s : Completed(l, s) => Completed(l, s)'
  BY DEF LinksStay, Completed
<1>2. QED
  BY <1>1 DEF PodInv, LoginsBound, LinksBound

\* One login goes on.
LEMMA LoginMoves ==
  ASSUME PodInv, LinksStay, shared \subseteq shared', UNCHANGED isolate,
         NEW g \in Logins, NEW a \in LoginRecord, login' = [login EXCEPT ![g] = a],
         a.stage # "none" => a.link \in Links /\ a.storage \in Storages,
         a.stage \in {"shared", "linked"} => a.storage \in shared',
         a.stage = "linked" => Completed(a.link, a.storage)'
  PROVE  PodTypes' /\ LoginsBound'
<1>1. login' \in [Logins -> LoginRecord] /\ login'[g] = a /\ \A h \in Logins \ {g} : login'[h] = login[h]
  BY DEF PodInv, PodTypes
<1>2. \A l, s : Completed(l, s) => Completed(l, s)'
  BY BoundStays
<1>3. LoginsBound'
  BY <1>1, <1>2 DEF PodInv, LoginsBound
<1>4. QED
  BY <1>1, <1>3 DEF PodInv, PodTypes, LinksStay

\* What a stage written to a login leaves of it.
LEMMA StageOf ==
  ASSUME PodInv, NEW g \in Logins, NEW s \in LoginStages, To(g, s)
  PROVE  \E a \in LoginRecord : /\ login' = [login EXCEPT ![g] = a] /\ a.stage = s
                                /\ a.link = login[g].link /\ a.storage = login[g].storage
<1> DEFINE a == [login[g] EXCEPT !.stage = s]
<1>1. a \in LoginRecord /\ a.stage = s /\ a.link = login[g].link /\ a.storage = login[g].storage
  BY DEF PodInv, PodTypes, LoginRecord
<1>2. login' = [login EXCEPT ![g] = a]
  BY DEF To
<1> HIDE DEF a
<1>3. QED
  BY <1>1, <1>2

\* A login that only changes its stage, and not to one that binds.
LEMMA StageMoves ==
  ASSUME PodInv, LinksStay, shared \subseteq shared', UNCHANGED <<pod, isolate, objects>>,
         NEW g \in Logins, NEW s \in LoginStages, To(g, s), login[g].stage # "none",
         s \in {"shared", "linked"} => login[g].storage \in shared',
         \A k, t : s = "linked" /\ k = login[g].link /\ t = login[g].storage => Completed(k, t)'
  PROVE  PodInv'
<1>1. PICK a \in LoginRecord : /\ login' = [login EXCEPT ![g] = a] /\ a.stage = s
                               /\ a.link = login[g].link /\ a.storage = login[g].storage
  BY StageOf
<1>2. login[g].link \in Links /\ login[g].storage \in Storages
  BY DEF PodInv, LoginsBound
<1>3. PodTypes' /\ LoginsBound'
  BY <1>1, <1>2, LoginMoves
<1>4. QED
  BY <1>3, BoundStays DEF PodInv

\* A link only starts, expires or takes another login while it is not completed.
LEMMA LinkEdits ==
  ASSUME PodInv, NEW l \in Links, LinkStart(l) \/ LinkExpires(l)
  PROVE  PodInv'
<1>1. link[l] \in LinkRecord /\ link[l].state # "linked"
  BY DEF PodInv, PodTypes, LinkStart, LinkExpires
<1>2. PICK a \in LinkRecord : link' = [link EXCEPT ![l] = a]
  <2>1. [link[l] EXCEPT !.state = "pending"] \in LinkRecord /\ [link[l] EXCEPT !.expired = TRUE] \in LinkRecord
    BY <1>1 DEF LinkRecord
  <2>2. \/ link' = [link EXCEPT ![l] = [link[l] EXCEPT !.state = "pending"]]
        \/ link' = [link EXCEPT ![l] = [link[l] EXCEPT !.expired = TRUE]]
    BY DEF LinkStart, LinkExpires
  <2>3. QED
    BY <2>1, <2>2
<1>3. LinksStay
  BY <1>1, <1>2, LinkMoves
<1>4. UNCHANGED <<login, pod, shared, isolate, objects>>
  BY DEF LinkStart, LinkExpires
<1>5. LoginsBound' /\ LinksBound'
  BY <1>3, <1>4, BoundStays
<1>6. QED
  BY <1>3, <1>4, <1>5 DEF PodInv, PodTypes, LinksStay

\* Every step of a login keeps what it and its link are bound to.
LEMMA LoginSteps ==
  ASSUME PodInv, NEW g \in Logins, LoginStep(g)
  PROVE  PodInv'
<1> DEFINE l == login[g].link
<1>a. login[g].stage # "none" => l \in Links /\ login[g].storage \in Storages
  BY DEF PodInv, LoginsBound
<1>b. UNCHANGED link => LinksStay
  BY DEF LinksStay, PodInv, PodTypes
<1>1. CASE Continue(g)
  <2>1. PICK k \in Links, s \in Storages :
           login' = [login EXCEPT ![g] = [stage |-> "chosen", link |-> k, storage |-> s]]
    BY <1>1 DEF Continue
  <2> DEFINE a == [stage |-> "chosen", link |-> k, storage |-> s]
  <2>2. a \in LoginRecord /\ a.stage = "chosen" /\ a.link \in Links /\ a.storage \in Storages
    BY DEF LoginRecord, LoginStages
  <2>3. login' = [login EXCEPT ![g] = a]
    BY <2>1
  <2> HIDE DEF a
  <2>4. UNCHANGED <<link, pod, shared, isolate, objects>>
    BY <1>1 DEF Continue
  <2>5. PodTypes' /\ LoginsBound'
    BY <2>2, <2>3, <2>4, <1>b, LoginMoves
  <2>6. QED
    BY <2>4, <2>5, <1>b, BoundStays DEF PodInv
<1>2. CASE LinkBegin(g)
  <2>1. LinksStay
    <3>1. CASE link[l].state = "pending"
      <4> DEFINE a == [link[l] EXCEPT !.logins = Latest(Append(link[l].logins, g))]
      <4>1. l \in Links /\ link[l] \in LinkRecord
        BY <1>2, <1>a DEF LinkBegin, PodInv, PodTypes
      <4>2. Latest(Append(link[l].logins, g)) \in Seq(Logins)
        <5>1. Append(link[l].logins, g) \in Seq(Logins)
          BY <4>1 DEF LinkRecord
        <5>2. \A s \in Seq(Logins) : Latest(s) \in Seq(Logins)
          BY SubSeqProperties DEF Latest
        <5>3. QED
          BY <5>1, <5>2
      <4>3. a \in LinkRecord
        BY <4>1, <4>2 DEF LinkRecord
      <4>4. link' = [link EXCEPT ![l] = a]
        BY <1>2, <3>1 DEF LinkBegin
      <4> HIDE DEF a, l
      <4>5. QED
        BY <3>1, <4>1, <4>3, <4>4, LinkMoves
    <3>2. CASE link[l].state # "pending"
      BY <1>2, <1>b, <3>2 DEF LinkBegin
    <3>3. QED
      BY <3>1, <3>2
  <2>2. \E s \in LoginStages : To(g, s) /\ s \notin {"shared", "linked"}
    BY <1>2 DEF LinkBegin, LoginStages
  <2>3. QED
    BY <1>2, <2>1, <2>2, StageMoves DEF LinkBegin
<1>3. CASE CallbackStarts(g) \/ TokenAnswered(g)
  <2>1. \E s \in LoginStages : To(g, s) /\ s \notin {"shared", "linked"}
    BY <1>3 DEF CallbackStarts, TokenAnswered, LoginStages
  <2>2. login[g].stage # "none" /\ UNCHANGED <<link, pod, shared, isolate, objects>>
    BY <1>3 DEF CallbackStarts, TokenAnswered
  <2>3. QED
    BY <2>1, <2>2, <1>b, StageMoves
<1>4. CASE Shares(g)
  <2>1. \E s \in LoginStages : To(g, s) /\ s # "linked" /\ (s = "shared" => login[g].storage \in shared')
    BY <1>4 DEF Shares, LoginStages
  <2>2. login[g].stage # "none" /\ shared \subseteq shared' /\ UNCHANGED <<link, pod, isolate, objects>>
    BY <1>4 DEF Shares
  <2>3. QED
    BY <2>1, <2>2, <1>b, StageMoves
<1>5. CASE LinkComplete(g)
  <2>1. /\ login[g].stage = "shared" /\ l \in Links /\ login[g].storage \in Storages
        /\ login[g].storage \in shared /\ UNCHANGED <<pod, shared, isolate, objects>>
    BY <1>5, <1>a DEF LinkComplete, PodInv, LoginsBound
  <2>2. CASE MayComplete(l)
    <3> DEFINE a == [NoLink EXCEPT !.state = "linked", !.storage = login[g].storage]
    <3>1. a \in LinkRecord /\ a.state = "linked" /\ a.storage = login[g].storage
      BY <2>1, NoLinkIsRecord DEF LinkRecord
    <3>2. link' = [link EXCEPT ![l] = a] /\ link[l].state # "linked"
      BY <1>5, <2>2 DEF LinkComplete, MayComplete
    <3> HIDE DEF a
    <3>3. LinksStay /\ link'[l] = a
      BY <2>1, <3>1, <3>2, LinkMoves
    <3>4. ASSUME NEW k, NEW t, k = l, t = login[g].storage PROVE Completed(k, t)'
      BY <2>1, <3>1, <3>3, <3>4 DEF Completed
    <3>5. \E s \in LoginStages : To(g, s) /\ s \in {"linked", "over"}
      BY <1>5, <2>2 DEF LinkComplete, LoginStages
    <3>6. QED
      BY <2>1, <3>3, <3>4, <3>5, StageMoves
  <2>3. CASE ~MayComplete(l)
    <3>1. To(g, "over") /\ "over" \in LoginStages /\ UNCHANGED link
      BY <1>5, <2>3 DEF LinkComplete, LoginStages
    <3>2. QED
      BY <2>1, <3>1, <1>b, StageMoves
  <2>4. QED
    BY <2>2, <2>3
<1>6. CASE PodSet(g)
  <2>1. /\ pod' = [id |-> l, storage |-> login[g].storage] /\ UNCHANGED <<link, shared, isolate, objects>>
        /\ Completed(l, login[g].storage) /\ login[g].storage \in shared
        /\ To(g, "over") /\ login[g].stage # "none"
    BY <1>6 DEF PodSet, PodInv, LoginsBound
  <2>2. PICK a \in LoginRecord : /\ login' = [login EXCEPT ![g] = a] /\ a.stage = "over"
                                 /\ a.link = login[g].link /\ a.storage = login[g].storage
    BY <2>1, StageOf DEF LoginStages
  <2>3. PodTypes' /\ LoginsBound'
    BY <2>1, <2>2, <1>a, <1>b, LoginMoves
  <2>4. pod'.id = l /\ pod'.storage = login[g].storage
    BY <2>1
  <2>5. \A k, s : Completed(k, s) => Completed(k, s)'
    BY <2>1 DEF Completed
  <2>6. LinksBound'
    BY <2>1, <2>4, <2>5 DEF PodInv, LinksBound
  <2>7. QED
    BY <2>3, <2>6 DEF PodInv
<1>7. QED
  BY <1>1, <1>2, <1>3, <1>4, <1>5, <1>6 DEF LoginStep

\* An object is put only to the storage of a completed link.
LEMMA PodPuts ==
  ASSUME PodInv, NEW i \in Isolates, PodPut(i)
  PROVE  PodInv'
<1> DEFINE l == pod.id
           s == PodBase(i, l)
<1>1. l \in Links /\ Completed(l, pod.storage)
  BY DEF PodPut, PodInv, LinksBound, Completed
<1>2. s = pod.storage /\ s \in Storages \union {NoStorage}
  BY <1>1 DEF PodBase, PodInv, PodTypes, LinkRecord, LinksBound, Completed
<1>3. /\ isolate' = [isolate EXCEPT ![i][l] = s] /\ objects' = objects \union {<<l, s>>}
      /\ UNCHANGED <<link, login, pod, shared>>
  BY DEF PodPut
<1> HIDE DEF l, s
<1>4. /\ isolate' \in [Isolates -> [Links -> Storages \union {NoStorage}]]
      /\ \A j \in Isolates, k \in Links : isolate'[j][k] = isolate[j][k] \/ (k = l /\ isolate'[j][k] = s)
  BY <1>1, <1>2, <1>3 DEF PodInv, PodTypes
<1>5. \A k, t : Completed(k, t)' <=> Completed(k, t)
  BY <1>3 DEF Completed
<1>6. LinksBound'
  BY <1>1, <1>2, <1>3, <1>4, <1>5 DEF PodInv, LinksBound
<1>7. LoginsBound'
  BY <1>3, <1>5 DEF PodInv, LoginsBound
<1>8. QED
  BY <1>3, <1>4, <1>6, <1>7 DEF PodInv, PodTypes

\* Every step keeps the pods bound.
LEMMA NextPod == PodInv /\ [PodNext]_podVars => PodInv'
<1> SUFFICES ASSUME PodInv, [PodNext]_podVars PROVE PodInv'
  OBVIOUS
<1>1. CASE \E l \in Links : LinkStart(l) \/ LinkExpires(l)
  BY <1>1, LinkEdits
<1>2. CASE \E g \in Logins : LoginStep(g)
  BY <1>2, LoginSteps
<1>3. CASE \E i \in Isolates : PodPut(i)
  BY <1>3, PodPuts
<1>4. CASE PodClear
  BY <1>4 DEF PodClear, PodInv, PodTypes, LoginsBound, LinksBound, Completed
<1>5. CASE UNCHANGED podVars
  BY <1>5 DEF podVars, PodInv, PodTypes, LoginsBound, LinksBound, Completed
<1>6. QED
  BY <1>1, <1>2, <1>3, <1>4, <1>5 DEF PodNext

\* The owner's pod is the storage its link was completed with and a sign-in
\* shared, and every isolate finds an object where another put it, for every
\* number of logins, links, storages and isolates (identity.js linkComplete,
\* pod.js podBase).
THEOREM AlwaysPodBound == PodSpec => []PodBound
<1>1. PodInv => PodBound
  <2> SUFFICES ASSUME PodInv PROVE PodBound
    OBVIOUS
  <2>1. ASSUME NEW o \in objects, NEW i \in Isolates PROVE PodBase(i, o[1]) = o[2]
    BY DEF PodInv, LinksBound, Completed, PodBase
  <2>2. QED
    BY <2>1 DEF PodBound, PodInv, LinksBound, Completed
<1>2. QED
  BY <1>1, InitPod, NextPod, PTL DEF PodSpec

-----------------------------------------------------------------------------
(* The feed of changes *)

\* The feed of changes by itself.
FeedSpec == FeedInit /\ [][FeedNext]_feedVars

RequestRecord == [stage : {"idle", "working", "worked"}, before : Stamps \union {""}, at : Nat]

RoomsRecord == [index : [Rooms -> Nat \union {Untouched}], told : Nat \union {Untouched}, noting : BOOLEAN]

FeedTypes ==
    /\ instant \in Nat /\ feed \in SUBSET Nat /\ failed \in SUBSET Nat
    /\ row \in [stamp : Stamps, told : Stamps, seen : Stamps \union {""}]
    /\ request \in [Requests -> RequestRecord]
    /\ rooms \in RoomsRecord
    /\ \A e \in feed \union failed : e <= instant

\* What became of the note of instant u.
Reported(u) ==
    \/ u \in feed \union failed
    \/ u + Retention < instant
    \/ rooms.noting /\ u = instant /\ u = rooms.told

\* Every touch was told, or one a little before it was.
TouchesReported ==
    /\ rooms.told # Untouched => rooms.told <= instant /\ Reported(rooms.told)
    /\ rooms.noting => rooms.told # Untouched
    /\ \A r \in Rooms : rooms.index[r] # Untouched =>
         /\ rooms.index[r] <= instant
         /\ \E u \in Nat : u <= instant /\ rooms.index[r] - Every < u /\ Reported(u)

\* The operation that changed the row last has still to note it.
RowReported ==
    \/ row.stamp \in {row.told, row.seen}
    \/ \E q \in Requests : request[q].stage = "worked" /\ request[q].before = row.seen

PollRecord == [stage : {"idle", "reading", "done"}, cursor : Nat, began : SUBSET Nat, read : SUBSET Nat]

\* What a scan has behind its cursor it has read, and what it found at its start
\* and the feed no longer holds is past the retention, so it does not come back.
Scanned ==
    /\ poll \in PollRecord
    /\ poll.stage \in {"reading", "done"} => \A e \in poll.began : e \in feed \/ e + Retention < instant
    /\ poll.stage = "reading" => \A e \in poll.began \intersect feed : e < poll.cursor => e \in poll.read
    /\ poll.stage = "done" => poll.began \intersect feed \subseteq poll.read

FeedInv == FeedTypes /\ TouchesReported /\ RowReported /\ Scanned

\* The periods are positive, and a room tells of itself before its last note ages.
LEMMA FeedBounds ==
  /\ Every \in Nat /\ Retention \in Nat /\ PageMax \in Nat /\ Every > 0 /\ Retention > 0 /\ PageMax > 0
  /\ Every < Retention
<1>1. Every \in Nat \ {0} /\ Retention \in Nat \ {0} /\ PageMax \in Nat \ {0}
  BY FeedAssumption
<1>2. QED
  BY <1>1, FeedAssumption

\* A poll nobody began is a poll.
LEMMA NoPollIsRecord == NoPoll \in PollRecord /\ NoPoll.stage = "idle"
  BY DEF NoPoll, PollRecord

\* Nothing has changed at first.
LEMMA InitFeed == FeedInit => FeedInv
<1> SUFFICES ASSUME FeedInit PROVE FeedInv
  OBVIOUS
<1>1. NoRequest \in RequestRecord
  BY DEF NoRequest, RequestRecord
<1>2. rooms \in RoomsRecord /\ rooms.told = Untouched /\ ~rooms.noting /\ \A r \in Rooms : rooms.index[r] = Untouched
  BY DEF FeedInit, RoomsRecord
<1>3. FeedTypes
  <2>1. row \in [stamp : Stamps, told : Stamps, seen : Stamps \union {""}]
    <3>1. PICK s \in Stamps : row = [stamp |-> s, told |-> s, seen |-> s]
      BY DEF FeedInit
    <3>2. QED
      BY <3>1
  <2>2. request \in [Requests -> RequestRecord]
    BY <1>1 DEF FeedInit
  <2>3. QED
    BY <1>2, <2>1, <2>2 DEF FeedInit, FeedTypes
<1>4. TouchesReported
  BY <1>2 DEF TouchesReported
<1>5. RowReported /\ Scanned
  <2>1. PICK s \in Stamps : row = [stamp |-> s, told |-> s, seen |-> s]
    BY DEF FeedInit
  <2>2. RowReported
    BY <2>1 DEF RowReported
  <2>3. QED
    BY <2>2, NoPollIsRecord DEF FeedInit, Scanned
<1>6. QED
  BY <1>3, <1>4, <1>5 DEF FeedInv

\* A note adds its instant to the feed or to what is lost; only entries past
\* the retention go.
LEMMA NoteMoves ==
  ASSUME FeedInv, Noted, UNCHANGED instant
  PROVE  /\ feed' \in SUBSET Nat /\ failed' \in SUBSET Nat /\ \A e \in feed' \union failed' : e <= instant'
         /\ instant \in feed' \union failed'
         /\ feed' \subseteq feed \union {instant}
         /\ \A u \in Nat : u \in feed \union failed => u \in feed' \union failed' \/ u + Retention < instant'
         /\ \A u \in Nat : u \in feed => u \in feed' \/ u + Retention < instant'
<1>1. instant \in Nat /\ feed \in SUBSET Nat /\ failed \in SUBSET Nat /\ \A e \in feed \union failed : e <= instant
  BY DEF FeedInv, FeedTypes
<1>2. CASE Appends /\ UNCHANGED failed
  <2>1. feed' = {e \in feed : e >= instant - Retention} \union {instant}
    BY <1>2 DEF Appends
  <2>2. feed' \in SUBSET Nat /\ feed' \subseteq feed \union {instant} /\ instant \in feed'
    BY <1>1, <2>1
  <2>3. \A e \in feed' : e <= instant
    BY <1>1, <2>2
  <2>4. ASSUME NEW u \in Nat, u \in feed, u \notin feed' PROVE u + Retention < instant
    <3>1. ~(u >= instant - Retention)
      BY <2>1, <2>4
    <3>2. QED
      BY <1>1, <3>1, FeedBounds
  <2>5. QED
    BY <1>1, <1>2, <2>2, <2>3, <2>4
<1>3. CASE failed' = failed \union {instant} /\ UNCHANGED feed
  BY <1>1, <1>3
<1>4. QED
  BY <1>2, <1>3 DEF Noted

\* Nothing that was reported is forgotten early.
LEMMA ReportedStays ==
  ASSUME FeedInv,
         instant' \in Nat, instant <= instant',
         \A u \in Nat : u \in feed \union failed => u \in feed' \union failed' \/ u + Retention < instant',
         rooms.noting => (rooms'.noting /\ instant' = instant /\ rooms'.told = rooms.told) \/ instant \in feed' \union failed'
  PROVE  \A u \in Nat : u <= instant /\ Reported(u) => u <= instant' /\ Reported(u)'
<1> SUFFICES ASSUME NEW u \in Nat, u <= instant, Reported(u) PROVE u <= instant' /\ Reported(u)'
  OBVIOUS
<1>1. instant \in Nat
  BY DEF FeedInv, FeedTypes
<1>2. CASE u \in feed \union failed
  BY <1>1, <1>2 DEF Reported
<1>3. CASE u + Retention < instant
  BY <1>1, <1>3, FeedBounds DEF Reported
<1>4. CASE rooms.noting /\ u = instant /\ u = rooms.told
  <2>1. CASE rooms'.noting /\ instant' = instant /\ rooms'.told = rooms.told
    BY <1>4, <2>1 DEF Reported
  <2>2. CASE instant \in feed' \union failed'
    BY <1>1, <1>4, <2>2 DEF Reported
  <2>3. QED
    BY <1>4, <2>1, <2>2
<1>5. QED
  BY <1>2, <1>3, <1>4 DEF Reported

\* A step that leaves the room index as it is.
LEMMA TouchesStay ==
  ASSUME FeedInv, FeedTypes', instant <= instant',
         \A u \in Nat : u \in feed \union failed => u \in feed' \union failed' \/ u + Retention < instant',
         rooms.noting => (rooms'.noting /\ instant' = instant) \/ instant \in feed' \union failed',
         rooms'.told = rooms.told, rooms'.noting => rooms.noting,
         \A r \in Rooms : rooms'.index[r] \in {rooms.index[r], Untouched}
  PROVE  TouchesReported'
<1>1. \A u \in Nat : u <= instant /\ Reported(u) => u <= instant' /\ Reported(u)'
  BY ReportedStays DEF FeedTypes
<1>2. rooms.told # Untouched => rooms.told \in Nat /\ rooms.told <= instant /\ Reported(rooms.told)
  BY DEF FeedInv, FeedTypes, TouchesReported, RoomsRecord
<1>3. rooms'.told # Untouched => rooms'.told <= instant' /\ Reported(rooms.told)'
  <2> SUFFICES ASSUME rooms'.told # Untouched PROVE rooms'.told <= instant' /\ Reported(rooms.told)'
    OBVIOUS
  <2> DEFINE v == rooms.told
  <2>1. \E w \in Nat : w = rooms.told /\ w <= instant /\ Reported(w)
    BY <1>2
  <2>2. PICK w \in Nat : w = rooms.told /\ w <= instant' /\ Reported(w)'
    BY <1>1, <2>1
  <2>3. w = rooms'.told
    BY <2>2
  <2>4. QED
    BY <2>2, <2>3 DEF Reported
<1>4. rooms'.noting => rooms'.told # Untouched
  BY DEF FeedInv, TouchesReported
<1>5. ASSUME NEW r \in Rooms, rooms'.index[r] # Untouched
      PROVE  rooms'.index[r] <= instant' /\ \E u \in Nat : u <= instant' /\ rooms'.index[r] - Every < u /\ Reported(u)'
  <2>1. rooms'.index[r] = rooms.index[r]
    BY <1>5
  <2>2. /\ rooms.index[r] <= instant /\ rooms.index[r] \in Nat
        /\ \E u \in Nat : u <= instant /\ rooms.index[r] - Every < u /\ Reported(u)
    BY <1>5, <2>1 DEF FeedInv, FeedTypes, TouchesReported, RoomsRecord
  <2>3. instant \in Nat /\ instant' \in Nat
    BY DEF FeedInv, FeedTypes
  <2>4. QED
    BY <1>1, <2>1, <2>2, <2>3
<1>6. QED
  BY <1>3, <1>4, <1>5 DEF TouchesReported

\* An entry of the scan that is no longer in the feed is past the retention.
\* Nothing that a scan has still to read comes back behind its cursor.
LEMMA ScanStays ==
  ASSUME FeedInv, instant' \in Nat, instant <= instant', UNCHANGED poll,
         feed' \subseteq feed \union {instant},
         \A u \in Nat : u \in feed => u \in feed' \/ u + Retention < instant'
  PROVE  Scanned'
<1>1. instant \in Nat /\ feed \in SUBSET Nat
  BY DEF FeedInv, FeedTypes
<1>2. CASE poll.stage \notin {"reading", "done"}
  BY <1>2 DEF FeedInv, Scanned
<1>3. CASE poll.stage \in {"reading", "done"}
  <2>1. /\ poll.began \in SUBSET Nat
        /\ \A e \in poll.began : e \in feed \/ e + Retention < instant
    BY <1>3 DEF FeedInv, Scanned, PollRecord
  <2>2. poll.began \intersect feed' \subseteq poll.began \intersect feed
    BY <1>1, <2>1, FeedBounds
  <2>3. ASSUME NEW e \in poll.began PROVE e \in feed' \/ e + Retention < instant'
    BY <1>1, <2>1, FeedBounds
  <2>4. QED
    BY <1>3, <2>1, <2>2, <2>3 DEF FeedInv, Scanned
<1>4. QED
  BY <1>2, <1>3

\* The operations of the Paste cell.
LEMMA RequestMoves ==
  ASSUME FeedInv, NEW q \in Requests, RequestStarts(q) \/ RowChanges(q) \/ RequestEnds(q)
  PROVE  FeedInv'
<1> USE DEF FeedInv
<1>1. UNCHANGED <<instant, rooms, poll>>
  BY DEF RequestStarts, RowChanges, RequestEnds
<1>a. instant \in Nat /\ instant' \in Nat /\ instant <= instant'
  <2>1. instant \in Nat
    BY DEF FeedTypes
  <2>2. QED
    BY <1>1, <2>1
<1>2. /\ feed' \in SUBSET Nat /\ failed' \in SUBSET Nat /\ \A e \in feed' \union failed' : e <= instant'
      /\ feed' \subseteq feed \union {instant}
      /\ \A u \in Nat : u \in feed \union failed => u \in feed' \union failed' \/ u + Retention < instant'
      /\ \A u \in Nat : u \in feed => u \in feed' \/ u + Retention < instant'
  <2>1. CASE UNCHANGED <<feed, failed>>
    BY <1>1, <2>1 DEF FeedTypes
  <2>2. CASE Noted
    BY <1>1, <2>2, NoteMoves
  <2>3. QED
    BY <2>1, <2>2 DEF RequestStarts, RowChanges, RequestEnds
<1>3. row \in [stamp : Stamps, told : Stamps, seen : Stamps \union {""}] /\ request[q] \in RequestRecord
  BY DEF FeedTypes
<1>4. row' \in [stamp : Stamps, told : Stamps, seen : Stamps \union {""}]
  <2>1. CASE RowChanges(q)
    BY <1>3, <2>1 DEF RowChanges, RequestRecord
  <2>2. CASE RequestStarts(q) \/ RequestEnds(q)
    BY <1>3, <2>2 DEF RequestStarts, RequestEnds
  <2>3. QED
    BY <2>1, <2>2
<1>5. PICK a \in RequestRecord :
         /\ request' = [request EXCEPT ![q] = a]
         /\ RequestStarts(q) => a.stage = "working"
         /\ RowChanges(q) => a.stage = "worked" /\ a.before = request[q].before
         /\ RequestEnds(q) => a.stage = "idle"
  <2>1. CASE RequestStarts(q)
    <3> DEFINE a == [stage |-> "working", before |-> row.stamp, at |-> instant]
    <3>1. a \in RequestRecord /\ a.stage = "working"
      BY <1>3 DEF RequestRecord, FeedTypes
    <3>2. request' = [request EXCEPT ![q] = a] /\ request[q].stage = "idle"
      BY <2>1 DEF RequestStarts
    <3> HIDE DEF a
    <3>3. ~RowChanges(q) /\ ~RequestEnds(q)
      BY <3>2 DEF RowChanges, RequestEnds
    <3>4. QED
      BY <3>1, <3>2, <3>3
  <2>2. CASE RowChanges(q)
    <3> DEFINE a == [request[q] EXCEPT !.stage = "worked"]
    <3>1. a \in RequestRecord /\ a.stage = "worked" /\ a.before = request[q].before
      BY <1>3 DEF RequestRecord
    <3>2. request' = [request EXCEPT ![q] = a] /\ request[q].stage = "working"
      BY <2>2 DEF RowChanges
    <3> HIDE DEF a
    <3>3. ~RequestStarts(q) /\ ~RequestEnds(q)
      BY <3>2 DEF RequestStarts, RequestEnds
    <3>4. QED
      BY <3>1, <3>2, <3>3
  <2>3. CASE RequestEnds(q)
    <3>1. NoRequest \in RequestRecord /\ NoRequest.stage = "idle"
      BY DEF NoRequest, RequestRecord
    <3>2. request' = [request EXCEPT ![q] = NoRequest] /\ request[q].stage = "worked"
      BY <2>3 DEF RequestEnds
    <3>3. ~RequestStarts(q) /\ ~RowChanges(q)
      BY <3>2 DEF RequestStarts, RowChanges
    <3>4. QED
      BY <3>1, <3>2, <3>3
  <2>4. QED
    BY <2>1, <2>2, <2>3
<1>6. request' \in [Requests -> RequestRecord] /\ request'[q] = a /\ \A p \in Requests \ {q} : request'[p] = request[p]
  BY <1>5 DEF FeedTypes
<1>7. FeedTypes'
  BY <1>1, <1>2, <1>4, <1>6 DEF FeedTypes
<1>8. TouchesReported'
  BY <1>1, <1>a, <1>2, <1>7, TouchesStay
<1>9. Scanned'
  BY <1>1, <1>a, <1>2, ScanStays
<1>10. RowReported'
  <2>1. CASE RequestStarts(q)
    <3>1. UNCHANGED row /\ request[q].stage = "idle"
      BY <2>1 DEF RequestStarts
    <3>2. QED
      BY <1>6, <3>1 DEF RowReported
  <2>2. CASE RowChanges(q)
    <3>1. request[q].stage = "working" /\ a.stage = "worked" /\ a.before = request[q].before
      BY <1>5, <2>2 DEF RowChanges
    <3>2. row' = row \/ row'.seen = a.before
      BY <1>3, <2>2, <3>1 DEF RowChanges
    <3>3. QED
      BY <1>6, <3>1, <3>2 DEF RowReported
  <2>3. CASE RequestEnds(q)
    <3>1. CASE row.stamp # request[q].before
      BY <1>3, <2>3, <3>1 DEF RequestEnds, RowReported
    <3>2. CASE row.stamp = request[q].before
      <4>1. UNCHANGED row
        BY <2>3, <3>2 DEF RequestEnds
      <4>2. QED
        BY <1>6, <3>2, <4>1 DEF RowReported
    <3>3. QED
      BY <3>1, <3>2
  <2>4. QED
    BY <2>1, <2>2, <2>3
<1>11. QED
  BY <1>7, <1>8, <1>9, <1>10

\* The touches of the room index.
LEMMA TouchMoves ==
  ASSUME FeedInv, (\E r \in Rooms : TouchRoom(r) \/ IndexDrop(r)) \/ TouchTold
  PROVE  FeedInv'
<1> USE DEF FeedInv
<1>1. UNCHANGED <<instant, row, request, poll>>
  BY DEF TouchRoom, IndexDrop, TouchTold
<1>2. RowReported'
  BY <1>1 DEF RowReported
<1>3. rooms \in RoomsRecord /\ instant \in Nat
  BY DEF FeedTypes
<1>4. CASE TouchTold
  <2>1. rooms' \in RoomsRecord /\ ~rooms'.noting /\ rooms'.told = rooms.told /\ rooms'.index = rooms.index
    BY <1>3, <1>4 DEF TouchTold, RoomsRecord
  <2>2. /\ feed' \in SUBSET Nat /\ failed' \in SUBSET Nat /\ \A e \in feed' \union failed' : e <= instant'
        /\ instant \in feed' \union failed'
        /\ feed' \subseteq feed \union {instant}
        /\ \A u \in Nat : u \in feed \union failed => u \in feed' \union failed' \/ u + Retention < instant'
        /\ \A u \in Nat : u \in feed => u \in feed' \/ u + Retention < instant'
    BY <1>1, <1>4, NoteMoves DEF TouchTold
  <2>3. FeedTypes'
    BY <1>1, <2>1, <2>2 DEF FeedTypes
  <2>4. TouchesReported'
    BY <1>1, <1>3, <2>1, <2>2, <2>3, TouchesStay
  <2>5. Scanned'
    BY <1>1, <1>3, <2>2, ScanStays
  <2>6. QED
    BY <1>2, <2>3, <2>4, <2>5
<1>5. ASSUME NEW r \in Rooms, TouchRoom(r) \/ IndexDrop(r) PROVE FeedInv'
  <2>1. UNCHANGED <<feed, failed>> /\ ~rooms.noting
    BY <1>5 DEF TouchRoom, IndexDrop
  <2>2. Scanned'
    BY <1>1, <1>3, <2>1, ScanStays
  <2>3. CASE IndexDrop(r)
    <3>1. /\ rooms' \in RoomsRecord /\ ~rooms'.noting /\ rooms'.told = rooms.told
          /\ \A s \in Rooms : rooms'.index[s] \in {rooms.index[s], Untouched}
      BY <1>3, <2>1, <2>3 DEF IndexDrop, RoomsRecord
    <3>2. FeedTypes'
      BY <1>1, <2>1, <3>1 DEF FeedTypes
    <3>3. TouchesReported'
      BY <1>1, <1>3, <2>1, <3>1, <3>2, TouchesStay
    <3>4. QED
      BY <1>2, <2>2, <3>2, <3>3
  <2>4. CASE TouchRoom(r)
    <3>1. /\ rooms' \in RoomsRecord /\ rooms'.noting \in BOOLEAN
          /\ rooms'.index = [rooms.index EXCEPT ![r] = instant]
          /\ rooms'.told = IF TellsLately THEN instant ELSE rooms.told
          /\ rooms'.noting = TellsLately
      BY <1>3, <2>4 DEF TouchRoom, Touched, TellsLately, RoomsRecord
    <3>2. FeedTypes'
      BY <1>1, <2>1, <3>1 DEF FeedTypes
    <3>3. \A u \in Nat : u <= instant /\ Reported(u) => u <= instant' /\ Reported(u)'
      BY <1>1, <1>3, <2>1, ReportedStays
    <3>4. /\ rooms'.told # Untouched /\ rooms'.told \in Nat /\ rooms'.told <= instant /\ instant - rooms'.told < Every
          /\ \A u \in Nat : u = rooms'.told => Reported(u)'
      <4>1. CASE TellsLately
        BY <1>1, <1>3, <3>1, <4>1, FeedBounds DEF Reported, Untouched
      <4>2. CASE ~TellsLately
        <5>1. rooms.told # Untouched /\ rooms.told \in Nat /\ instant - rooms.told < Every /\ rooms'.told = rooms.told
          BY <1>3, <3>1, <4>2, FeedBounds DEF TellsLately, RoomsRecord
        <5>2. rooms.told <= instant /\ Reported(rooms.told)
          BY <5>1 DEF TouchesReported
        <5>3. QED
          BY <3>3, <5>1, <5>2
      <4>3. QED
        BY <4>1, <4>2
    <3>5. TouchesReported'
      <4>1. \A u \in Nat : u = rooms'.told => u <= instant' /\ instant - Every < u /\ Reported(u)'
        BY <1>1, <1>3, <3>4, FeedBounds
      <4>2. Reported(rooms.told)'
        BY <3>4 DEF Reported
      <4>3. ASSUME NEW s \in Rooms, rooms'.index[s] # Untouched
            PROVE  rooms'.index[s] <= instant' /\ \E u \in Nat : u <= instant' /\ rooms'.index[s] - Every < u /\ Reported(u)'
        <5>1. CASE s = r
          BY <1>1, <1>3, <3>1, <3>4, <4>1, <5>1 DEF RoomsRecord
        <5>2. CASE s # r
          BY <1>1, <1>3, <3>1, <3>3, <4>3, <5>2 DEF RoomsRecord, TouchesReported
        <5>3. QED
          BY <5>1, <5>2
      <4>4. QED
        BY <1>1, <3>4, <4>2, <4>3 DEF TouchesReported
    <3>6. QED
      BY <1>2, <2>2, <3>2, <3>5
  <2>5. QED
    BY <1>5, <2>3, <2>4
<1>6. QED
  BY <1>4, <1>5

\* A page of a scan.
LEMMA PageMoves ==
  ASSUME FeedInv, PollStarts \/ PollPage \/ PollEnds
  PROVE  FeedInv'
<1> USE DEF FeedInv
<1>1. UNCHANGED <<instant, row, request, rooms, feed, failed>>
  BY DEF PollStarts, PollPage, PollEnds
<1>2. instant \in Nat /\ feed \in SUBSET Nat
  BY DEF FeedTypes
<1>3. FeedTypes' /\ TouchesReported' /\ RowReported'
  BY <1>1 DEF FeedTypes, TouchesReported, RowReported, Reported
<1>4. CASE PollEnds
  BY <1>3, <1>4, NoPollIsRecord DEF PollEnds, Scanned
<1>5. CASE PollStarts
  <2>1. PICK at \in {0, instant} :
           poll' = [stage |-> "reading", cursor |-> at, began |-> {e \in feed : e >= at}, read |-> {}]
    BY <1>5 DEF PollStarts
  <2>2. at \in Nat
    BY <1>2
  <2>3. /\ poll' \in PollRecord /\ poll'.stage = "reading" /\ poll'.cursor = at /\ poll'.began = {e \in feed : e >= at}
    BY <1>2, <2>1, <2>2 DEF PollRecord
  <2>4. ASSUME NEW e \in poll'.began PROVE e \in feed /\ ~(e < poll'.cursor)
    <3>1. e \in feed /\ e >= at
      BY <2>3
    <3>2. e \in Nat
      BY <1>2, <3>1
    <3>3. ~(e < at)
      BY <2>2, <3>1, <3>2
    <3>4. QED
      BY <2>3, <3>1, <3>3
  <2>5. Scanned'
    BY <1>1, <2>3, <2>4 DEF Scanned
  <2>6. QED
    BY <1>3, <2>5
<1>6. CASE PollPage
  <2> DEFINE rest == {e \in feed : e >= poll.cursor}
             left == {e \in rest : Cardinality({f \in rest : f < e}) >= PageMax}
             first == CHOOSE e \in left : \A f \in left : e <= f
  <2>1. /\ poll.stage = "reading"
        /\ poll' = [poll EXCEPT !.read = @ \union (rest \ left),
                    !.stage = IF left = {} THEN "done" ELSE @,
                    !.cursor = IF left = {} THEN @ ELSE first]
    BY <1>6 DEF PollPage
  <2>2. /\ poll.began \in SUBSET Nat /\ \A e \in poll.began : e \in feed \/ e + Retention < instant
        /\ poll.cursor \in Nat /\ \A e \in poll.began \intersect feed : e < poll.cursor => e \in poll.read
    BY <2>1 DEF Scanned, PollRecord
  <2>3. left \subseteq rest /\ rest \subseteq feed /\ left \in SUBSET Nat
    BY <1>2
  <2>4. \A e \in feed : e \in rest <=> e >= poll.cursor
    OBVIOUS
  <2> HIDE DEF rest, left
  <2>5. left # {} => first \in left /\ \A f \in left : first <= f
    <3> SUFFICES ASSUME left # {} PROVE first \in left /\ \A f \in left : first <= f
      OBVIOUS
    <3>1. \E e \in left : \A f \in left : e <= f
      BY <2>3, LowestExists
    <3>2. QED
      BY <3>1
  <2> HIDE DEF first
  <2>6. Scanned'
    <3>0. poll \in PollRecord
      BY DEF Scanned
    <3>1. CASE left = {}
      <4>1. poll' = [poll EXCEPT !.read = poll.read \union (rest \ left), !.stage = "done", !.cursor = poll.cursor]
        BY <2>1, <3>1
      <4>2. /\ poll' \in PollRecord /\ poll'.stage = "done" /\ poll'.began = poll.began
            /\ poll'.read = poll.read \union rest
        BY <1>2, <2>3, <3>0, <3>1, <4>1 DEF PollRecord
      <4>3. poll.began \intersect feed \subseteq poll.read \union rest
        BY <1>2, <2>2, <2>4
      <4>4. QED
        BY <1>1, <2>2, <4>2, <4>3 DEF Scanned
    <3>2. CASE left # {}
      <4>1. poll' = [poll EXCEPT !.read = poll.read \union (rest \ left), !.stage = poll.stage, !.cursor = first]
        BY <2>1, <3>2
      <4>2. first \in Nat
        BY <2>3, <2>5, <3>2
      <4>3. /\ poll' \in PollRecord /\ poll'.stage = "reading" /\ poll'.began = poll.began
            /\ poll'.read = poll.read \union (rest \ left) /\ poll'.cursor = first
        <5>1. DOMAIN poll = {"stage", "cursor", "began", "read"}
              /\ poll.began \in SUBSET Nat /\ poll.read \in SUBSET Nat /\ rest \in SUBSET Nat
          BY <1>2, <2>3, <3>0 DEF PollRecord
        <5>2. /\ poll'.stage = "reading" /\ poll'.began = poll.began
              /\ poll'.read = poll.read \union (rest \ left) /\ poll'.cursor = first
          BY <2>1, <4>1, <5>1
        <5>3. QED
          BY <2>1, <3>0, <4>1, <4>2, <5>1, <5>2 DEF PollRecord
      <4>4. ASSUME NEW e \in poll.began \intersect feed, e < first PROVE e \in poll.read \union (rest \ left)
        <5>1. e \notin left
          <6>1. e \in Nat
            BY <1>2, <4>4
          <6>2. ~(first <= e)
            BY <4>2, <4>4, <6>1
          <6>3. QED
            BY <2>5, <3>2, <6>2
        <5>2. QED
          BY <1>2, <2>2, <2>4, <4>4, <5>1
      <4>5. QED
        BY <1>1, <2>2, <4>3, <4>4 DEF Scanned
    <3>3. QED
      BY <3>1, <3>2
  <2>7. QED
    BY <1>3, <2>6
<1>7. QED
  BY <1>4, <1>5, <1>6

\* Every step keeps what is told, noted and scanned together.
LEMMA NextFeed == FeedInv /\ [FeedNext]_feedVars => FeedInv'
<1> SUFFICES ASSUME FeedInv, [FeedNext]_feedVars PROVE FeedInv'
  OBVIOUS
<1>1. CASE \E q \in Requests : RequestStarts(q) \/ RowChanges(q) \/ RequestEnds(q)
  BY <1>1, RequestMoves
<1>2. CASE (\E r \in Rooms : TouchRoom(r) \/ IndexDrop(r)) \/ TouchTold
  BY <1>2, TouchMoves
<1>3. CASE PollStarts \/ PollPage \/ PollEnds
  BY <1>3, PageMoves
<1>4. CASE InstantPasses
  <2> USE DEF FeedInv
  <2>1. /\ instant \in Nat /\ instant' = instant + 1 /\ ~rooms.noting
        /\ UNCHANGED <<row, request, rooms, feed, failed, poll>>
    BY <1>4 DEF InstantPasses, FeedTypes
  <2>2. FeedTypes'
    <3>1. \A e \in feed \union failed : e \in Nat /\ e <= instant
      BY DEF FeedTypes
    <3>2. \A e \in feed' \union failed' : e <= instant'
      BY <2>1, <3>1
    <3>3. instant' \in Nat
      BY <2>1
    <3>4. QED
      BY <2>1, <3>2, <3>3 DEF FeedTypes
  <2>3. TouchesReported'
    BY <2>1, <2>2, TouchesStay
  <2>4. Scanned'
    BY <2>1, ScanStays
  <2>5. RowReported'
    BY <2>1 DEF RowReported
  <2>6. QED
    BY <2>2, <2>3, <2>4, <2>5
<1>5. CASE UNCHANGED feedVars
  BY <1>5 DEF feedVars, FeedInv, FeedTypes, TouchesReported, Reported, RowReported, Scanned
<1>6. QED
  BY <1>1, <1>2, <1>3, <1>4, <1>5 DEF FeedNext

\* A scan of the feed finds every room touched lately, every row that changed
\* and every entry there was when it began, for every retention, period, page
\* and number of rooms and operations (paste.js noticed and touchRoom, feed.js
\* append and since).
THEOREM AlwaysFeedComplete == FeedSpec => []FeedComplete
<1>1. FeedInv => FeedComplete
  <2> SUFFICES ASSUME FeedInv PROVE FeedComplete
    OBVIOUS
  <2> USE DEF FeedInv
  <2>1. ASSUME NEW r \in Rooms, rooms.index[r] # Untouched, instant - rooms.index[r] <= Retention - Every, ~rooms.noting
        PROVE  Covers(feed, rooms.index[r]) \/ Covers(failed, rooms.index[r])
    <3>1. PICK u \in Nat : u <= instant /\ rooms.index[r] - Every < u /\ Reported(u)
      BY <2>1 DEF TouchesReported
    <3>2. instant \in Nat /\ rooms.index[r] \in Nat
      BY <2>1 DEF FeedTypes, RoomsRecord
    <3>3. ~(u + Retention < instant)
      BY <2>1, <3>1, <3>2, FeedBounds
    <3>4. u \in feed \union failed
      BY <2>1, <3>1, <3>3 DEF Reported
    <3>5. QED
      BY <3>1, <3>4 DEF Covers
  <2>2. (\A q \in Requests : request[q].stage = "idle") => row.stamp \in {row.told, row.seen}
    BY DEF RowReported
  <2>3. poll.stage = "done" => poll.began \intersect feed \subseteq poll.read
    BY DEF Scanned
  <2>4. QED
    BY <2>1, <2>2, <2>3 DEF FeedComplete
<1>2. QED
  BY <1>1, InitFeed, NextFeed, PTL DEF FeedSpec

-----------------------------------------------------------------------------
(* Purges tried again *)

\* The purges and their timers by themselves.
RepurgingSpec == RepurgingInit /\ [][RepurgingNext]_repurgeVars

TimerStates == {"none", "armed", "fired", "purging", "over"}

CallRecord == [stage : {"new", "purged", "over"}, host : Hosts \union {NoCall}, timer : TimerStates, due : Nat]

GateStates == {"admitting", "draining", "drained"}

RepurgeTypes ==
    /\ tick \in Nat
    /\ call \in [Calls -> CallRecord]
    /\ timersOf \in [Hosts -> Calls \union {NoCall}]
    /\ drainGate \in [state : GateStates, inflight : Nat]
    /\ asked \in [Hosts -> Nat \union {NotAsked}]

\* What the gate counts.
Busy == {c \in Calls : call[c].timer \in {"armed", "fired", "purging"}}

\* Every timer armed is the one its host's entry names, and a call arms one at most.
TimersNamed ==
    /\ \A c \in Calls : /\ call[c].stage # "new" => call[c].host \in Hosts
                        /\ call[c].timer # "none" => call[c].stage = "over"
                        /\ call[c].timer = "armed" => timersOf[call[c].host] = c
    /\ \A h \in Hosts : timersOf[h] \in Calls =>
         call[timersOf[h]].host = h /\ call[timersOf[h]].timer \in {"armed", "fired"}

\* The gate counts the timers, and admits until the shutdown takes them all.
Gated ==
    /\ IsFiniteSet(Busy) /\ drainGate.inflight = Cardinality(Busy)
    /\ drainGate.state # "admitting" => \A c \in Calls : call[c].timer # "armed"
    /\ closing = "no" => drainGate.state = "admitting"
    /\ closing # "no" => drainGate.state # "admitting"
    /\ closing = "over" => Busy = {}

\* The second purge of every host that was asked for.
Again == \A h \in Hosts : asked[h] # NotAsked /\ drainGate.state = "admitting" =>
    \E c \in Calls : call[c].host = h /\ call[c].timer # "none" /\ call[c].due >= asked[h] + RepurgeDelay

RepurgeInv == RepurgeTypes /\ TimersNamed /\ Gated /\ Again

\* No timer is armed at first, and the gate admits.
LEMMA InitRepurge ==
  ASSUME NoCall \notin Calls, RepurgingInit
  PROVE  RepurgeInv
<1>1. NewCall \in CallRecord /\ NewCall.stage = "new" /\ NewCall.timer = "none"
  BY DEF NewCall, CallRecord, TimerStates
<1>2. RepurgeTypes
  BY <1>1 DEF RepurgingInit, RepurgeTypes, GateStates
<1>3. Busy = {}
  BY <1>1 DEF RepurgingInit, Busy
<1>4. TimersNamed
  BY <1>1 DEF RepurgingInit, TimersNamed
<1>5. Gated
  <2>1. IsFiniteSet(Busy) /\ drainGate.inflight = Cardinality(Busy)
    BY <1>3, FS_EmptySet DEF RepurgingInit
  <2>2. closing = "no" /\ drainGate.state = "admitting"
    BY DEF RepurgingInit
  <2>3. QED
    BY <2>1, <2>2 DEF Gated
<1>6. Again
  BY DEF RepurgingInit, Again
<1>7. QED
  BY <1>2, <1>4, <1>5, <1>6 DEF RepurgeInv

\* A call that changes neither a timer nor a due instant.
LEMMA CallMoves ==
  ASSUME RepurgeInv, NEW c \in Calls, NEW a \in CallRecord, call' = [call EXCEPT ![c] = a]
  PROVE  /\ call' \in [Calls -> CallRecord] /\ call'[c] = a /\ \A d \in Calls \ {c} : call'[d] = call[d]
         /\ c \in Busy <=> call[c].timer \in {"armed", "fired", "purging"}
         /\ a.timer \in {"armed", "fired", "purging"} => Busy' = Busy \union {c}
         /\ a.timer \notin {"armed", "fired", "purging"} => Busy' = Busy \ {c}
  BY DEF RepurgeInv, RepurgeTypes, Busy

\* A purge that begins arms no timer and asks for none.
LEMMA PurgeStartMoves ==
  ASSUME RepurgeInv, NEW c \in Calls, PurgeStarts(c)
  PROVE  RepurgeInv'
<1> USE DEF RepurgeInv
<1>1. PICK h \in Hosts : call' = [call EXCEPT ![c].stage = "purged", ![c].host = h]
  BY DEF PurgeStarts
<1> DEFINE a == [call[c] EXCEPT !.stage = "purged", !.host = h]
<1>2. call[c] \in CallRecord /\ call[c].stage = "new"
  BY DEF PurgeStarts, RepurgeTypes
<1>3. a \in CallRecord /\ a.stage = "purged" /\ a.host = h /\ a.timer = call[c].timer /\ a.due = call[c].due
  BY <1>2 DEF CallRecord
<1>4. call' = [call EXCEPT ![c] = a]
  BY <1>1
<1> HIDE DEF a
<1>5. call[c].timer = "none"
  BY <1>2 DEF TimersNamed
<1>6. /\ call' \in [Calls -> CallRecord] /\ call'[c] = a /\ \A d \in Calls \ {c} : call'[d] = call[d]
      /\ Busy' = Busy
  <2>1. c \notin Busy /\ a.timer \notin {"armed", "fired", "purging"}
    BY <1>3, <1>5 DEF Busy
  <2>2. /\ call' \in [Calls -> CallRecord] /\ call'[c] = a /\ \A d \in Calls \ {c} : call'[d] = call[d]
        /\ Busy' = Busy \ {c}
    BY <1>3, <1>4, <2>1, CallMoves
  <2>3. QED
    BY <2>1, <2>2
<1>7. UNCHANGED <<tick, timersOf, drainGate, asked, closing>>
  BY DEF PurgeStarts
<1>8. RepurgeTypes'
  BY <1>6, <1>7 DEF RepurgeTypes
<1>9. TimersNamed'
  <2>1. \A k \in Hosts : timersOf[k] \in Calls => timersOf[k] # c
    BY <1>2, <1>5 DEF TimersNamed
  <2>2. QED
    BY <1>3, <1>5, <1>6, <1>7, <2>1 DEF TimersNamed
<1>10. Gated'
  BY <1>3, <1>5, <1>6, <1>7 DEF Gated
<1>11. Again'
  BY <1>3, <1>5, <1>6, <1>7 DEF Again
<1>12. QED
  BY <1>8, <1>9, <1>10, <1>11

\* A purge that is recorded leaves its host a timer due a delay later, as long
\* as the gate admits.
LEMMA PurgeRecordMoves ==
  ASSUME NoCall \notin Calls, RepurgeInv, NEW c \in Calls, PurgeRecords(c)
  PROVE  RepurgeInv'
<1> USE DEF RepurgeInv
<1> DEFINE h == call[c].host
           p == timersOf[h]
           due == tick + RepurgeDelay
<1>1. /\ call[c].stage = "purged" /\ asked' = [asked EXCEPT ![h] = tick] /\ UNCHANGED <<tick, closing>>
      /\ \/ /\ Armed(p)
            /\ call' = [call EXCEPT ![c].stage = "over", ![p].due = due]
            /\ UNCHANGED <<timersOf, drainGate>>
         \/ /\ ~Armed(p) /\ drainGate.state = "admitting" /\ drainGate' = AdmittedOne
            /\ call' = [call EXCEPT ![c].stage = "over", ![c].timer = "armed", ![c].due = due]
            /\ timersOf' = [timersOf EXCEPT ![h] = c]
         \/ /\ ~Armed(p) /\ drainGate.state # "admitting"
            /\ call' = [call EXCEPT ![c].stage = "over"]
            /\ UNCHANGED <<timersOf, drainGate>>
  BY DEF PurgeRecords
<1>2. /\ h \in Hosts /\ call[c].timer = "none" /\ call[c] \in CallRecord /\ tick \in Nat
      /\ due \in Nat /\ due >= tick + RepurgeDelay
  BY <1>1, RepurgingAssumption DEF RepurgeTypes, TimersNamed
<1>3. asked' \in [Hosts -> Nat \union {NotAsked}] /\ asked'[h] = tick /\ \A k \in Hosts \ {h} : asked'[k] = asked[k]
  BY <1>1, <1>2 DEF RepurgeTypes
<1>4. c \notin Busy /\ c # NoCall /\ \A k \in Hosts : timersOf[k] # c
  BY <1>2 DEF Busy, TimersNamed
<1> HIDE DEF due
<1>5. CASE Armed(p)
  <2>1. p \in Calls /\ call[p].timer = "armed" /\ p # c /\ call[p] \in CallRecord /\ call[p].host = h
    BY <1>2, <1>4, <1>5 DEF Armed, RepurgeTypes, TimersNamed
  <2> DEFINE a == [call[c] EXCEPT !.stage = "over"]
             b == [call[p] EXCEPT !.due = due]
  <2>2. /\ a \in CallRecord /\ a.stage = "over" /\ a.host = call[c].host /\ a.timer = "none" /\ a.due = call[c].due
        /\ b \in CallRecord /\ b.stage = call[p].stage /\ b.host = h /\ b.timer = "armed" /\ b.due = due
    BY <1>2, <2>1 DEF CallRecord
  <2>3. /\ call' = [[call EXCEPT ![c] = a] EXCEPT ![p] = b]
        /\ UNCHANGED <<timersOf, drainGate>>
    BY <1>1, <1>5, <2>1 DEF RepurgeTypes
  <2> HIDE DEF a, b
  <2>4. /\ call' \in [Calls -> CallRecord] /\ call'[c] = a /\ call'[p] = b
        /\ \A d \in Calls \ {c, p} : call'[d] = call[d]
    BY <2>1, <2>2, <2>3 DEF RepurgeTypes
  <2>5. \A d \in Calls : call'[d].timer = call[d].timer /\ call'[d].host = call[d].host
    BY <1>2, <2>1, <2>2, <2>4
  <2>6. Busy' = Busy
    BY <2>5 DEF Busy
  <2> HIDE DEF h, p
  <2>7. RepurgeTypes'
    BY <1>1, <1>3, <2>3, <2>4 DEF RepurgeTypes
  <2>8. TimersNamed'
    BY <1>1, <1>2, <2>1, <2>2, <2>3, <2>4, <2>5 DEF TimersNamed
  <2>9. Gated'
    BY <1>1, <2>3, <2>5, <2>6 DEF Gated
  <2>10. Again'
    BY <1>2, <1>3, <2>1, <2>2, <2>3, <2>4, <2>5 DEF Again
  <2>11. QED
    BY <2>7, <2>8, <2>9, <2>10
<1>6. CASE ~Armed(p) /\ drainGate.state = "admitting"
  <2> DEFINE a == [call[c] EXCEPT !.stage = "over", !.timer = "armed", !.due = due]
  <2>1. a \in CallRecord /\ a.stage = "over" /\ a.host = h /\ a.timer = "armed" /\ a.due = due
    BY <1>2 DEF CallRecord, TimerStates
  <2>2. /\ call' = [call EXCEPT ![c] = a] /\ timersOf' = [timersOf EXCEPT ![h] = c]
        /\ drainGate' = AdmittedOne
    BY <1>1, <1>6
  <2> HIDE DEF a
  <2>3. /\ call' \in [Calls -> CallRecord] /\ call'[c] = a /\ \A d \in Calls \ {c} : call'[d] = call[d]
        /\ Busy' = Busy \union {c}
    BY <2>1, <2>2, CallMoves
  <2>4. /\ timersOf' \in [Hosts -> Calls \union {NoCall}] /\ timersOf'[h] = c
        /\ \A k \in Hosts \ {h} : timersOf'[k] = timersOf[k]
    BY <1>2, <2>2 DEF RepurgeTypes
  <2>5. /\ drainGate' \in [state : GateStates, inflight : Nat]
        /\ drainGate'.state = "admitting" /\ drainGate'.inflight = drainGate.inflight + 1
    BY <1>6, <2>2 DEF AdmittedOne, RepurgeTypes
  <2>6. IsFiniteSet(Busy') /\ Cardinality(Busy') = Cardinality(Busy) + 1
    BY <1>4, <2>3, FS_AddElement DEF Gated
  <2>7. closing = "no"
    BY <1>6 DEF Gated
  <2>8. p \notin Calls \/ call[p].timer # "armed"
    BY <1>6 DEF Armed
  <2> HIDE DEF h, p
  <2>9. RepurgeTypes'
    BY <1>1, <1>3, <2>3, <2>4, <2>5 DEF RepurgeTypes
  <2>10. TimersNamed'
    <3>1. ASSUME NEW d \in Calls
          PROVE  /\ call'[d].stage # "new" => call'[d].host \in Hosts
                 /\ call'[d].timer # "none" => call'[d].stage = "over"
                 /\ call'[d].timer = "armed" => timersOf'[call'[d].host] = d
      <4>1. CASE d = c
        BY <1>2, <2>1, <2>3, <2>4, <4>1
      <4>2. CASE d # c
        BY <1>2, <2>3, <2>4, <2>8, <4>2 DEF TimersNamed, p
      <4>3. QED
        BY <4>1, <4>2
    <3>2. ASSUME NEW k \in Hosts, timersOf'[k] \in Calls
          PROVE  call'[timersOf'[k]].host = k /\ call'[timersOf'[k]].timer \in {"armed", "fired"}
      BY <1>4, <2>1, <2>3, <2>4, <3>2 DEF TimersNamed
    <3>3. QED
      BY <3>1, <3>2 DEF TimersNamed
  <2>11. Gated'
    BY <1>1, <2>5, <2>6, <2>7 DEF Gated
  <2>12. Again'
    BY <1>2, <1>3, <1>6, <2>1, <2>3 DEF Again
  <2>13. QED
    BY <2>9, <2>10, <2>11, <2>12
<1>7. CASE ~Armed(p) /\ drainGate.state # "admitting"
  <2> DEFINE a == [call[c] EXCEPT !.stage = "over"]
  <2>1. a \in CallRecord /\ a.stage = "over" /\ a.host = h /\ a.timer = "none"
    BY <1>2 DEF CallRecord
  <2>2. call' = [call EXCEPT ![c] = a] /\ UNCHANGED <<timersOf, drainGate>>
    BY <1>1, <1>7
  <2> HIDE DEF a
  <2>3. /\ call' \in [Calls -> CallRecord] /\ call'[c] = a /\ \A d \in Calls \ {c} : call'[d] = call[d]
        /\ Busy' = Busy \ {c}
    BY <2>1, <2>2, CallMoves
  <2>4. Busy' = Busy
    BY <1>4, <2>3
  <2> HIDE DEF h, p
  <2>5. RepurgeTypes'
    BY <1>1, <1>3, <2>2, <2>3 DEF RepurgeTypes
  <2>6. TimersNamed'
    BY <1>2, <1>4, <2>1, <2>2, <2>3 DEF TimersNamed
  <2>7. Gated' /\ Again'
    BY <1>1, <1>7, <2>1, <2>2, <2>3, <2>4 DEF Gated, Again
  <2>8. QED
    BY <2>5, <2>6, <2>7
<1>8. QED
  BY <1>5, <1>6, <1>7

\* A callback that starts, takes the mutex or ends.
LEMMA CallbackMoves ==
  ASSUME NoCall \notin Calls, RepurgeInv, NEW c \in Calls, TimerFires(c) \/ CallbackLocks(c) \/ CallbackEnds(c)
  PROVE  RepurgeInv'
<1> USE DEF RepurgeInv
<1>1. UNCHANGED <<tick, asked, closing>>
  BY DEF TimerFires, CallbackLocks, CallbackEnds
<1>2. /\ call[c] \in CallRecord /\ call[c].timer \in {"armed", "fired", "purging"}
      /\ call[c].host \in Hosts /\ call[c].stage = "over" /\ c \in Busy
  BY DEF TimerFires, CallbackLocks, CallbackEnds, Armed, RepurgeTypes, TimersNamed, Busy
<1>3. PICK s \in TimerStates : /\ call' = [call EXCEPT ![c].timer = s] /\ s \in {"fired", "purging", "over"}
                               /\ TimerFires(c) => s = "fired"
                               /\ ~TimerFires(c) => s # "fired"
  <2>1. CASE TimerFires(c)
    BY <2>1 DEF TimerFires, TimerStates
  <2>2. CASE ~TimerFires(c)
    BY <2>2 DEF CallbackLocks, CallbackEnds, TimerStates
  <2>3. QED
    BY <2>1, <2>2
<1> DEFINE a == [call[c] EXCEPT !.timer = s]
<1>4. a \in CallRecord /\ a.stage = "over" /\ a.host = call[c].host /\ a.timer = s /\ a.due = call[c].due
  BY <1>2 DEF CallRecord
<1>5. call' = [call EXCEPT ![c] = a]
  BY <1>3
<1> HIDE DEF a
<1>6. /\ call' \in [Calls -> CallRecord] /\ call'[c] = a /\ \A d \in Calls \ {c} : call'[d] = call[d]
      /\ s # "over" => Busy' = Busy \union {c}
      /\ s = "over" => Busy' = Busy \ {c}
  BY <1>3, <1>4, <1>5, CallMoves
<1>7. /\ drainGate' \in [state : GateStates, inflight : Nat]
      /\ drainGate'.state = "admitting" <=> drainGate.state = "admitting"
      /\ s # "over" => UNCHANGED drainGate
      /\ s = "over" => drainGate'.inflight = drainGate.inflight - 1
  <2>1. Cardinality(Busy) \in Nat \ {0}
    <3>1. Cardinality(Busy) \in Nat /\ Cardinality(Busy) # 0
      BY <1>2, FS_CardinalityType, FS_EmptySet DEF Gated
    <3>2. QED
      BY <3>1
  <2>2. drainGate.inflight \in Nat \ {0} /\ drainGate \in [state : GateStates, inflight : Nat]
    BY <2>1 DEF Gated, RepurgeTypes
  <2>3. CASE UNCHANGED drainGate /\ s # "over"
    BY <2>2, <2>3
  <2>4. CASE drainGate' = ReleasedBy(drainGate, 1) /\ s = "over"
    <3>1. /\ drainGate'.inflight = drainGate.inflight - 1
          /\ drainGate' = [inflight |-> drainGate'.inflight, state |-> drainGate'.state]
          /\ \/ drainGate'.state = drainGate.state
             \/ drainGate'.state = "drained" /\ drainGate.state = "draining"
      BY <2>4 DEF ReleasedBy
    <3>2. drainGate'.state \in GateStates /\ drainGate'.inflight \in Nat
      BY <2>2, <3>1 DEF GateStates
    <3>3. QED
      BY <2>4, <3>1, <3>2
  <2>5. (UNCHANGED drainGate /\ s # "over") \/ (drainGate' = ReleasedBy(drainGate, 1) /\ s = "over")
    <3>1. call'[c].timer = s
      BY <1>4, <1>6
    <3>2. CASE TimerFires(c)
      BY <1>3, <3>2 DEF TimerFires
    <3>3. CASE CallbackEnds(c)
      <4>1. call' = [call EXCEPT ![c].timer = "over"] /\ drainGate' = ReleasedBy(drainGate, 1)
        BY <3>3 DEF CallbackEnds
      <4>2. call'[c].timer = "over"
        BY <1>2, <4>1 DEF RepurgeTypes, CallRecord
      <4>3. QED
        BY <3>1, <4>1, <4>2
    <3>4. CASE CallbackLocks(c)
      <4>1. \/ call' = [call EXCEPT ![c].timer = "purging"] /\ UNCHANGED drainGate
            \/ call' = [call EXCEPT ![c].timer = "over"] /\ drainGate' = ReleasedBy(drainGate, 1)
        BY <3>4 DEF CallbackLocks
      <4>2. call' = [call EXCEPT ![c].timer = "purging"] => call'[c].timer = "purging"
        BY <1>2 DEF RepurgeTypes, CallRecord
      <4>3. call' = [call EXCEPT ![c].timer = "over"] => call'[c].timer = "over"
        BY <1>2 DEF RepurgeTypes, CallRecord
      <4>4. QED
        BY <3>1, <4>1, <4>2, <4>3
    <3>5. QED
      BY <3>2, <3>3, <3>4
  <2>6. QED
    BY <2>3, <2>4, <2>5
<1>8. /\ timersOf' \in [Hosts -> Calls \union {NoCall}]
      /\ \A h \in Hosts : timersOf'[h] = timersOf[h] \/ (timersOf[h] = c /\ timersOf'[h] = NoCall)
      /\ ~TimerFires(c) => \A h \in Hosts : timersOf'[h] # c
  <2>1. CASE TimerFires(c)
    BY <2>1 DEF TimerFires, RepurgeTypes
  <2>2. CASE CallbackLocks(c)
    <3>1. timersOf' = [timersOf EXCEPT ![call[c].host] = IF timersOf[call[c].host] = c THEN NoCall ELSE timersOf[call[c].host]]
      BY <2>2 DEF CallbackLocks, ForgetsOwn
    <3>2. \A h \in Hosts : timersOf[h] = c => h = call[c].host
      BY DEF TimersNamed
    <3>3. c # NoCall
      OBVIOUS
    <3>4. QED
      BY <1>2, <3>1, <3>2, <3>3 DEF RepurgeTypes
  <2>3. CASE CallbackEnds(c)
    BY <2>3 DEF CallbackEnds, RepurgeTypes, TimersNamed
  <2>4. QED
    BY <2>1, <2>2, <2>3
<1>9. RepurgeTypes'
  BY <1>1, <1>6, <1>7, <1>8 DEF RepurgeTypes
<1>10. TimersNamed'
  <2>1. ASSUME NEW d \in Calls
        PROVE  /\ call'[d].stage # "new" => call'[d].host \in Hosts
               /\ call'[d].timer # "none" => call'[d].stage = "over"
               /\ call'[d].timer = "armed" => timersOf'[call'[d].host] = d
    <3>1. CASE d = c
      BY <1>2, <1>3, <1>4, <1>6, <3>1
    <3>2. CASE d # c
      BY <1>6, <1>8, <3>2 DEF TimersNamed
    <3>3. QED
      BY <3>1, <3>2
  <2>2. ASSUME NEW h \in Hosts, timersOf'[h] \in Calls
        PROVE  call'[timersOf'[h]].host = h /\ call'[timersOf'[h]].timer \in {"armed", "fired"}
    BY <1>3, <1>4, <1>6, <1>8, <2>2 DEF TimersNamed
  <2>3. QED
    BY <2>1, <2>2 DEF TimersNamed
<1>11. Gated'
  <2>1. IsFiniteSet(Busy') /\ drainGate'.inflight = Cardinality(Busy')
    <3>1. CASE s # "over"
      <4>1. Busy' = Busy
        BY <1>2, <1>6, <3>1
      <4>2. QED
        BY <1>7, <3>1, <4>1 DEF Gated
    <3>2. CASE s = "over"
      BY <1>2, <1>6, <1>7, <3>2, FS_RemoveElement DEF Gated
    <3>3. QED
      BY <3>1, <3>2
  <2>2. Busy' \subseteq Busy
    BY <1>2, <1>6
  <2>3. \A d \in Calls : call'[d].timer = "armed" => call[d].timer = "armed"
    BY <1>3, <1>4, <1>6
  <2>4. QED
    BY <1>1, <1>7, <2>1, <2>2, <2>3 DEF Gated
<1>12. Again'
  <2>1. \A d \in Calls : /\ call'[d].host = call[d].host /\ call'[d].due = call[d].due
                         /\ call[d].timer # "none" => call'[d].timer # "none"
    BY <1>3, <1>4, <1>6
  <2>2. QED
    BY <1>1, <1>7, <2>1 DEF Again
<1>13. QED
  BY <1>9, <1>10, <1>11, <1>12

\* The shutdown stops every timer and leaves the callbacks to end.
LEMMA ShutdownMoves ==
  ASSUME NoCall \notin Calls, RepurgeInv, ShutdownStarts
  PROVE  RepurgeInv'
<1> USE DEF RepurgeInv
<1> DEFINE cancelled == {c \in Calls : Armed(c) /\ timersOf[call[c].host] = c}
<1>1. /\ closing = "no" /\ closing' = "waiting"
      /\ drainGate' = ReleasedBy(Stopped, Cardinality(cancelled))
      /\ call' = [c \in Calls |-> IF c \in cancelled THEN [call[c] EXCEPT !.timer = "over"] ELSE call[c]]
      /\ timersOf' = [h \in Hosts |-> NoCall]
      /\ UNCHANGED <<tick, asked>>
  BY DEF ShutdownStarts
<1>2. cancelled = {c \in Calls : call[c].timer = "armed"} /\ cancelled \subseteq Busy
  BY DEF Armed, TimersNamed, Busy
<1> HIDE DEF cancelled
<1>3. /\ IsFiniteSet(Busy \ cancelled) /\ Cardinality(Busy \ cancelled) \in Nat
      /\ Cardinality(cancelled) \in Nat
      /\ Cardinality(Busy \ cancelled) = Cardinality(Busy) - Cardinality(cancelled)
  <2>1. IsFiniteSet(Busy)
    BY DEF Gated
  <2>2. IsFiniteSet(Busy \ cancelled) /\ Cardinality(Busy \ cancelled) = Cardinality(Busy) - Cardinality(Busy \intersect cancelled)
    BY <2>1, FS_Difference
  <2>3. Busy \intersect cancelled = cancelled
    BY <1>2
  <2>4. IsFiniteSet(cancelled)
    BY <1>2, <2>1, FS_Subset
  <2>5. QED
    BY <2>2, <2>3, <2>4, FS_CardinalityType
<1>4. ASSUME NEW c \in Calls
      PROVE  /\ call'[c] \in CallRecord /\ call'[c].stage = call[c].stage /\ call'[c].host = call[c].host
             /\ call'[c].due = call[c].due
             /\ call[c].timer = "armed" => call'[c].timer = "over"
             /\ call[c].timer # "armed" => call'[c].timer = call[c].timer
  <2>1. call[c] \in CallRecord
    BY DEF RepurgeTypes
  <2>2. CASE c \in cancelled
    <3>1. call'[c] = [call[c] EXCEPT !.timer = "over"] /\ call[c].timer = "armed"
      BY <1>1, <1>2, <2>2
    <3>2. QED
      BY <2>1, <3>1 DEF CallRecord, TimerStates
  <2>3. CASE c \notin cancelled
    <3>1. call'[c] = call[c] /\ call[c].timer # "armed"
      BY <1>1, <1>2, <2>3
    <3>2. QED
      BY <2>1, <3>1
  <2>4. QED
    BY <2>2, <2>3
<1>5. call' \in [Calls -> CallRecord]
  BY <1>1, <1>4
<1>6. Busy' = Busy \ cancelled
  BY <1>2, <1>4 DEF Busy
<1>7. /\ drainGate' \in [state : GateStates, inflight : Nat]
      /\ drainGate'.inflight = Cardinality(Busy') /\ drainGate'.state # "admitting"
  <2>1. drainGate.inflight = Cardinality(Busy) /\ drainGate \in [state : GateStates, inflight : Nat]
    BY DEF Gated, RepurgeTypes
  <2>2. Stopped.inflight = drainGate.inflight /\ Stopped.state \in {"draining", "drained"}
    BY <2>1 DEF Stopped
  <2>3. /\ drainGate' = [inflight |-> drainGate'.inflight, state |-> drainGate'.state]
        /\ drainGate'.inflight = Cardinality(Busy) - Cardinality(cancelled)
        /\ drainGate'.state \in {"draining", "drained"}
    BY <1>1, <2>1, <2>2 DEF ReleasedBy
  <2>4. drainGate'.inflight = Cardinality(Busy') /\ drainGate'.inflight \in Nat /\ drainGate'.state \in GateStates
    BY <1>3, <1>6, <2>3 DEF GateStates
  <2>5. QED
    BY <2>3, <2>4
<1>8. RepurgeTypes'
  BY <1>1, <1>5, <1>7 DEF RepurgeTypes
<1>9. TimersNamed'
  <2>1. \A c \in Calls : /\ call'[c].stage # "new" => call'[c].host \in Hosts
                         /\ call'[c].timer # "none" => call'[c].stage = "over"
                         /\ call'[c].timer # "armed"
    BY <1>4 DEF TimersNamed
  <2>2. \A h \in Hosts : timersOf'[h] \notin Calls
    BY <1>1
  <2>3. QED
    BY <2>1, <2>2 DEF TimersNamed
<1>10. Gated'
  BY <1>1, <1>3, <1>4, <1>6, <1>7 DEF Gated
<1>11. Again'
  BY <1>7 DEF Again
<1>12. QED
  BY <1>8, <1>9, <1>10, <1>11

\* Every step keeps the timers, the gate and what was asked for together.
LEMMA NextRepurge == NoCall \notin Calls /\ RepurgeInv /\ [RepurgingNext]_repurgeVars => RepurgeInv'
<1> SUFFICES ASSUME NoCall \notin Calls, RepurgeInv, [RepurgingNext]_repurgeVars PROVE RepurgeInv'
  OBVIOUS
<1>1. ASSUME NEW c \in Calls, PurgeStarts(c) \/ PurgeRecords(c) \/ TimerFires(c) \/ CallbackLocks(c) \/ CallbackEnds(c)
      PROVE RepurgeInv'
  BY <1>1, PurgeStartMoves, PurgeRecordMoves, CallbackMoves
<1>2. CASE ShutdownStarts
  BY <1>2, ShutdownMoves
<1>3. CASE ShutdownEnds
  <2>1. closing = "waiting" /\ closing' = "over" /\ drainGate.inflight = 0
        /\ UNCHANGED <<tick, call, timersOf, drainGate, asked>>
    BY <1>3 DEF ShutdownEnds
  <2>2. Busy = {}
    BY <2>1, FS_EmptySet DEF RepurgeInv, Gated
  <2>3. Busy' = Busy
    BY <2>1 DEF Busy
  <2>4. RepurgeTypes' /\ TimersNamed' /\ Again'
    BY <2>1 DEF RepurgeInv, RepurgeTypes, TimersNamed, Again
  <2>5. Gated'
    BY <2>1, <2>2, <2>3 DEF RepurgeInv, Gated
  <2>6. QED
    BY <2>4, <2>5 DEF RepurgeInv
<1>4. CASE Ticks \/ UNCHANGED repurgeVars
  <2>1. UNCHANGED <<call, timersOf, drainGate, asked, closing>> /\ tick' \in Nat
    BY <1>4 DEF Ticks, repurgeVars, RepurgeInv, RepurgeTypes
  <2>2. QED
    BY <2>1 DEF RepurgeInv, RepurgeTypes, TimersNamed, Gated, Busy, Again
<1>5. QED
  BY <1>1, <1>2, <1>3, <1>4 DEF RepurgingNext

\* A purge of a host is followed by another a delay later or more until the
\* shutdown, and the shutdown leaves no timer armed and no callback running, for
\* every number of calls and hosts and every delay (repurge.go PurgePaste, fire,
\* Shutdown).
THEOREM AlwaysPurgedAgain ==
  ASSUME NoCall \notin Calls
  PROVE  RepurgingSpec => []PurgedAgain
<1>1. RepurgeInv => PurgedAgain
  <2> SUFFICES ASSUME RepurgeInv PROVE PurgedAgain
    OBVIOUS
  <2>1. {c \in Calls : Armed(c)} \union RunningCallbacks = Busy
    BY DEF Armed, RunningCallbacks, Busy
  <2>2. Busy = {} => RunningCallbacks = {}
    BY DEF RunningCallbacks, Busy
  <2>3. QED
    BY <2>1, <2>2 DEF PurgedAgain, RepurgeInv, Again, Gated, Armed
<1>2. RepurgingInit => RepurgeInv
  BY InitRepurge
<1>3. RepurgeInv /\ [RepurgingNext]_repurgeVars => RepurgeInv'
  BY NextRepurge
<1>4. QED
  BY <1>1, <1>2, <1>3, PTL DEF RepurgingSpec

-----------------------------------------------------------------------------
(* The objects of a site                                                   *)

RedeploySpec == RedeployInit /\ [][RedeployNext]_redeployVars

Objects == Uploads \X Files
SiteVersion == [upload : Uploads, objects : SUBSET Objects, dead : BOOLEAN, charge : Nat \union {NoCharge}]
DeployRecord == [stage : {"none", "staged", "over"}, base : Nat, objects : SUBSET Objects]

SiteTypes ==
    /\ history \in Seq(SiteVersion)
    /\ stored \subseteq Objects
    /\ deploy \in [Uploads -> DeployRecord]
    /\ release \subseteq SUBSET Objects
    /\ slips \in Nat

NamedBy(versions) == UNION {history[v].objects : v \in versions}
KeptPrefixes == {o[1] : o \in NamedBy(Retained)} \union {history[v].upload : v \in Retained}
                \union {u \in Uploads : deploy[u].stage = "staged"}

\* An upload is that of one version, made when its deploy was over; an object
\* was first named by the version of its upload.
UploadsApart ==
    /\ \A v \in DOMAIN history : deploy[history[v].upload].stage = "over"
    /\ \A v, w \in DOMAIN history : history[v].upload = history[w].upload => v = w
    /\ \A w \in DOMAIN history : \A o \in history[w].objects :
          \E i \in DOMAIN history : i <= w /\ history[i].upload = o[1] /\ o \in history[i].objects

\* Two versions share only what every version kept between them shares.
Runs == \A a, c \in DOMAIN history, b \in Retained :
    a < b /\ b < c => history[a].objects \cap history[c].objects \subseteq history[b].objects

\* What a version names, and what a deploy staged, is stored and not to be
\* deleted.
Safe ==
    /\ \A v \in Retained : history[v].objects \subseteq stored
    /\ \A u \in Uploads : deploy[u].stage = "staged" =>
          \A o \in deploy[u].objects : o[1] = u => o \in stored
    /\ \A x \in release : \A o \in x : deploy[o[1]].stage = "over" /\ o \notin NamedBy(Retained)

\* A version is charged what the kept one before it does not hold.
ChargedApart ==
    /\ \A v \in DOMAIN history : history[v].charge = NoCharge => v = 1
    /\ \A v \in Retained : VersionCharge(v) = StoredSize(OfVersion(v) \ OfVersion(PrevOf(v)))

SumOfCharges == Total([v \in Retained |-> VersionCharge(v)]) = StoredSize(NamedBy(Retained))

\* What is stored and not named is to be deleted, or under a prefix that is
\* kept and never named.
Leftovers == slips = 0 => \A o \in stored \ NamedBy(Retained) :
    \/ \E x \in release : o \in x
    \/ o \notin NamedBy(DOMAIN history) /\ o[1] \in KeptPrefixes

SiteInv == SiteTypes /\ UploadsApart /\ Runs /\ Safe /\ ChargedApart /\ SumOfCharges /\ Leftovers

LEMMA SiteExact == SiteInv => ReuseExact
<1> SUFFICES ASSUME SiteInv PROVE ReuseExact
  OBVIOUS
<1>1. NamedBy(Retained) \subseteq stored
  BY DEF SiteInv, Safe, NamedBy
<1>2. Total([v \in Retained |-> VersionCharge(v)]) = StoredSize(NamedBy(Retained))
  BY DEF SiteInv, SumOfCharges
<1>3. slips = 0 /\ release = {} =>
        \A o \in stored \ NamedBy(Retained) : o \notin NamedBy(DOMAIN history) /\ o[1] \in KeptPrefixes
  BY DEF SiteInv, Leftovers
<1>4. QED
  BY <1>1, <1>2, <1>3 DEF ReuseExact, NamedBy, KeptPrefixes

-----------------------------------------------------------------------------
(* Sizes and neighbours. *)

LEMMA ObjectsFinite ==
  ASSUME NEW A \in SUBSET Objects
  PROVE  IsFiniteSet(A) /\ StoredSize(A) \in Nat
<1>1. IsFiniteSet(Objects)
  BY RedeployAssumption, FS_Product DEF Objects
<1>2. IsFiniteSet(A)
  BY <1>1, FS_Subset
<1> DEFINE f == [o \in A |-> ObjectSize[o[2]]]
<1>3. f \in [A -> Nat]
  BY RedeployAssumption DEF Objects
<1> HIDE DEF f
<1>4. Total(f) \in Nat
  BY <1>2, <1>3, TotalNat
<1>5. QED
  BY <1>2, <1>4 DEF StoredSize, f

LEMMA SizeUnion ==
  ASSUME NEW A \in SUBSET Objects, NEW B \in SUBSET Objects, A \cap B = {}
  PROVE  StoredSize(A \union B) = StoredSize(A) + StoredSize(B)
<1> DEFINE f == [o \in A \union B |-> ObjectSize[o[2]]]
           g == [o \in A |-> ObjectSize[o[2]]]
           h == [o \in B |-> ObjectSize[o[2]]]
<1>1. f \in [A \union B -> Nat] /\ g \in [A -> Nat] /\ h \in [B -> Nat]
  BY RedeployAssumption DEF Objects
<1>2. (\A x \in A : f[x] = g[x]) /\ (\A x \in B : f[x] = h[x])
  OBVIOUS
<1>3. IsFiniteSet(A) /\ IsFiniteSet(B)
  BY ObjectsFinite
<1> HIDE DEF f, g, h
<1>4. Total(f) = Total(g) + Total(h)
  BY <1>1, <1>2, <1>3, TotalUnion
<1>5. QED
  BY <1>4 DEF StoredSize, f, g, h

\* The newest of some versions, or 0.
LEMMA NewestOf ==
  ASSUME NEW n \in Nat, NEW S \in SUBSET (1..n)
  PROVE  /\ Max(S \union {0}) \in S \union {0}
         /\ \A i \in S : i <= Max(S \union {0})
<1>1. \E i \in S \union {0} : \A j \in S \union {0} : i >= j
  <2>1. CASE S = {}
    BY <2>1
  <2>2. CASE S # {}
    <3>1. PICK i \in S : \A j \in S : j <= i
      BY <2>2, NewestExists
    <3>2. QED
      BY <3>1
  <2>3. QED
    BY <2>1, <2>2
<1>2. QED
  BY <1>1 DEF Max

LEMMA OldestOf ==
  ASSUME NEW S \in SUBSET Nat, S # {}
  PROVE  Min(S) \in S /\ \A i \in S : Min(S) <= i
<1>1. \E i \in S : \A j \in S : i <= j
  BY LowestExists
<1>2. QED
  BY <1>1 DEF Min

LEMMA Neighbours ==
  ASSUME SiteTypes, NEW v \in DOMAIN history
  PROVE  /\ DOMAIN history = 1..Len(history) /\ Len(history) \in Nat /\ Retained \subseteq DOMAIN history
         /\ HeadVersion \in Retained \union {0} /\ \A w \in Retained : w <= HeadVersion
         /\ PrevOf(v) \in Retained \union {0} /\ PrevOf(v) < v /\ \A w \in Retained : w < v => w <= PrevOf(v)
         /\ NextOf(v) \in Retained \union {0}
         /\ NextOf(v) # 0 => NextOf(v) > v
         /\ \A w \in Retained : w > v => NextOf(v) # 0 /\ NextOf(v) <= w
<1>1. DOMAIN history = 1..Len(history) /\ Len(history) \in Nat
  BY DEF SiteTypes
<1>2. Retained \in SUBSET (1..Len(history))
  BY <1>1 DEF Retained
<1>3. HeadVersion \in Retained \union {0} /\ \A w \in Retained : w <= HeadVersion
  BY <1>1, <1>2, NewestOf DEF HeadVersion
<1>4. PrevOf(v) \in Retained \union {0} /\ PrevOf(v) < v /\ \A w \in Retained : w < v => w <= PrevOf(v)
  <2> DEFINE S == {w \in Retained : w < v}
  <2>1. S \in SUBSET (1..Len(history)) /\ PrevOf(v) = Max(S \union {0})
    BY <1>2 DEF PrevOf
  <2> HIDE DEF S
  <2>2. PrevOf(v) \in S \union {0} /\ \A i \in S : i <= PrevOf(v)
    BY <1>1, <2>1, NewestOf
  <2>3. QED
    BY <1>1, <2>2 DEF S
<1>5. NextOf(v) \in Retained \union {0} /\ (NextOf(v) # 0 => NextOf(v) > v)
      /\ \A w \in Retained : w > v => NextOf(v) # 0 /\ NextOf(v) <= w
  <2> DEFINE S == {w \in Retained : w > v}
  <2>0. S \in SUBSET Nat
    <3>1. \A w \in 1..Len(history) : w \in Nat
      BY <1>1
    <3>2. QED
      BY <1>2, <3>1
  <2>1. NextOf(v) = IF S = {} THEN 0 ELSE Min(S)
    BY DEF NextOf
  <2>2. \A w \in S : w \in Retained /\ w > v /\ w # 0
    BY <1>1, <1>2
  <2>3. \A w \in Retained : w > v => w \in S
    OBVIOUS
  <2> HIDE DEF S
  <2>4. S # {} => Min(S) \in S /\ \A i \in S : Min(S) <= i
    BY <2>0, OldestOf
  <2>5. QED
    BY <1>1, <1>2, <2>1, <2>2, <2>3, <2>4
<1>6. QED
  BY <1>1, <1>2, <1>3, <1>4, <1>5

LEMMA VersionFacts ==
  ASSUME SiteTypes, NEW v \in DOMAIN history
  PROVE  /\ history[v] \in SiteVersion /\ history[v].upload \in Uploads
         /\ history[v].objects \in SUBSET Objects /\ history[v].charge \in Nat \union {NoCharge}
         /\ v \in Nat /\ v > 0 /\ OfVersion(v) = history[v].objects
<1>1. DOMAIN history = 1..Len(history) /\ Len(history) \in Nat /\ history[v] \in SiteVersion
  BY DEF SiteTypes
<1>2. QED
  BY <1>1 DEF SiteVersion, OfVersion

\* What a kept version shares with any other kept one, it shares with a
\* neighbour.
LEMMA SharedNearby ==
  ASSUME SiteTypes, Runs, NEW v \in Retained, NEW w \in Retained, w # v,
         NEW o \in history[v].objects, o \in history[w].objects
  PROVE  o \in OfVersion(PrevOf(v)) \union OfVersion(NextOf(v))
<1>1. v \in DOMAIN history /\ w \in DOMAIN history /\ v \in Nat /\ w \in Nat
  BY VersionFacts DEF Retained
<1>2. CASE w < v
  <2>1. PrevOf(v) \in Retained /\ w <= PrevOf(v) /\ PrevOf(v) < v
    BY <1>1, <1>2, Neighbours, VersionFacts DEF Retained
  <2>2. PrevOf(v) \in DOMAIN history /\ PrevOf(v) \in Nat
    BY <2>1, VersionFacts DEF Retained
  <2>3. o \in history[PrevOf(v)].objects
    BY <1>1, <2>1, <2>2 DEF Runs
  <2>4. QED
    BY <2>2, <2>3, VersionFacts
<1>3. CASE w > v
  <2>1. NextOf(v) \in Retained /\ NextOf(v) <= w /\ NextOf(v) > v
    BY <1>1, <1>3, Neighbours
  <2>2. NextOf(v) \in DOMAIN history /\ NextOf(v) \in Nat
    BY <2>1, VersionFacts DEF Retained
  <2>3. o \in history[NextOf(v)].objects
    BY <1>1, <2>1, <2>2 DEF Runs
  <2>4. QED
    BY <2>2, <2>3, VersionFacts
<1>4. QED
  BY <1>1, <1>2, <1>3

\* A neighbour is kept, or there is none and it holds nothing.
LEMMA NeighboursKept ==
  ASSUME SiteTypes, NEW v \in Retained, NEW o \in OfVersion(PrevOf(v)) \union OfVersion(NextOf(v))
  PROVE  \E w \in Retained \ {v} : o \in history[w].objects
<1>1. v \in DOMAIN history /\ v \in Nat
  BY VersionFacts DEF Retained
<1>2. CASE o \in OfVersion(PrevOf(v))
  <2>1. PrevOf(v) # 0
    BY <1>2 DEF OfVersion
  <2>2. PrevOf(v) \in Retained /\ PrevOf(v) < v
    BY <1>1, <2>1, Neighbours
  <2>3. QED
    BY <1>1, <1>2, <2>1, <2>2 DEF OfVersion
<1>3. CASE o \in OfVersion(NextOf(v))
  <2>1. NextOf(v) # 0
    BY <1>3 DEF OfVersion
  <2>2. NextOf(v) \in Retained /\ NextOf(v) > v
    BY <1>1, <2>1, Neighbours
  <2>3. QED
    BY <1>1, <1>3, <2>1, <2>2 DEF OfVersion
<1>4. QED
  BY <1>2, <1>3

\* What a delete frees is what no other kept version names.
LEMMA FreedAlone ==
  ASSUME SiteTypes, Runs, NEW v \in Retained
  PROVE  NamedBy(Retained \ {v}) = NamedBy(Retained) \ Freed(v) /\ Freed(v) \subseteq history[v].objects
<1>1. v \in DOMAIN history /\ OfVersion(v) = history[v].objects
  BY VersionFacts DEF Retained
<1>2. ASSUME NEW o \in Freed(v), NEW w \in Retained \ {v}, o \in history[w].objects PROVE FALSE
  BY <1>1, <1>2, SharedNearby DEF Freed
<1>3. ASSUME NEW o \in history[v].objects, o \notin Freed(v) PROVE \E w \in Retained \ {v} : o \in history[w].objects
  BY <1>1, <1>3, NeighboursKept DEF Freed
<1>4. QED
  BY <1>1, <1>2, <1>3 DEF NamedBy, Freed

\* A prefix that goes whole holds nothing another kept version names.
LEMMA PrefixAlone ==
  ASSUME SiteTypes, UploadsApart, Runs, NEW v \in Retained, NEW u \in FreedPrefixes(v),
         NEW w \in Retained \ {v}, NEW o \in history[w].objects
  PROVE  o[1] # u
<1> SUFFICES ASSUME o[1] = u PROVE FALSE
  OBVIOUS
<1> DEFINE near == OfVersion(PrevOf(v)) \union OfVersion(NextOf(v))
<1>1. /\ v \in DOMAIN history /\ w \in DOMAIN history /\ v \in Nat /\ w \in Nat /\ v > 0 /\ w > 0
      /\ OfVersion(v) = history[v].objects
  BY VersionFacts DEF Retained
<1>2. /\ u \in {x[1] : x \in Freed(v)} \union {history[v].upload}
      /\ u \in {history[x].upload : x \in (DOMAIN history \ Retained) \union {v}}
      /\ u \notin {x[1] : x \in near}
  BY DEF FreedPrefixes
<1>3. \A x \in near : x[1] # u
  BY <1>2
<1> HIDE DEF near
<1>4. PICK i \in (DOMAIN history \ Retained) \union {v} : history[i].upload = u
  BY <1>2
<1>5. i \in DOMAIN history /\ i \in Nat /\ i > 0
  BY <1>1, <1>4, VersionFacts
<1>6. i < w /\ o \in history[i].objects
  <2>1. PICK k \in DOMAIN history : k <= w /\ history[k].upload = o[1] /\ o \in history[k].objects
    BY <1>1 DEF UploadsApart
  <2>2. k = i
    BY <1>4, <1>5, <2>1 DEF UploadsApart
  <2>3. i # w
    BY <1>4
  <2>4. QED
    BY <1>1, <1>5, <2>1, <2>2, <2>3
<1>7. CASE o \in history[v].objects
  <2>1. o \in near
    BY <1>7, SharedNearby DEF near
  <2>2. QED
    BY <1>3, <2>1
<1>8. CASE o \notin history[v].objects
  <2>1. i # v
    BY <1>6, <1>8
  <2>2. PICK x \in Freed(v) : x[1] = u
    <3>1. history[v].upload # u
      BY <1>1, <1>4, <1>5, <2>1 DEF UploadsApart
    <3>2. QED
      BY <1>2, <3>1
  <2>3. x \in history[v].objects /\ x \notin near
    BY <1>1, <2>2 DEF Freed, near
  <2>4. i < v /\ x \in history[i].objects
    <3>1. PICK k \in DOMAIN history : k <= v /\ history[k].upload = x[1] /\ x \in history[k].objects
      BY <1>1, <2>3 DEF UploadsApart
    <3>2. k = i
      BY <1>4, <1>5, <2>2, <3>1 DEF UploadsApart
    <3>3. QED
      BY <1>1, <1>5, <2>1, <3>1, <3>2
  <2>5. CASE w > v
    BY <1>1, <1>5, <1>6, <1>8, <2>4, <2>5 DEF Runs
  <2>6. CASE w < v
    <3>1. x \in history[w].objects
      BY <1>1, <1>5, <1>6, <2>3, <2>4, <2>6 DEF Runs
    <3>2. x \in near
      BY <2>3, <3>1, SharedNearby DEF near
    <3>3. QED
      BY <2>3, <3>2
  <2>7. QED
    BY <1>1, <2>5, <2>6
<1>9. QED
  BY <1>7, <1>8

\* What a delete frees is over, and no other kept version names it.
LEMMA FreedIsFree ==
  ASSUME SiteTypes, UploadsApart, Runs, NEW v \in Retained
  PROVE  /\ FreedBy(v) \subseteq SUBSET Objects
         /\ \A x \in FreedBy(v) : \A o \in x :
               deploy[o[1]].stage = "over" /\ o \notin NamedBy(Retained \ {v})
         /\ \A o \in Freed(v) : \E x \in FreedBy(v) : o \in x
<1>1. v \in DOMAIN history /\ Freed(v) \subseteq history[v].objects /\ history[v].objects \in SUBSET Objects
  BY FreedAlone, VersionFacts DEF Retained
<1>2. ASSUME NEW u \in FreedPrefixes(v)
      PROVE  u \in Uploads /\ deploy[u].stage = "over"
  <2>1. PICK i \in (DOMAIN history \ Retained) \union {v} : history[i].upload = u
    BY <1>2 DEF FreedPrefixes
  <2>2. QED
    BY <1>1, <2>1, VersionFacts DEF UploadsApart
<1>3. ASSUME NEW u \in FreedPrefixes(v), NEW o \in Prefix(u)
      PROVE  o \in Objects /\ o[1] = u /\ o \notin NamedBy(Retained \ {v})
  <2>1. o \in Objects /\ o[1] = u
    BY <1>2, <1>3 DEF Prefix, Objects
  <2>2. QED
    BY <2>1, PrefixAlone DEF NamedBy
<1>4. ASSUME NEW o \in Freed(v)
      PROVE  deploy[o[1]].stage = "over" /\ o \notin NamedBy(Retained \ {v}) /\ o \in Objects
  <2>1. PICK k \in DOMAIN history : history[k].upload = o[1]
    BY <1>1 DEF UploadsApart
  <2>2. QED
    BY <1>1, <2>1, FreedAlone DEF UploadsApart
<1>5. ASSUME NEW o \in Freed(v) PROVE \E x \in FreedBy(v) : o \in x
  <2>1. CASE o[1] \in FreedPrefixes(v)
    <3>1. o \in Prefix(o[1])
      BY <1>4 DEF Prefix, Objects
    <3>2. QED
      BY <2>1, <3>1 DEF FreedBy
  <2>2. CASE o[1] \notin FreedPrefixes(v)
    BY <2>2 DEF FreedBy
  <2>3. QED
    BY <2>1, <2>2
<1>6. ASSUME NEW x \in FreedBy(v) PROVE (\E u \in FreedPrefixes(v) : x = Prefix(u)) \/ \E o \in Freed(v) : x = {o}
  BY <1>6 DEF FreedBy
<1>7. FreedBy(v) \subseteq SUBSET Objects
  BY <1>3, <1>4, <1>6
<1>8. ASSUME NEW x \in FreedBy(v), NEW o \in x
      PROVE  deploy[o[1]].stage = "over" /\ o \notin NamedBy(Retained \ {v})
  <2>1. CASE \E u \in FreedPrefixes(v) : x = Prefix(u)
    <3>1. PICK u \in FreedPrefixes(v) : x = Prefix(u)
      BY <2>1
    <3>2. o[1] = u /\ o \notin NamedBy(Retained \ {v})
      BY <1>3, <1>8, <3>1
    <3>3. QED
      BY <1>2, <3>2
  <2>2. CASE \E y \in Freed(v) : x = {y}
    BY <1>4, <1>8, <2>2
  <2>3. QED
    BY <1>6, <2>1, <2>2
<1>9. QED
  BY <1>5, <1>7, <1>8

-----------------------------------------------------------------------------
(* A version delete. *)

\* What becomes of a record as its version is deleted or charged again.
LEMMA RecordMoves ==
  ASSUME NEW r \in SiteVersion, NEW n \in Nat
  PROVE  /\ [r EXCEPT !.dead = TRUE] \in SiteVersion
         /\ [r EXCEPT !.dead = TRUE].upload = r.upload /\ [r EXCEPT !.dead = TRUE].objects = r.objects
         /\ [r EXCEPT !.dead = TRUE].charge = r.charge /\ [r EXCEPT !.dead = TRUE].dead
         /\ [r EXCEPT !.charge = n] \in SiteVersion
         /\ [r EXCEPT !.charge = n].upload = r.upload /\ [r EXCEPT !.charge = n].objects = r.objects
         /\ [r EXCEPT !.charge = n].charge = n /\ [r EXCEPT !.charge = n].dead = r.dead
BY DEF SiteVersion

LEMMA RechargedIs ==
  ASSUME SiteInv, NEW v \in Retained, history' = Recharged(v)
  PROVE  /\ history' \in Seq(SiteVersion) /\ Len(history') = Len(history) /\ DOMAIN history' = DOMAIN history
         /\ \A w \in DOMAIN history :
               /\ history'[w].upload = history[w].upload /\ history'[w].objects = history[w].objects
               /\ w # NextOf(v) => history'[w].charge = history[w].charge
         /\ Retained' = Retained \ {v}
         /\ NextOf(v) # 0 => history'[NextOf(v)].charge = StoredSize(OfVersion(NextOf(v)) \ OfVersion(PrevOf(v)))
<1> DEFINE n == NextOf(v)
           dead == [history EXCEPT ![v].dead = TRUE]
           size == StoredSize(OfVersion(n) \ OfVersion(PrevOf(v)))
<1>1. SiteTypes /\ history \in Seq(SiteVersion)
  BY DEF SiteInv, SiteTypes
<1>2. v \in 1..Len(history) /\ DOMAIN history = 1..Len(history) /\ v \in Nat /\ v > 0 /\ history[v] \in SiteVersion
  BY <1>1, Neighbours, VersionFacts DEF Retained
<1> DEFINE rv == [history[v] EXCEPT !.dead = TRUE]
<1>3. rv \in SiteVersion /\ rv.upload = history[v].upload /\ rv.objects = history[v].objects
      /\ rv.charge = history[v].charge /\ rv.dead
  BY <1>2, RecordMoves
<1>4. dead = [history EXCEPT ![v] = rv]
  OBVIOUS
<1> HIDE DEF rv
<1>5. dead \in Seq(SiteVersion) /\ Len(dead) = Len(history) /\ DOMAIN dead = DOMAIN history
      /\ \A w \in DOMAIN history : dead[w] = IF w = v THEN rv ELSE history[w]
  <2> DEFINE d == [history EXCEPT ![v] = rv]
  <2>0. rv \in SiteVersion /\ v \in 1..Len(history) /\ history \in Seq(SiteVersion)
    BY <1>1, <1>2, <1>3
  <2>3. d \in Seq(SiteVersion) /\ Len(d) = Len(history)
        /\ \A w \in 1..Len(history) : d[w] = IF w = v THEN rv ELSE history[w]
    BY <2>0, ExceptSeq
  <2>4. dead = d
    BY <1>4
  <2> HIDE DEF dead, d
  <2>1. dead \in Seq(SiteVersion) /\ Len(dead) = Len(history)
        /\ \A w \in 1..Len(history) : dead[w] = IF w = v THEN rv ELSE history[w]
    BY <2>3, <2>4
  <2>2. DOMAIN dead = 1..Len(dead)
    BY <2>1
  <2>5. QED
    BY <1>2, <2>1, <2>2
<1>6. history' = IF n = 0 \/ (history[n].charge = NoCharge /\ Freed(v) = OfVersion(v)) THEN dead
                 ELSE [dead EXCEPT ![n].charge = size]
  BY DEF Recharged
<1> HIDE DEF dead
<1>7. CASE n = 0
  <2>1. history' = dead
    BY <1>6, <1>7
  <2>2. Retained' = Retained \ {v}
    BY <1>2, <1>3, <1>5, <2>1 DEF Retained
  <2>3. QED
    BY <1>3, <1>5, <1>7, <2>1, <2>2
<1>8. CASE n # 0
  <2>1. n \in Retained /\ n > v /\ n \in DOMAIN history /\ n # v /\ n # 1
    BY <1>1, <1>2, <1>8, Neighbours DEF Retained
  <2>2. history[n].charge # NoCharge
    BY <2>1 DEF SiteInv, ChargedApart
  <2>3. history' = [dead EXCEPT ![n].charge = size]
    BY <1>6, <1>8, <2>2
  <2>4. OfVersion(n) \in SUBSET Objects
    BY <1>1, <2>1, VersionFacts
  <2>5. size \in Nat
    BY <2>4, ObjectsFinite
  <2> DEFINE rn == [dead[n] EXCEPT !.charge = size]
  <2>6. dead[n] = history[n] /\ dead[n] \in SiteVersion
    BY <1>1, <1>5, <2>1, VersionFacts
  <2> HIDE DEF size
  <2>7. rn \in SiteVersion /\ rn.upload = history[n].upload /\ rn.objects = history[n].objects
        /\ rn.charge = size /\ rn.dead = history[n].dead
    <3>1. /\ rn \in SiteVersion /\ rn.upload = dead[n].upload /\ rn.objects = dead[n].objects
          /\ rn.charge = size /\ rn.dead = dead[n].dead
      BY <2>5, <2>6, RecordMoves
    <3> HIDE DEF rn
    <3>2. QED
      BY <2>6, <3>1
  <2>8. history' = [dead EXCEPT ![n] = rn]
    BY <2>3
  <2> HIDE DEF rn
  <2>9. n \in 1..Len(dead)
    BY <1>2, <1>5, <2>1
  <2>10. history' \in Seq(SiteVersion) /\ Len(history') = Len(history) /\ DOMAIN history' = DOMAIN history
        /\ \A w \in DOMAIN history : history'[w] = IF w = n THEN rn ELSE dead[w]
    <3>1. history' \in Seq(SiteVersion) /\ Len(history') = Len(dead)
          /\ \A w \in 1..Len(dead) : history'[w] = IF w = n THEN rn ELSE dead[w]
      BY <1>5, <2>7, <2>8, <2>9, ExceptSeq
    <3>2. DOMAIN history' = 1..Len(history')
      BY <3>1
    <3>3. QED
      BY <1>2, <1>5, <3>1, <3>2
  <2>11. \A w \in DOMAIN history : history'[w].dead <=> w = v \/ history[w].dead
    BY <1>3, <1>5, <2>1, <2>7, <2>10
  <2>12. Retained' = Retained \ {v}
    BY <2>10, <2>11 DEF Retained
  <2>13. history'[n].charge = size
    BY <2>1, <2>7, <2>10
  <2>14. \A w \in DOMAIN history :
               /\ history'[w].upload = history[w].upload /\ history'[w].objects = history[w].objects
               /\ w # n => history'[w].charge = history[w].charge
    BY <1>3, <1>5, <2>7, <2>10
  <2>15. QED
    BY <2>10, <2>12, <2>13, <2>14 DEF size
<1>9. QED
  BY <1>7, <1>8

\* The place before a version among some versions is the newest below it.
LEMMA BeforeIs ==
  ASSUME NEW n \in Nat, NEW R \in SUBSET (1..n), NEW v \in Nat, NEW p \in R \union {0}, p < v,
         \A w \in R : w < v => w <= p
  PROVE  Max({w \in R : w < v} \union {0}) = p
<1> DEFINE S == {w \in R : w < v}
<1>1. S \in SUBSET (1..n)
  OBVIOUS
<1>2. \A i \in S : i \in Nat /\ i > 0 /\ i <= p
  OBVIOUS
<1>3. p \in S \union {0} /\ p \in Nat
  OBVIOUS
<1> HIDE DEF S
<1>4. Max(S \union {0}) \in S \union {0} /\ \A i \in S : i <= Max(S \union {0})
  BY <1>1, NewestOf
<1>5. Max(S \union {0}) = p
  <2> DEFINE m == Max(S \union {0})
  <2> HIDE DEF m
  <2>1. m \in S \union {0} /\ \A i \in S : i <= m
    BY <1>4 DEF m
  <2>2. m <= p
    BY <1>2, <1>3, <2>1
  <2>3. p <= m
    BY <1>2, <1>3, <2>1
  <2>4. m \in Nat
    BY <1>2, <2>1
  <2>5. m = p
    BY <1>3, <2>2, <2>3, <2>4
  <2>6. QED
    BY <2>5 DEF m
<1>6. QED
  BY <1>5 DEF S

\* The kept version before the next one is this one.
LEMMA BeforeNext ==
  ASSUME SiteTypes, NEW v \in Retained, NEW n, n = NextOf(v), n # 0
  PROVE  /\ n \in Retained /\ n > v /\ n \in Nat /\ v \in Nat
         /\ \A w \in Retained : w < n => w <= v
         /\ PrevOf(n) = v
<1>1. /\ v \in DOMAIN history /\ Retained \in SUBSET (1..Len(history)) /\ Len(history) \in Nat
      /\ n \in Retained /\ n > v /\ \A w \in Retained : w > v => n <= w
  BY Neighbours DEF Retained
<1>2. n \in Nat /\ v \in Nat /\ \A w \in Retained : w \in Nat
  BY <1>1
<1>3. \A w \in Retained : w < n => w <= v
  BY <1>1, <1>2
<1>4. PrevOf(n) = v
  BY <1>1, <1>2, <1>3, BeforeIs DEF PrevOf
<1>5. QED
  BY <1>1, <1>2, <1>3, <1>4

\* The versions before the others, once one is deleted.
LEMMA PrevMoves ==
  ASSUME SiteTypes, NEW v \in Retained, NEW n, n = NextOf(v), NEW p, p = PrevOf(v),
         Retained' = Retained \ {v}
  PROVE  /\ \A w \in Retained \ {v} : w # n => PrevOf(w)' = PrevOf(w) /\ PrevOf(w) # v
         /\ n # 0 => PrevOf(n)' = p
<1>1. /\ v \in DOMAIN history /\ Retained \in SUBSET (1..Len(history)) /\ Len(history) \in Nat
      /\ p \in Retained \union {0} /\ p < v /\ \A w \in Retained : w < v => w <= p
      /\ n \in Retained \union {0}
      /\ \A w \in Retained : w > v => n # 0 /\ n <= w
  BY Neighbours DEF Retained
<1>2. \A w \in Retained : w \in Nat /\ w > 0
  BY <1>1
<1>3. n # 0 => n > v
  BY <1>1, <1>2, BeforeNext
<1> DEFINE R == Retained \ {v}
           k == Len(history)
<1>4. R \in SUBSET (1..k) /\ k \in Nat
  BY <1>1
<1>5. ASSUME NEW w \in Retained \ {v}, w # n PROVE PrevOf(w)' = PrevOf(w) /\ PrevOf(w) # v
  <2> PICK q \in Nat : q = PrevOf(w)
    BY <1>1, <1>2, Neighbours
  <2>1. q \in Retained \union {0} /\ q < w /\ \A x \in Retained : x < w => x <= q
    BY <1>1, Neighbours
  <2>2. q # v
    <3> SUFFICES ASSUME q = v PROVE FALSE
      OBVIOUS
    <3>1. n # 0 /\ n <= w /\ n < w
      BY <1>1, <1>2, <1>5, <2>1
    <3>2. n <= v
      BY <1>1, <2>1, <3>1
    <3>3. QED
      BY <1>1, <1>2, <1>3, <3>1, <3>2
  <2>3. q \in R \union {0} /\ w \in Nat /\ \A x \in R : x < w => x <= q
    BY <1>2, <2>1, <2>2
  <2> HIDE DEF R, k
  <2>4. Max({x \in R : x < w} \union {0}) = q
    BY <1>4, <2>1, <2>3, BeforeIs
  <2>5. PrevOf(w)' = q
    BY <2>4 DEF PrevOf, R
  <2>6. QED
    BY <2>2, <2>5
<1>6. ASSUME n # 0 PROVE PrevOf(n)' = p
  <2>1. p \in R \union {0} /\ n \in Nat /\ p < n /\ \A x \in R : x < n => x <= p
    BY <1>1, <1>2, <1>3, <1>6
  <2> HIDE DEF R, k
  <2>2. Max({x \in R : x < n} \union {0}) = p
    BY <1>4, <2>1, BeforeIs
  <2>3. QED
    BY <2>2 DEF PrevOf, R
<1>7. QED
  BY <1>5, <1>6

\* A sum with one more term.
LEMMA SumAdd ==
  ASSUME NEW R, IsFiniteSet(R), NEW v, v \notin R, NEW Q, Q = R \union {v},
         NEW f \in [R -> Nat], NEW g \in [Q -> Nat], \A w \in R : g[w] = f[w]
  PROVE  Total(g) = Total(f) + g[v] /\ Total(f) \in Nat
<1> DEFINE S == {v}
           h == [x \in S |-> g[v]]
<1>1. IsFiniteSet(S) /\ R \cap S = {} /\ Q = R \union S
  BY FS_Singleton
<1>2. h \in [S -> Nat] /\ (\A x \in S : g[x] = h[x]) /\ h[v] = g[v]
  OBVIOUS
<1>3. h \in [{v} -> Nat]
  BY <1>2
<1> HIDE DEF h
<1>4. Total(h) = g[v]
  BY <1>2, <1>3, TotalOne
<1> HIDE DEF S
<1>5. Total(g) = Total(f) + Total(h)
  BY <1>1, <1>2, TotalUnion
<1>6. QED
  BY <1>4, <1>5, TotalNat

\* Deleting a version leaves the others charged for what they do not share.
LEMMA DeleteCharges ==
  ASSUME SiteInv, NEW v \in Retained, history' = Recharged(v)
  PROVE  ChargedApart' /\ SumOfCharges'
<1> PICK n \in Nat, p \in Nat : n = NextOf(v) /\ p = PrevOf(v)
  BY Neighbours, VersionFacts DEF SiteInv, Retained
<1>0. SiteTypes /\ Runs /\ ChargedApart /\ SumOfCharges /\ v \in DOMAIN history
  BY DEF SiteInv, Retained
<1>1. /\ history' \in Seq(SiteVersion) /\ DOMAIN history' = DOMAIN history
      /\ \A w \in DOMAIN history :
               /\ history'[w].upload = history[w].upload /\ history'[w].objects = history[w].objects
               /\ w # n => history'[w].charge = history[w].charge
      /\ Retained' = Retained \ {v}
      /\ n # 0 => history'[n].charge = StoredSize(OfVersion(n) \ OfVersion(p))
  BY RechargedIs
<1>2. /\ \A w \in Retained \ {v} : w # n => PrevOf(w)' = PrevOf(w) /\ PrevOf(w) # v
      /\ n # 0 => PrevOf(n)' = p
  BY <1>0, <1>1, PrevMoves
<1>3. \A w \in DOMAIN history : w # 0 /\ OfVersion(w) = history[w].objects /\ OfVersion(w) \in SUBSET Objects
  BY <1>0, VersionFacts
<1>4. /\ n \in Retained \union {0} /\ p \in Retained \union {0}
      /\ n # 0 => n \in Retained /\ n \in DOMAIN history /\ n # v /\ PrevOf(n) = v
  <2>1. n \in Retained \union {0} /\ p \in Retained \union {0}
    BY <1>0, Neighbours
  <2>2. n # 0 => n \in Retained /\ n > v /\ v \in Nat /\ PrevOf(n) = v
    BY <1>0, BeforeNext
  <2>3. QED
    BY <2>1, <2>2 DEF Retained
<1>5. \A w \in DOMAIN history \union {0} : OfVersion(w)' = OfVersion(w)
  BY <1>1 DEF OfVersion
<1>6. OfVersion(v) \in SUBSET Objects /\ OfVersion(n) \in SUBSET Objects /\ OfVersion(p) \in SUBSET Objects
  <2>1. OfVersion(0) = {}
    BY DEF OfVersion
  <2>2. QED
    BY <1>3, <1>4, <2>1 DEF Retained
<1>7. StoredSize(OfVersion(n) \ OfVersion(p)) \in Nat
  BY <1>6, ObjectsFinite
<1>8. \A w \in DOMAIN history' : history'[w].charge = NoCharge => w = 1
  <2>1. \A w \in DOMAIN history : history[w].charge = NoCharge => w = 1
    BY <1>0 DEF ChargedApart
  <2>2. n # 0 => history'[n].charge # NoCharge
    BY <1>1, <1>7 DEF NoCharge
  <2>3. QED
    BY <1>1, <1>4, <2>1, <2>2
<1>9. ASSUME NEW w \in Retained \ {v}, w # n
      PROVE  VersionCharge(w)' = VersionCharge(w)
             /\ VersionCharge(w)' = StoredSize(OfVersion(w) \ OfVersion(PrevOf(w)))'
  <2>1. VersionCharge(w) = StoredSize(OfVersion(w) \ OfVersion(PrevOf(w)))
    BY <1>0 DEF ChargedApart
  <2>2. VersionCharge(w)' = VersionCharge(w)
    BY <1>1, <1>9 DEF VersionCharge, Retained
  <2>3. PICK q : q = PrevOf(w) /\ q \in Retained \union {0}
    BY <1>0, Neighbours DEF Retained
  <2>4. OfVersion(q)' = OfVersion(q) /\ OfVersion(w)' = OfVersion(w)
    BY <1>5, <2>3 DEF Retained
  <2>5. PrevOf(w)' = q
    BY <1>2, <1>9, <2>3
  <2>6. OfVersion(PrevOf(w))' = OfVersion(q)
    BY <2>4, <2>5 DEF OfVersion
  <2>7. QED
    BY <2>1, <2>2, <2>3, <2>4, <2>6
<1>10. n # 0 => VersionCharge(n)' = StoredSize(OfVersion(n) \ OfVersion(p))
                /\ VersionCharge(n)' = StoredSize(OfVersion(n) \ OfVersion(PrevOf(n)))'
  <2> SUFFICES ASSUME n # 0 PROVE VersionCharge(n)' = StoredSize(OfVersion(n) \ OfVersion(p))
                /\ VersionCharge(n)' = StoredSize(OfVersion(n) \ OfVersion(PrevOf(n)))'
    OBVIOUS
  <2>1. history'[n].charge = StoredSize(OfVersion(n) \ OfVersion(p))
    BY <1>1
  <2>2. VersionCharge(n)' = StoredSize(OfVersion(n) \ OfVersion(p))
    BY <1>7, <2>1 DEF VersionCharge, NoCharge
  <2>3. OfVersion(n)' = OfVersion(n) /\ OfVersion(p)' = OfVersion(p)
    BY <1>4, <1>5 DEF Retained
  <2>4. OfVersion(PrevOf(n))' = OfVersion(p)
    BY <1>2, <2>3 DEF OfVersion
  <2>5. QED
    BY <2>2, <2>3, <2>4
<1>11. ChargedApart'
  <2>1. \A w \in Retained' : VersionCharge(w)' = StoredSize(OfVersion(w) \ OfVersion(PrevOf(w)))'
    BY <1>1, <1>3, <1>9, <1>10 DEF Retained
  <2>2. QED
    BY <1>8, <2>1 DEF ChargedApart
<1>12. SumOfCharges'
  <2> DEFINE R == Retained
             f == [w \in R |-> VersionCharge(w)]
             g == [w \in R \ {v} |-> VersionCharge(w)']
             all == NamedBy(R)
             freed == Freed(v)
  <2>1. IsFiniteSet(R) /\ R \in SUBSET (1..Len(history))
    <3>1. R \in SUBSET (1..Len(history)) /\ Len(history) \in Nat
      BY <1>0, Neighbours
    <3>2. IsFiniteSet(1..Len(history))
      BY <3>1, FS_Interval
    <3>3. QED
      BY <3>1, <3>2, FS_Subset
  <2>2. \A w \in R : OfVersion(w) \in SUBSET Objects /\ OfVersion(PrevOf(w)) \in SUBSET Objects
    <3>1. \A w \in R : PrevOf(w) \in Retained \union {0}
      BY <1>0, Neighbours DEF Retained
    <3>2. OfVersion(0) = {}
      BY DEF OfVersion
    <3>3. QED
      BY <1>3, <3>1, <3>2 DEF Retained
  <2>3. \A w \in R : VersionCharge(w) \in Nat /\ VersionCharge(w) = StoredSize(OfVersion(w) \ OfVersion(PrevOf(w)))
    <3> SUFFICES ASSUME NEW w \in R
                 PROVE  VersionCharge(w) \in Nat /\ VersionCharge(w) = StoredSize(OfVersion(w) \ OfVersion(PrevOf(w)))
      OBVIOUS
    <3>1. VersionCharge(w) = StoredSize(OfVersion(w) \ OfVersion(PrevOf(w)))
      BY <1>0 DEF ChargedApart
    <3> DEFINE D == OfVersion(w) \ OfVersion(PrevOf(w))
    <3>2. D \in SUBSET Objects
      BY <2>2
    <3> HIDE DEF D
    <3>3. StoredSize(D) \in Nat
      BY <3>2, ObjectsFinite
    <3>4. QED
      BY <3>1, <3>3 DEF D
  <2>4. \A w \in R \ {v} : VersionCharge(w)' \in Nat
    <3>1. ASSUME NEW w \in R \ {v}, w # n PROVE VersionCharge(w)' \in Nat
      <4>1. VersionCharge(w)' = VersionCharge(w)
        BY <1>9, <3>1
      <4>2. QED
        BY <2>3, <3>1, <4>1
    <3>2. ASSUME n \in R PROVE VersionCharge(n)' \in Nat
      <4>1. n # 0
        BY <1>3, <3>2 DEF Retained
      <4>2. VersionCharge(n)' = StoredSize(OfVersion(n) \ OfVersion(p))
        BY <1>10, <4>1
      <4>3. QED
        BY <1>7, <4>2
    <3>3. QED
      BY <3>1, <3>2
  <2>5. f \in [R -> Nat] /\ g \in [R \ {v} -> Nat] /\ (\A w \in R : f[w] = VersionCharge(w))
        /\ \A w \in R \ {v} : g[w] = VersionCharge(w)'
    BY <2>3, <2>4
  <2>6. [w \in Retained |-> VersionCharge(w)]' = g
    BY <1>1
  <2>7. NamedBy(Retained)' = NamedBy(R \ {v})
    BY <1>1 DEF NamedBy, Retained
  <2>8. all \in SUBSET Objects /\ freed \in SUBSET Objects /\ freed \subseteq all /\ NamedBy(R \ {v}) = all \ freed
    BY <1>0, <1>3, FreedAlone DEF NamedBy, Retained
  <2>9. StoredSize(all) = StoredSize(all \ freed) + StoredSize(freed)
        /\ StoredSize(all \ freed) \in Nat /\ StoredSize(freed) \in Nat
    <3> DEFINE A == all \ freed
    <3>1. A \in SUBSET Objects /\ A \cap freed = {} /\ all = A \union freed
      BY <2>8
    <3> HIDE DEF A, all, freed
    <3>2. StoredSize(all) = StoredSize(A) + StoredSize(freed) /\ StoredSize(A) \in Nat /\ StoredSize(freed) \in Nat
      BY <2>8, <3>1, SizeUnion, ObjectsFinite
    <3>3. QED
      BY <3>2 DEF A
  <2>10. Total(f) = StoredSize(all)
    BY <1>0 DEF SumOfCharges
  <2>11. Total(g) = StoredSize(all \ freed)
    <3>1. CASE n = 0
      <4>1. freed = OfVersion(v) \ OfVersion(p)
        BY <3>1 DEF Freed, OfVersion
      <4>2. f[v] = StoredSize(freed)
        BY <2>3, <2>5, <4>1
      <4>3. \A w \in R \ {v} : g[w] = f[w]
        BY <1>3, <1>9, <2>5, <3>1 DEF Retained
      <4> DEFINE A == R \ {v}
      <4>4. IsFiniteSet(A) /\ v \notin A /\ A \union {v} = R
        BY <2>1, FS_Subset
      <4> HIDE DEF f, g
      <4>5. f \in [R -> Nat] /\ g \in [A -> Nat] /\ \A w \in A : f[w] = g[w]
        BY <2>5, <4>3, <4>4
      <4> HIDE DEF A, R
      <4>6. Total(f) = Total(g) + f[v] /\ Total(g) \in Nat
        BY <4>4, <4>5, SumAdd
      <4> HIDE DEF all, freed
      <4>7. QED
        BY <2>9, <2>10, <4>2, <4>6
    <3>2. CASE n # 0
      <4>1. n \in R \ {v} /\ PrevOf(n) = v
        BY <1>4, <3>2
      <4>2. \A w \in R \ {v} : w # n => g[w] = f[w]
        BY <1>9, <2>5
      <4>3. /\ f[v] = StoredSize(OfVersion(v) \ OfVersion(p))
            /\ f[n] = StoredSize(OfVersion(n) \ OfVersion(v))
            /\ g[n] = StoredSize(OfVersion(n) \ OfVersion(p))
        BY <1>10, <2>3, <2>5, <3>2, <4>1
      <4>4. OfVersion(p) \cap OfVersion(n) \subseteq OfVersion(v)
        <5>1. CASE p = 0
          BY <5>1 DEF OfVersion
        <5>2. CASE p # 0
          <6>1. p \in DOMAIN history /\ n \in DOMAIN history /\ p < v /\ v < n
            <7>1. p < v
              BY <1>0, Neighbours
            <7>2. v < n
              BY <1>0, <3>2, BeforeNext
            <7>3. QED
              BY <1>4, <3>2, <5>2, <7>1, <7>2 DEF Retained
          <6>2. QED
            BY <1>0, <1>3, <6>1 DEF Runs
        <5>3. QED
          BY <5>1, <5>2
      <4>8. v \in R /\ freed = OfVersion(v) \ (OfVersion(p) \union OfVersion(n))
        BY DEF Freed
      <4> DEFINE A == R \ {v}
      <4>9. A = R \ {v} /\ n \in A /\ g \in [A -> Nat] /\ \A w \in A : w # n => g[w] = f[w]
        BY <2>5, <4>1, <4>2
      <4>10. f \in [R -> Nat]
        BY <2>5
      <4> DEFINE B == A \ {n}
                 rest == [x \in B |-> f[x]]
                 kept == [x \in A |-> f[x]]
      <4>5. Total(g) + f[v] + f[n] = Total(f) + g[n] /\ Total(g) \in Nat /\ Total(f) \in Nat
        <5> HIDE DEF f, g, R, freed, all
        <5>1. /\ IsFiniteSet(A) /\ IsFiniteSet(B) /\ A = B \union {n} /\ R = A \union {v}
              /\ v \notin A /\ n \notin B
          BY <2>1, <4>8, <4>9, FS_Subset
        <5> HIDE DEF A
        <5>2. /\ rest \in [B -> Nat] /\ kept \in [A -> Nat] /\ kept[n] = f[n]
              /\ g[n] \in Nat /\ f[n] \in Nat /\ f[v] \in Nat
          BY <4>9, <4>10, <5>1
        <5>3. (\A x \in B : g[x] = rest[x]) /\ (\A x \in B : kept[x] = rest[x]) /\ \A x \in A : f[x] = kept[x]
          BY <4>9, <5>1
        <5> HIDE DEF rest, kept, B
        <5>4. Total(f) = Total(kept) + f[v]
          BY <4>10, <5>1, <5>2, <5>3, SumAdd
        <5>5. Total(kept) = Total(rest) + kept[n] /\ Total(rest) \in Nat
          BY <5>1, <5>2, <5>3, SumAdd
        <5>6. Total(g) = Total(rest) + g[n]
          <6>1. g \in [A -> Nat]
            BY <4>9
          <6>2. QED
            BY <5>1, <5>2, <5>3, <6>1, SumAdd
        <5>7. QED
          BY <5>2, <5>4, <5>5, <5>6
      <4> HIDE DEF f, g, R, freed, all
      <4>6. /\ StoredSize(OfVersion(v) \ OfVersion(p)) + StoredSize(OfVersion(n) \ OfVersion(v))
                 = StoredSize(OfVersion(n) \ OfVersion(p)) + StoredSize(freed)
            /\ StoredSize(OfVersion(v) \ OfVersion(p)) \in Nat /\ StoredSize(OfVersion(n) \ OfVersion(v)) \in Nat
            /\ StoredSize(OfVersion(n) \ OfVersion(p)) \in Nat
        <5> DEFINE P == OfVersion(p)
                   V == OfVersion(v)
                   N == OfVersion(n)
        <5>1. P \in SUBSET Objects /\ V \in SUBSET Objects /\ N \in SUBSET Objects /\ P \cap N \subseteq V
              /\ freed = V \ (P \union N)
          BY <1>6, <4>4, <4>8
        <5> HIDE DEF P, V, N
        <5> DEFINE X == (V \cap N) \ P
                   L == N \ V
                   VP == V \ P
                   NP == N \ P
        <5>2. /\ X \in SUBSET Objects /\ L \in SUBSET Objects /\ VP \in SUBSET Objects /\ NP \in SUBSET Objects
              /\ VP = X \union freed /\ X \cap freed = {} /\ NP = X \union L /\ X \cap L = {}
          BY <5>1
        <5> HIDE DEF X, L, VP, NP
        <5>3. StoredSize(VP) = StoredSize(X) + StoredSize(freed)
          BY <2>8, <5>2, SizeUnion
        <5>4. StoredSize(NP) = StoredSize(X) + StoredSize(L)
          BY <5>2, SizeUnion
        <5>5. /\ StoredSize(X) \in Nat /\ StoredSize(L) \in Nat /\ StoredSize(VP) \in Nat
              /\ StoredSize(NP) \in Nat /\ StoredSize(freed) \in Nat
          BY <2>8, <5>2, ObjectsFinite
        <5>6. StoredSize(VP) + StoredSize(L) = StoredSize(NP) + StoredSize(freed)
          BY <5>3, <5>4, <5>5
        <5>7. QED
          BY <5>5, <5>6 DEF VP, NP, L, P, V, N
      <4>7. QED
        BY <2>9, <2>10, <4>3, <4>5, <4>6
    <3>3. QED
      BY <3>1, <3>2
  <2> HIDE DEF f, g, all, freed
  <2>12. Total(g) = StoredSize(NamedBy(R \ {v}))
    BY <2>8, <2>11
  <2>13. QED
    BY <2>6, <2>7, <2>12 DEF SumOfCharges
<1>13. QED
  BY <1>11, <1>12

\* A version delete keeps the site exact.
LEMMA DeleteKeeps ==
  ASSUME SiteInv, NEW v \in Retained, DeleteVersion(v)
  PROVE  SiteInv'
<1>1. SiteTypes /\ UploadsApart /\ Runs /\ Safe /\ Leftovers /\ v \in DOMAIN history /\ Retained \subseteq DOMAIN history
  BY DEF SiteInv, Retained
<1>2. history' = Recharged(v) /\ Releases(FreedBy(v)) /\ UNCHANGED <<pinned, stored, deploy>>
  BY DEF DeleteVersion
<1>3. /\ history' \in Seq(SiteVersion) /\ DOMAIN history' = DOMAIN history
      /\ \A w \in DOMAIN history : history'[w].upload = history[w].upload /\ history'[w].objects = history[w].objects
      /\ Retained' = Retained \ {v}
  BY <1>2, RechargedIs
<1>4. NamedBy(Retained)' = NamedBy(Retained \ {v}) /\ NamedBy(DOMAIN history)' = NamedBy(DOMAIN history)
      /\ NamedBy(Retained \ {v}) = NamedBy(Retained) \ Freed(v)
  <2>1. NamedBy(Retained)' = NamedBy(Retained \ {v})
    BY <1>1, <1>3 DEF NamedBy
  <2>2. NamedBy(DOMAIN history)' = NamedBy(DOMAIN history)
    BY <1>3 DEF NamedBy
  <2>3. QED
    BY <1>1, <2>1, <2>2, FreedAlone
<1>5. release' \in {release, release \union FreedBy(v)} /\ slips' \in {slips, slips + 1} /\ slips \in Nat
      /\ (slips' = 0 => slips = 0 /\ release' = release \union FreedBy(v))
  BY <1>1, <1>2 DEF Releases, Slips, SiteTypes
<1>6. /\ FreedBy(v) \subseteq SUBSET Objects
      /\ \A x \in FreedBy(v) : \A o \in x : deploy[o[1]].stage = "over" /\ o \notin NamedBy(Retained \ {v})
      /\ \A o \in Freed(v) : \E x \in FreedBy(v) : o \in x
  BY <1>1, FreedIsFree
<1>7. SiteTypes'
  BY <1>1, <1>2, <1>3, <1>5, <1>6 DEF SiteTypes
<1>8. UploadsApart'
  <2>1. \A w \in DOMAIN history' : deploy'[history'[w].upload].stage = "over"
    BY <1>1, <1>2, <1>3 DEF UploadsApart
  <2>2. \A w, x \in DOMAIN history' : history'[w].upload = history'[x].upload => w = x
    BY <1>1, <1>3 DEF UploadsApart
  <2>3. \A w \in DOMAIN history' : \A o \in history'[w].objects :
          \E i \in DOMAIN history' : i <= w /\ history'[i].upload = o[1] /\ o \in history'[i].objects
    BY <1>1, <1>3 DEF UploadsApart
  <2>4. QED
    BY <2>1, <2>2, <2>3 DEF UploadsApart
<1>9. Runs'
  BY <1>1, <1>3 DEF Runs
<1>10. Safe'
  <2>1. \A w \in Retained' : history'[w].objects \subseteq stored'
    BY <1>1, <1>2, <1>3 DEF Safe
  <2>2. \A x \in release' : \A o \in x : deploy'[o[1]].stage = "over" /\ o \notin NamedBy(Retained)'
    <3>1. \A x \in release : \A o \in x : deploy[o[1]].stage = "over" /\ o \notin NamedBy(Retained)
      BY <1>1 DEF Safe
    <3>2. \A x \in release' : x \in release \/ x \in FreedBy(v)
      BY <1>5
    <3>3. NamedBy(Retained)' = NamedBy(Retained \ {v}) /\ NamedBy(Retained \ {v}) \subseteq NamedBy(Retained)
      BY <1>4
    <3>4. ASSUME NEW x \in release', NEW o \in x
          PROVE  deploy[o[1]].stage = "over" /\ o \notin NamedBy(Retained)'
      <4>1. CASE x \in release
        <5>1. deploy[o[1]].stage = "over" /\ o \notin NamedBy(Retained)
          BY <3>1, <3>4, <4>1
        <5>2. QED
          BY <3>3, <5>1
      <4>2. CASE x \in FreedBy(v)
        <5>1. deploy[o[1]].stage = "over" /\ o \notin NamedBy(Retained \ {v})
          BY <1>6, <3>4, <4>2
        <5>2. QED
          BY <3>3, <5>1
      <4>3. QED
        BY <3>2, <4>1, <4>2
    <3>5. QED
      BY <1>2, <3>4
  <2>3. \A u \in Uploads : deploy'[u].stage = "staged" => \A o \in deploy'[u].objects : o[1] = u => o \in stored'
    BY <1>1, <1>2 DEF Safe
  <2>4. QED
    BY <2>1, <2>2, <2>3 DEF Safe
<1>11. ChargedApart' /\ SumOfCharges'
  BY <1>2, DeleteCharges
<1>12. Leftovers'
  <2> SUFFICES ASSUME slips' = 0, NEW o \in stored \ NamedBy(Retained \ {v})
               PROVE  (\E x \in release' : o \in x)
                      \/ (o \notin NamedBy(DOMAIN history) /\ o[1] \in KeptPrefixes')
    BY <1>2, <1>4 DEF Leftovers
  <2>1. slips = 0 /\ release' = release \union FreedBy(v)
    BY <1>5
  <2>2. CASE o \in NamedBy(Retained)
    BY <1>4, <1>6, <2>1, <2>2
  <2>3. CASE o \notin NamedBy(Retained) /\ \E x \in release : o \in x
    BY <2>1, <2>3
  <2>4. CASE o \notin NamedBy(DOMAIN history) /\ o[1] \in KeptPrefixes /\ o[1] \notin KeptPrefixes'
    <3>1. KeptPrefixes' = {x[1] : x \in NamedBy(Retained \ {v})} \union {history[w].upload : w \in Retained \ {v}}
                          \union {u \in Uploads : deploy[u].stage = "staged"}
      <4>1. {history'[w].upload : w \in Retained'} = {history[w].upload : w \in Retained \ {v}}
        <5>1. \A w \in Retained \ {v} : history'[w].upload = history[w].upload
          BY <1>3 DEF Retained
        <5>2. QED
          BY <1>3, <5>1
      <4>2. {x[1] : x \in NamedBy(Retained)'} = {x[1] : x \in NamedBy(Retained \ {v})}
        BY <1>4
      <4>3. deploy' = deploy
        BY <1>2
      <4>4. QED
        BY <4>1, <4>2, <4>3 DEF KeptPrefixes
    <3>2. o[1] \in FreedPrefixes(v)
      <4> DEFINE near == OfVersion(PrevOf(v)) \union OfVersion(NextOf(v))
      <4>1. \A x \in near : x \in NamedBy(Retained \ {v})
        BY <1>1, NeighboursKept DEF NamedBy
      <4>2. o[1] \notin {x[1] : x \in near}
        BY <2>4, <3>1, <4>1
      <4>3. CASE o[1] = history[v].upload
        <5>1. o[1] \in {history[w].upload : w \in (DOMAIN history \ Retained) \union {v}}
          BY <4>3
        <5>2. QED
          BY <4>2, <4>3, <5>1 DEF FreedPrefixes
      <4>4. CASE o[1] # history[v].upload
        <5>1. PICK y \in NamedBy(Retained) : y[1] = o[1] /\ y \notin NamedBy(Retained \ {v})
          BY <2>4, <3>1, <4>4 DEF KeptPrefixes
        <5>2. y \in Freed(v)
          BY <1>4, <5>1
        <5>3. PICK w \in DOMAIN history : history[w].upload = o[1]
          BY <1>1, <5>1 DEF NamedBy, UploadsApart
        <5>4. w \in (DOMAIN history \ Retained) \union {v}
          BY <2>4, <3>1, <5>3
        <5>5. o[1] \in {history[x].upload : x \in (DOMAIN history \ Retained) \union {v}}
          BY <5>3, <5>4
        <5>6. o[1] \in {x[1] : x \in Freed(v)}
          BY <5>1, <5>2
        <5>7. QED
          BY <4>2, <5>5, <5>6 DEF FreedPrefixes
      <4>5. QED
        BY <4>3, <4>4
    <3>3. o \in Objects
      BY <1>1 DEF SiteTypes
    <3>4. o \in Prefix(o[1])
      BY <3>3 DEF Prefix, Objects
    <3>5. Prefix(o[1]) \in FreedBy(v)
      BY <3>2 DEF FreedBy
    <3>6. QED
      BY <2>1, <3>4, <3>5
  <2>5. QED
    BY <1>1, <2>1, <2>2, <2>3, <2>4 DEF Leftovers
<1>13. QED
  BY <1>7, <1>8, <1>9, <1>10, <1>11, <1>12 DEF SiteInv

-----------------------------------------------------------------------------
(* An append. *)

\* The versions after a publication.
LEMMA PublishedIs ==
  ASSUME SiteInv, NEW u \in Uploads, deploy[u].stage = "staged", history' = Published(u), NEW k, k = Len(history) + 1
  PROVE  /\ history' \in Seq(SiteVersion) /\ DOMAIN history' = DOMAIN history \union {k}
         /\ k \notin DOMAIN history /\ k \in Nat /\ k # 0 /\ \A w \in DOMAIN history : w < k /\ w \in Nat
         /\ \A w \in DOMAIN history : history'[w] = history[w]
         /\ history'[k].upload = u /\ history'[k].objects = deploy[u].objects /\ ~history'[k].dead
         /\ history'[k].charge = StoredSize({o \in deploy[u].objects : o[1] = u})
         /\ history'[k].charge \in Nat
         /\ Retained' = Retained \union {k} /\ Retained \in SUBSET (1..Len(history)) /\ Len(history) \in Nat
<1> DEFINE own == {o \in deploy[u].objects : o[1] = u}
           e == [upload |-> u, objects |-> deploy[u].objects, dead |-> FALSE, charge |-> StoredSize(own)]
<1>1. history \in Seq(SiteVersion) /\ deploy[u].objects \in SUBSET Objects
  BY DEF SiteInv, SiteTypes, DeployRecord
<1>2. own \in SUBSET Objects
  BY <1>1
<1> HIDE DEF own
<1>3. StoredSize(own) \in Nat
  BY <1>2, ObjectsFinite
<1>4. e \in SiteVersion /\ e.upload = u /\ e.objects = deploy[u].objects /\ ~e.dead /\ e.charge = StoredSize(own)
  BY <1>1, <1>3 DEF SiteVersion
<1>5. history' = Append(history, e)
  BY DEF Published, own
<1> HIDE DEF e
<1>6. /\ history' \in Seq(SiteVersion) /\ Len(history') = Len(history) + 1
      /\ \A w \in 1..Len(history) : history'[w] = history[w]
      /\ history'[Len(history) + 1] = e
  BY <1>1, <1>4, <1>5, AppendProperties
<1>7. DOMAIN history' = 1..Len(history') /\ DOMAIN history = 1..Len(history) /\ Len(history) \in Nat
  BY <1>1, <1>6
<1>8. /\ DOMAIN history' = DOMAIN history \union {k}
      /\ k \notin DOMAIN history /\ k \in Nat /\ k # 0 /\ \A w \in DOMAIN history : w < k /\ w \in Nat
  BY <1>6, <1>7
<1>9. /\ \A w \in DOMAIN history : history'[w] = history[w]
      /\ history'[k] = e
  BY <1>6, <1>7
<1>10. Retained' = Retained \union {k} /\ Retained \in SUBSET (1..Len(history))
  BY <1>4, <1>7, <1>8, <1>9 DEF Retained
<1>11. QED
  BY <1>3, <1>4, <1>6, <1>7, <1>8, <1>9, <1>10 DEF own

\* What the deploys know of a staged upload.
LEMMA StagedApart ==
  ASSUME SiteInv, NEW u \in Uploads, deploy[u].stage \in {"none", "staged"}
  PROVE  /\ \A w \in DOMAIN history : history[w].upload # u /\ \A o \in history[w].objects : o[1] # u
         /\ \A o \in NamedBy(DOMAIN history) \union NamedBy(Retained) : o[1] # u
         /\ \A x \in release : \A o \in x : o[1] # u
<1>1. \A w \in DOMAIN history : history[w].upload # u
  BY DEF SiteInv, UploadsApart
<1>2. \A w \in DOMAIN history : \A o \in history[w].objects : o[1] # u
  BY <1>1 DEF SiteInv, UploadsApart
<1>3. \A o \in NamedBy(DOMAIN history) \union NamedBy(Retained) : o[1] # u
  BY <1>2 DEF NamedBy, Retained
<1>4. \A x \in release : \A o \in x : o[1] # u
  BY DEF SiteInv, Safe
<1>5. QED
  BY <1>1, <1>2, <1>3, <1>4

\* A published version is charged what the kept one before it does not hold.
LEMMA PublishCharges ==
  ASSUME SiteInv, NEW u \in Uploads, deploy[u].stage = "staged", MayReuse(u), history' = Published(u)
  PROVE  ChargedApart' /\ SumOfCharges'
<1> PICK head \in Nat : head = HeadVersion
  <2>1. Retained \in SUBSET (1..Len(history)) /\ Len(history) \in Nat
    BY Neighbours DEF SiteInv, SiteTypes, Retained
  <2>2. HeadVersion \in Retained \union {0}
    BY <2>1, NewestOf DEF HeadVersion
  <2>3. QED
    BY <2>1, <2>2
<1>0. SiteTypes /\ Runs /\ ChargedApart /\ SumOfCharges
  BY DEF SiteInv
<1>1. PICK k :
      /\ history' \in Seq(SiteVersion) /\ DOMAIN history' = DOMAIN history \union {k}
      /\ k \notin DOMAIN history /\ k \in Nat /\ k # 0 /\ \A w \in DOMAIN history : w < k /\ w \in Nat
      /\ \A w \in DOMAIN history : history'[w] = history[w]
      /\ history'[k].upload = u /\ history'[k].objects = deploy[u].objects
      /\ history'[k].charge = StoredSize({o \in deploy[u].objects : o[1] = u})
      /\ history'[k].charge \in Nat
      /\ Retained' = Retained \union {k} /\ Retained \in SUBSET (1..Len(history)) /\ Len(history) \in Nat
  <2>1. PICK k : k = Len(history) + 1
    OBVIOUS
  <2>2. /\ history' \in Seq(SiteVersion) /\ DOMAIN history' = DOMAIN history \union {k}
        /\ k \notin DOMAIN history /\ k \in Nat /\ k # 0 /\ \A w \in DOMAIN history : w < k /\ w \in Nat
        /\ \A w \in DOMAIN history : history'[w] = history[w]
        /\ history'[k].upload = u /\ history'[k].objects = deploy[u].objects
        /\ history'[k].charge = StoredSize({o \in deploy[u].objects : o[1] = u})
        /\ history'[k].charge \in Nat
        /\ Retained' = Retained \union {k} /\ Retained \in SUBSET (1..Len(history)) /\ Len(history) \in Nat
    BY <2>1, PublishedIs
  <2>3. QED
    BY <2>2
<1>2. head \in Retained \union {0} /\ \A w \in Retained : w <= head
  BY <1>1, NewestOf DEF HeadVersion
<1>3. \A w \in DOMAIN history : w # 0 /\ OfVersion(w) = history[w].objects /\ OfVersion(w) \in SUBSET Objects
  BY <1>0, VersionFacts
<1> DEFINE own == {o \in deploy[u].objects : o[1] = u}
           R == Retained
<1>4. /\ deploy[u].objects \in SUBSET Objects /\ own \in SUBSET Objects
      /\ \A o \in deploy[u].objects : o[1] = u \/ o \in OfVersion(head)
      /\ \A o \in OfVersion(head) : o[1] # u
  <2>1. \A o \in OfVersion(head) : o[1] # u
    BY <1>2, StagedApart DEF OfVersion, Retained
  <2>2. QED
    BY <1>0, <2>1 DEF MayReuse, SharesOnly, SiteTypes, DeployRecord
<1>5. OfVersion(k)' \ OfVersion(head) = own
  BY <1>1, <1>4 DEF OfVersion
<1>6. \A w \in DOMAIN history \union {0} : OfVersion(w)' = OfVersion(w)
  BY <1>1, <1>3 DEF OfVersion
<1>7. PrevOf(k)' = head
  <2> DEFINE Q == Retained \union {k}
  <2>1. \A w \in R : w \in 1..k /\ w < k
    BY <1>1 DEF Retained
  <2>2. k \in 1..k
    BY <1>1
  <2>3. Q \in SUBSET (1..k) /\ head \in Q \union {0}
    BY <1>2, <2>1, <2>2
  <2>4. ASSUME NEW w \in Q, w < k PROVE w <= head
    BY <1>1, <1>2, <2>4
  <2>5. head < k
    BY <1>1, <1>2, <2>1
  <2> HIDE DEF Q
  <2>6. Max({w \in Q : w < k} \union {0}) = head
    <3>1. k \in Nat /\ head \in Q \union {0}
      BY <1>1, <2>3
    <3>2. QED
      BY <2>3, <2>4, <2>5, <3>1, BeforeIs
  <2>7. QED
    BY <1>1, <2>6 DEF PrevOf, Q
<1>8. \A w \in R : PrevOf(w)' = PrevOf(w)
  <2> SUFFICES ASSUME NEW w \in R PROVE PrevOf(w)' = PrevOf(w)
    OBVIOUS
  <2>1. {x \in Retained : x < w} = {x \in Retained \union {k} : x < w}
    BY <1>1 DEF Retained
  <2>2. QED
    BY <1>1, <2>1 DEF PrevOf
<1>9. \A w \in R : VersionCharge(w)' = VersionCharge(w)
  BY <1>1 DEF VersionCharge, Retained
<1>10. VersionCharge(k)' = StoredSize(own)
  BY <1>1 DEF VersionCharge, NoCharge
<1>11. \A w \in R : PrevOf(w) \in Retained \union {0}
  BY <1>0, Neighbours DEF Retained
<1>12. ChargedApart'
  <2>1. \A w \in DOMAIN history' : history'[w].charge = NoCharge => w = 1
    <3>1. \A w \in DOMAIN history : history[w].charge = NoCharge => w = 1
      BY <1>0 DEF ChargedApart
    <3>2. history'[k].charge # NoCharge
      BY <1>1 DEF NoCharge
    <3>3. QED
      BY <1>1, <3>1, <3>2
  <2>2. ASSUME NEW w \in R PROVE VersionCharge(w)' = StoredSize(OfVersion(w) \ OfVersion(PrevOf(w)))'
    <3>1. VersionCharge(w) = StoredSize(OfVersion(w) \ OfVersion(PrevOf(w)))
      BY <1>0 DEF ChargedApart
    <3>2. PICK q : q = PrevOf(w) /\ q \in Retained \union {0}
      BY <1>11
    <3>3. OfVersion(q)' = OfVersion(q) /\ OfVersion(w)' = OfVersion(w)
      BY <1>6, <3>2 DEF Retained
    <3>4. OfVersion(PrevOf(w))' = OfVersion(q)
      BY <1>8, <3>2, <3>3 DEF OfVersion
    <3>5. QED
      BY <1>9, <3>1, <3>2, <3>3, <3>4
  <2>3. VersionCharge(k)' = StoredSize(OfVersion(k) \ OfVersion(PrevOf(k)))'
    <3>1. OfVersion(head)' = OfVersion(head)
      BY <1>2, <1>6 DEF Retained
    <3>2. OfVersion(PrevOf(k))' = OfVersion(head)
      BY <1>7, <3>1 DEF OfVersion
    <3>3. QED
      BY <1>5, <1>10, <3>2
  <2>4. QED
    BY <1>1, <2>1, <2>2, <2>3 DEF ChargedApart
<1>13. SumOfCharges'
  <2> DEFINE Q == R \union {k}
             f == [w \in R |-> VersionCharge(w)]
             g == [w \in Q |-> VersionCharge(w)']
             all == NamedBy(R)
             now == all \union own
  <2>1. IsFiniteSet(R) /\ k \notin R /\ Q = R \union {k}
    <3>1. IsFiniteSet(1..Len(history))
      BY <1>1, FS_Interval
    <3>2. QED
      BY <1>1, <3>1, FS_Subset DEF Retained
  <2>2. \A w \in R : VersionCharge(w) \in Nat
    <3> SUFFICES ASSUME NEW w \in R PROVE VersionCharge(w) \in Nat
      OBVIOUS
    <3>1. VersionCharge(w) = StoredSize(OfVersion(w) \ OfVersion(PrevOf(w)))
      BY <1>0 DEF ChargedApart
    <3> DEFINE D == OfVersion(w) \ OfVersion(PrevOf(w))
    <3>2. D \in SUBSET Objects
      BY <1>3 DEF Retained
    <3> HIDE DEF D
    <3>3. StoredSize(D) \in Nat
      BY <3>2, ObjectsFinite
    <3>4. QED
      BY <3>1, <3>3 DEF D
  <2>3. VersionCharge(k)' \in Nat
    BY <1>1, <1>10
  <2>4. f \in [R -> Nat] /\ g \in [Q -> Nat] /\ (\A w \in R : g[w] = f[w]) /\ g[k] = StoredSize(own)
    BY <1>9, <1>10, <2>2, <2>3
  <2>5. [w \in Retained |-> VersionCharge(w)]' = g
    BY <1>1
  <2>6. NamedBy(Retained)' = now
    <3>1. NamedBy(Retained)' = all \union deploy[u].objects
      BY <1>1 DEF NamedBy, Retained
    <3>2. OfVersion(head) \subseteq all
      BY <1>2, <1>3 DEF NamedBy, OfVersion, Retained
    <3>3. QED
      BY <1>4, <3>1, <3>2
  <2>7. all \in SUBSET Objects /\ own \in SUBSET Objects /\ all \cap own = {}
    <3>1. \A o \in all : o[1] # u
      BY StagedApart
    <3>2. all \in SUBSET Objects
      BY <1>3 DEF NamedBy, Retained
    <3>3. QED
      BY <1>4, <3>1, <3>2
  <2>8. Total(f) = StoredSize(all)
    BY <1>0 DEF SumOfCharges
  <2> HIDE DEF R, Q, f, g, all, own
  <2>9. Total(g) = Total(f) + g[k]
    <3>1. g \in [Q -> Nat]
      BY <2>4
    <3>2. f \in [R -> Nat] /\ \A w \in R : g[w] = f[w]
      BY <2>4
    <3>3. QED
      BY <2>1, <3>1, <3>2, SumAdd
  <2>10. StoredSize(all \union own) = StoredSize(all) + StoredSize(own)
    BY <2>7, SizeUnion
  <2>11. Total(g) = StoredSize(now)
    BY <2>4, <2>8, <2>9, <2>10
  <2>12. QED
    BY <2>5, <2>6, <2>11 DEF SumOfCharges
<1>14. QED
  BY <1>12, <1>13

\* An append keeps the site exact: published, refused or unanswered.
LEMMA PublishKeeps ==
  ASSUME SiteInv, NEW u \in Uploads, deploy[u].stage = "staged", MayReuse(u), history' = Published(u), Over(u),
         slips' \in {slips, slips + 1}, UNCHANGED <<pinned, stored, release>>
  PROVE  SiteInv'
<1> PICK k : k = Len(history) + 1
  OBVIOUS
<1> PICK head : head = HeadVersion
  OBVIOUS
<1>0. SiteTypes /\ UploadsApart /\ Runs /\ Safe /\ Leftovers
  BY DEF SiteInv
<1>1. /\ history' \in Seq(SiteVersion) /\ DOMAIN history' = DOMAIN history \union {k}
      /\ k \notin DOMAIN history /\ k \in Nat /\ k # 0 /\ \A w \in DOMAIN history : w < k /\ w \in Nat
      /\ \A w \in DOMAIN history : history'[w] = history[w]
      /\ history'[k].upload = u /\ history'[k].objects = deploy[u].objects
      /\ Retained' = Retained \union {k} /\ Retained \in SUBSET (1..Len(history)) /\ Len(history) \in Nat
  BY PublishedIs
<1>2. head \in Retained \union {0} /\ (\A w \in Retained : w <= head) /\ Retained \subseteq DOMAIN history
  BY <1>1, NewestOf DEF HeadVersion, Retained
<1>3. /\ \A w \in DOMAIN history : history[w].upload # u /\ \A o \in history[w].objects : o[1] # u
      /\ \A o \in NamedBy(DOMAIN history) \union NamedBy(Retained) : o[1] # u
      /\ \A x \in release : \A o \in x : o[1] # u
  BY StagedApart
<1>4. \A o \in deploy[u].objects : o[1] = u \/ (head \in Retained /\ o \in history[head].objects)
  BY <1>2 DEF MayReuse, SharesOnly, OfVersion
<1>5. deploy' \in [Uploads -> DeployRecord] /\ deploy'[u].stage = "over"
      /\ \A x \in Uploads \ {u} : deploy'[x] = deploy[x]
  BY <1>0 DEF Over, SiteTypes, DeployRecord, NoDeploy
<1>6. NamedBy(Retained)' = NamedBy(Retained) \union deploy[u].objects
      /\ NamedBy(DOMAIN history)' = NamedBy(DOMAIN history) \union deploy[u].objects
  BY <1>1, <1>2 DEF NamedBy
<1>7. SiteTypes'
  BY <1>0, <1>1, <1>5 DEF SiteTypes
<1>8. UploadsApart'
  <2>1. \A w \in DOMAIN history' : deploy'[history'[w].upload].stage = "over"
    <3>1. \A w \in DOMAIN history : history[w].upload \in Uploads
      BY <1>0, VersionFacts
    <3>2. QED
      BY <1>0, <1>1, <1>3, <1>5, <3>1 DEF UploadsApart
  <2>2. \A w, x \in DOMAIN history' : history'[w].upload = history'[x].upload => w = x
    BY <1>0, <1>1, <1>3 DEF UploadsApart
  <2>3. ASSUME NEW w \in DOMAIN history', NEW o \in history'[w].objects
        PROVE  \E i \in DOMAIN history' : i <= w /\ history'[i].upload = o[1] /\ o \in history'[i].objects
    <3>1. CASE w \in DOMAIN history
      <4>1. PICK i \in DOMAIN history : i <= w /\ history[i].upload = o[1] /\ o \in history[i].objects
        BY <1>0, <1>1, <2>3, <3>1 DEF UploadsApart
      <4>2. QED
        BY <1>1, <4>1
    <3>2. CASE w = k /\ o[1] = u
      BY <1>1, <2>3, <3>2
    <3>3. CASE w = k /\ o[1] # u
      <4>1. head \in DOMAIN history /\ o \in history[head].objects
        BY <1>1, <1>2, <1>4, <2>3, <3>3
      <4>2. PICK i \in DOMAIN history : i <= head /\ history[i].upload = o[1] /\ o \in history[i].objects
        BY <1>0, <4>1 DEF UploadsApart
      <4>3. i <= w
        BY <1>1, <3>3, <4>2
      <4>4. QED
        BY <1>1, <4>2, <4>3
    <3>4. QED
      BY <1>1, <3>1, <3>2, <3>3
  <2>4. QED
    BY <2>1, <2>2, <2>3 DEF UploadsApart
<1>9. Runs'
  <2> SUFFICES ASSUME NEW a \in DOMAIN history', NEW c \in DOMAIN history', NEW b \in Retained', a < b, b < c,
                      NEW o \in history'[a].objects, o \in history'[c].objects
               PROVE  o \in history'[b].objects
    BY DEF Runs
  <2>1. CASE c \in DOMAIN history
    <3>1. a \in DOMAIN history /\ b \in Retained
      BY <1>1, <1>2, <2>1
    <3>2. o \in history[b].objects
      BY <1>0, <1>1, <2>1, <3>1 DEF Runs
    <3>3. QED
      BY <1>1, <1>2, <3>1, <3>2
  <2>2. CASE c = k
    <3>1. b \in Retained /\ b \in DOMAIN history /\ b <= head /\ b \in Nat
      BY <1>1, <1>2, <2>2
    <3>2. a \in DOMAIN history
      BY <1>1, <3>1
    <3>3. o[1] # u /\ o \in deploy[u].objects /\ o \in history[a].objects
      BY <1>1, <1>3, <2>2, <3>2
    <3>4. head \in Retained /\ o \in history[head].objects
      BY <1>4, <3>3
    <3>5. CASE b = head
      BY <1>1, <3>1, <3>4, <3>5
    <3>6. CASE b # head
      <4>1. head \in DOMAIN history /\ b < head
        BY <1>1, <1>2, <3>1, <3>4, <3>6
      <4>2. o \in history[b].objects
        BY <1>0, <3>1, <3>2, <3>3, <3>4, <4>1 DEF Runs
      <4>3. QED
        BY <1>1, <3>1, <4>2
    <3>7. QED
      BY <3>5, <3>6
  <2>3. QED
    BY <1>1, <2>1, <2>2
<1>10. Safe'
  <2>0. \A o \in deploy[u].objects : o \in stored
    BY <1>0, <1>4 DEF Safe
  <2>1. \A w \in Retained' : history'[w].objects \subseteq stored'
    BY <1>0, <1>1, <1>2, <2>0 DEF Safe
  <2>2. \A x \in release' : \A o \in x : deploy'[o[1]].stage = "over" /\ o \notin NamedBy(Retained)'
    <3> SUFFICES ASSUME NEW x \in release, NEW o \in x
                 PROVE  deploy'[o[1]].stage = "over" /\ o \notin NamedBy(Retained) \union deploy[u].objects
      BY <1>6
    <3>1. deploy[o[1]].stage = "over" /\ o \notin NamedBy(Retained) /\ o[1] # u /\ o \in Objects
      BY <1>0, <1>3 DEF Safe, SiteTypes
    <3>2. o[1] \in Uploads
      BY <3>1 DEF Objects
    <3>3. o \notin deploy[u].objects
      BY <1>2, <1>4, <3>1 DEF NamedBy
    <3>4. QED
      BY <1>5, <3>1, <3>2, <3>3
  <2>3. \A x \in Uploads : deploy'[x].stage = "staged" => \A o \in deploy'[x].objects : o[1] = x => o \in stored'
    BY <1>0, <1>5 DEF Safe
  <2>4. QED
    BY <2>1, <2>2, <2>3 DEF Safe
<1>11. ChargedApart' /\ SumOfCharges'
  BY PublishCharges
<1>12. Leftovers'
  <2> SUFFICES ASSUME slips' = 0, NEW o \in stored, o \notin NamedBy(Retained), o \notin deploy[u].objects
               PROVE  (\E x \in release : o \in x)
                      \/ (o \notin NamedBy(DOMAIN history) \union deploy[u].objects /\ o[1] \in KeptPrefixes')
    BY <1>6 DEF Leftovers
  <2>1. slips = 0
    BY <1>0 DEF SiteTypes
  <2>2. (\E x \in release : o \in x) \/ (o \notin NamedBy(DOMAIN history) /\ o[1] \in KeptPrefixes)
    BY <1>0, <2>1 DEF Leftovers
  <2>3. \A x \in KeptPrefixes : x \in KeptPrefixes'
    <3>1. \A x \in {y[1] : y \in NamedBy(Retained)} : x \in KeptPrefixes'
      BY <1>6 DEF KeptPrefixes
    <3>2. \A x \in {history[w].upload : w \in Retained} : x \in KeptPrefixes'
      BY <1>1, <1>2 DEF KeptPrefixes
    <3>3. u \in KeptPrefixes'
      BY <1>1 DEF KeptPrefixes
    <3>4. \A x \in {y \in Uploads : deploy[y].stage = "staged"} : x \in KeptPrefixes'
      BY <1>5, <3>3 DEF KeptPrefixes
    <3>5. QED
      BY <3>1, <3>2, <3>4 DEF KeptPrefixes
  <2>4. QED
    BY <2>2, <2>3
<1>13. QED
  BY <1>7, <1>8, <1>9, <1>10, <1>11, <1>12 DEF SiteInv

LEMMA AppendKeeps ==
  ASSUME SiteInv, NEW u \in Uploads, AppendVersion(u)
  PROVE  SiteInv'
<1>1. deploy[u].stage = "staged" /\ Over(u) /\ UNCHANGED <<pinned, release>>
  BY DEF AppendVersion
<1>2. CASE MayReuse(u) /\ history' = Published(u) /\ UNCHANGED stored /\ slips' \in {slips, slips + 1}
  BY <1>1, <1>2, PublishKeeps
<1>3. CASE UNCHANGED history /\ ((slips' = slips /\ stored' = stored \ Prefix(u)) \/ (Slips /\ UNCHANGED stored))
  <2>0. SiteTypes /\ UploadsApart /\ Runs /\ Safe /\ ChargedApart /\ SumOfCharges /\ Leftovers
    BY DEF SiteInv
  <2>1. /\ \A w \in DOMAIN history : history[w].upload # u /\ \A o \in history[w].objects : o[1] # u
        /\ \A o \in NamedBy(DOMAIN history) \union NamedBy(Retained) : o[1] # u
        /\ \A x \in release : \A o \in x : o[1] # u
    BY <1>1, StagedApart
  <2>2. deploy' \in [Uploads -> DeployRecord] /\ deploy'[u].stage = "over"
        /\ \A x \in Uploads \ {u} : deploy'[x] = deploy[x]
    BY <1>1, <2>0 DEF Over, SiteTypes, DeployRecord, NoDeploy
  <2>3. stored' \subseteq stored /\ \A o \in stored : o[1] # u => o \in stored'
    BY <1>3 DEF Prefix
  <2>4. Retained' = Retained /\ NamedBy(Retained)' = NamedBy(Retained)
        /\ NamedBy(DOMAIN history)' = NamedBy(DOMAIN history)
    BY <1>3 DEF Retained, NamedBy
  <2>5. SiteTypes'
    <3>1. slips' \in Nat
      BY <1>3, <2>0 DEF SiteTypes, Slips
    <3>2. QED
      BY <1>1, <1>3, <2>0, <2>2, <2>3, <3>1 DEF SiteTypes
  <2>6. UploadsApart'
    <3>1. \A w \in DOMAIN history : history[w].upload \in Uploads
      BY <2>0, VersionFacts
    <3>2. QED
      BY <1>3, <2>0, <2>1, <2>2, <3>1 DEF UploadsApart
  <2>7. Runs'
    BY <1>3, <2>0, <2>4 DEF Runs
  <2>8. ChargedApart' /\ SumOfCharges'
    BY <1>3, <2>0, <2>4 DEF ChargedApart, SumOfCharges, VersionCharge, OfVersion, PrevOf, NamedBy, Retained
  <2>9. Safe'
    <3>1. \A w \in Retained' : history'[w].objects \subseteq stored'
      BY <1>3, <2>0, <2>1, <2>3, <2>4 DEF Safe, Retained
    <3>2. \A x \in release : \A o \in x : o[1] \in Uploads
      BY <2>0 DEF SiteTypes, Objects
    <3>3. \A x \in release' : \A o \in x : deploy'[o[1]].stage = "over" /\ o \notin NamedBy(Retained)'
      BY <1>1, <2>0, <2>1, <2>2, <2>4, <3>2 DEF Safe
    <3>4. \A x \in Uploads : deploy'[x].stage = "staged" => \A o \in deploy'[x].objects : o[1] = x => o \in stored'
      BY <2>0, <2>2, <2>3 DEF Safe
    <3>5. QED
      BY <3>1, <3>3, <3>4 DEF Safe
  <2>10. Leftovers'
    <3> SUFFICES ASSUME slips' = 0, NEW o \in stored', o \notin NamedBy(Retained)
                 PROVE  (\E x \in release : o \in x)
                        \/ (o \notin NamedBy(DOMAIN history) /\ o[1] \in KeptPrefixes')
      BY <1>1, <2>4 DEF Leftovers
    <3>1. slips = 0 /\ stored' = stored \ Prefix(u)
      BY <1>3, <2>0 DEF SiteTypes, Slips
    <3>2. o \in Objects /\ o[1] # u
      BY <2>0, <2>3, <3>1 DEF SiteTypes, Prefix, Objects
    <3>3. o[1] \in KeptPrefixes => o[1] \in KeptPrefixes'
      <4>1. KeptPrefixes' = {x[1] : x \in NamedBy(Retained)} \union {history[w].upload : w \in Retained}
                            \union {x \in Uploads : deploy'[x].stage = "staged"}
        BY <1>3, <2>4 DEF KeptPrefixes
      <4>2. \A x \in Uploads : x # u /\ deploy[x].stage = "staged" => deploy'[x].stage = "staged"
        BY <2>2
      <4>3. QED
        BY <3>2, <4>1, <4>2 DEF KeptPrefixes
    <3>4. QED
      BY <2>0, <2>3, <3>1, <3>3 DEF Leftovers
  <2>11. QED
    BY <2>5, <2>6, <2>7, <2>8, <2>9, <2>10 DEF SiteInv
<1>4. QED
  BY <1>1, <1>2, <1>3 DEF AppendVersion, Slips

\* A deploy stages under a prefix nothing else uses.
LEMMA StartKeeps ==
  ASSUME SiteInv, NEW u \in Uploads, DeployStarts(u)
  PROVE  SiteInv'
<1> DEFINE Reused(files) == {o \in OfVersion(HeadVersion) : o[2] \in files \ Packed}
           Own(files) == {u} \X {f \in files : \A o \in Reused(files) : o[2] # f}
<1>1. PICK files \in SUBSET Files \ {{}}, strays \in SUBSET Twice :
        /\ deploy' = [deploy EXCEPT ![u] =
               [stage |-> "staged", base |-> HeadVersion, objects |-> Reused(files) \union Own(files)]]
        /\ stored' = stored \union Own(files) \union ({u} \X strays)
  BY DEF DeployStarts
<1> DEFINE reused == Reused(files)
           own == Own(files)
           fresh == own \union ({u} \X strays)
<1>2. deploy[u].stage = "none" /\ UNCHANGED <<history, pinned, release, slips>>
  BY DEF DeployStarts
<1>3. SiteTypes /\ UploadsApart /\ Runs /\ Safe /\ ChargedApart /\ SumOfCharges /\ Leftovers
  BY DEF SiteInv
<1>4. /\ \A w \in DOMAIN history : history[w].upload # u /\ \A o \in history[w].objects : o[1] # u
      /\ \A o \in NamedBy(DOMAIN history) \union NamedBy(Retained) : o[1] # u
      /\ \A x \in release : \A o \in x : o[1] # u
  BY <1>2, StagedApart
<1>5. fresh \in SUBSET Objects /\ own \subseteq fresh /\ \A o \in fresh : o[1] = u
  BY RedeployAssumption DEF Objects
<1>6. HeadVersion \in Nat /\ reused \in SUBSET Objects /\ \A o \in reused : o[1] # u
  <2>1. Retained \in SUBSET (1..Len(history)) /\ Len(history) \in Nat /\ Retained \subseteq DOMAIN history
    BY <1>3 DEF SiteTypes, Retained
  <2>2. HeadVersion \in Retained \union {0}
    BY <2>1, NewestOf DEF HeadVersion
  <2>3. HeadVersion \in Nat
    BY <2>1, <2>2
  <2>4. OfVersion(HeadVersion) \in SUBSET Objects /\ \A o \in OfVersion(HeadVersion) : o[1] # u
    <3>1. CASE HeadVersion = 0
      BY <3>1 DEF OfVersion
    <3>2. CASE HeadVersion # 0
      <4>1. HeadVersion \in DOMAIN history
        BY <2>1, <2>2, <3>2
      <4>2. QED
        BY <1>3, <1>4, <3>2, <4>1, VersionFacts DEF OfVersion
    <3>3. QED
      BY <3>1, <3>2
  <2>5. QED
    BY <2>3, <2>4
<1>7. stored' = stored \union fresh
  BY <1>1
<1>8. /\ deploy' \in [Uploads -> DeployRecord]
      /\ deploy'[u].stage = "staged" /\ deploy'[u].objects = reused \union own
      /\ \A x \in Uploads \ {u} : deploy'[x] = deploy[x]
  <2> DEFINE d == [stage |-> "staged", base |-> HeadVersion, objects |-> reused \union own]
  <2>1. d \in DeployRecord /\ d.stage = "staged" /\ d.objects = reused \union own
    BY <1>5, <1>6 DEF DeployRecord
  <2>2. deploy' = [deploy EXCEPT ![u] = d]
    BY <1>1
  <2> HIDE DEF d
  <2>3. QED
    BY <1>3, <2>1, <2>2 DEF SiteTypes
<1> HIDE DEF reused, own, fresh
<1>9. Retained' = Retained /\ NamedBy(Retained)' = NamedBy(Retained)
      /\ NamedBy(DOMAIN history)' = NamedBy(DOMAIN history)
  BY <1>2 DEF Retained, NamedBy
<1>10. SiteTypes'
  BY <1>2, <1>3, <1>5, <1>7, <1>8 DEF SiteTypes
<1>11. UploadsApart'
  <2>1. \A w \in DOMAIN history : history[w].upload \in Uploads
    BY <1>3, VersionFacts
  <2>2. QED
    BY <1>2, <1>3, <1>4, <1>8, <2>1 DEF UploadsApart
<1>12. Runs'
  BY <1>2, <1>3, <1>9 DEF Runs
<1>13. ChargedApart' /\ SumOfCharges'
  BY <1>2, <1>3, <1>9 DEF ChargedApart, SumOfCharges, VersionCharge, OfVersion, PrevOf, NamedBy, Retained
<1>14. Safe'
  <2>1. \A w \in Retained' : history'[w].objects \subseteq stored'
    BY <1>2, <1>3, <1>7, <1>9 DEF Safe
  <2>2. \A x \in release : \A o \in x : o[1] \in Uploads
    BY <1>3 DEF SiteTypes, Objects
  <2>3. \A x \in release' : \A o \in x : deploy'[o[1]].stage = "over" /\ o \notin NamedBy(Retained)'
    BY <1>2, <1>3, <1>4, <1>8, <1>9, <2>2 DEF Safe
  <2>4. \A x \in Uploads : deploy'[x].stage = "staged" => \A o \in deploy'[x].objects : o[1] = x => o \in stored'
    BY <1>3, <1>5, <1>6, <1>7, <1>8 DEF Safe
  <2>5. QED
    BY <2>1, <2>3, <2>4 DEF Safe
<1>15. Leftovers'
  <2> SUFFICES ASSUME slips = 0, NEW o \in stored', o \notin NamedBy(Retained)
               PROVE  (\E x \in release : o \in x)
                      \/ (o \notin NamedBy(DOMAIN history) /\ o[1] \in KeptPrefixes')
    BY <1>2, <1>9 DEF Leftovers
  <2>1. KeptPrefixes' = {x[1] : x \in NamedBy(Retained)} \union {history[w].upload : w \in Retained}
                        \union {x \in Uploads : deploy'[x].stage = "staged"}
    BY <1>2, <1>9 DEF KeptPrefixes
  <2>2. \A x \in Uploads : deploy[x].stage = "staged" => deploy'[x].stage = "staged"
    BY <1>8
  <2>3. CASE o \in stored
    <3>1. o[1] \in KeptPrefixes => o[1] \in KeptPrefixes'
      BY <2>1, <2>2 DEF KeptPrefixes
    <3>2. QED
      BY <1>3, <2>3, <3>1 DEF Leftovers
  <2>4. CASE o \in fresh
    BY <1>4, <1>5, <1>8, <2>1, <2>4
  <2>5. QED
    BY <1>7, <2>3, <2>4
<1>16. QED
  BY <1>10, <1>11, <1>12, <1>13, <1>14, <1>15 DEF SiteInv

-----------------------------------------------------------------------------
(* Removal, discards and pins. *)

LEMMA RemoveKeeps ==
  ASSUME SiteInv, RemoveSite
  PROVE  SiteInv'
<1> DEFINE gone == {Prefix(history[v].upload) : v \in DOMAIN history}
<1>1. SiteTypes /\ UploadsApart /\ Runs /\ Safe /\ Leftovers
  BY DEF SiteInv
<1>2. history' = <<>> /\ Releases(gone) /\ UNCHANGED <<stored, deploy>>
  BY DEF RemoveSite
<1>3. DOMAIN history' = {} /\ Retained' = {} /\ NamedBy(Retained)' = {} /\ NamedBy(DOMAIN history)' = {}
  <2>1. DOMAIN history' = {}
    BY <1>2
  <2>2. QED
    BY <2>1 DEF Retained, NamedBy
<1>4. \A v \in DOMAIN history : history[v].upload \in Uploads /\ deploy[history[v].upload].stage = "over"
  BY <1>1, VersionFacts DEF UploadsApart
<1>5. \A x \in gone : x \in SUBSET Objects /\ \A o \in x : deploy[o[1]].stage = "over"
  BY <1>4 DEF Prefix, Objects
<1>6. release' \in {release, release \union gone} /\ slips' \in Nat
      /\ (slips' = 0 => slips = 0 /\ release' = release \union gone)
  BY <1>1, <1>2 DEF Releases, Slips, SiteTypes
<1>7. \A v \in DOMAIN history : Prefix(history[v].upload) \in gone
  OBVIOUS
<1> HIDE DEF gone
<1>8. SiteTypes'
  <2>1. history' \in Seq(SiteVersion)
    BY <1>2
  <2>2. release' \subseteq SUBSET Objects
    BY <1>1, <1>5, <1>6 DEF SiteTypes
  <2>3. QED
    BY <1>1, <1>2, <1>6, <2>1, <2>2 DEF SiteTypes
<1>9. UploadsApart' /\ Runs'
  BY <1>3 DEF UploadsApart, Runs
<1>10. Safe'
  <2>1. \A x \in release' : \A o \in x : deploy'[o[1]].stage = "over"
    BY <1>1, <1>2, <1>5, <1>6 DEF Safe
  <2>2. QED
    BY <1>1, <1>2, <1>3, <2>1 DEF Safe
<1>11. ChargedApart'
  BY <1>3 DEF ChargedApart
<1>12. SumOfCharges'
  <2> DEFINE none == {}
  <2>1. Total([v \in none |-> 0]) = 0
    BY TotalZero
  <2>2. [v \in Retained |-> VersionCharge(v)]' = [v \in none |-> 0]
    BY <1>3
  <2>3. [o \in none |-> ObjectSize[o[2]]] = [v \in none |-> 0]
    OBVIOUS
  <2>4. QED
    BY <1>3, <2>1, <2>2, <2>3 DEF SumOfCharges, StoredSize
<1>13. Leftovers'
  <2> SUFFICES ASSUME slips' = 0, NEW o \in stored
               PROVE  (\E x \in release' : o \in x) \/ o[1] \in KeptPrefixes'
    BY <1>2, <1>3 DEF Leftovers
  <2>1. slips = 0 /\ release' = release \union gone /\ o \in Objects
    BY <1>1, <1>6 DEF SiteTypes
  <2>2. o \in Prefix(o[1])
    BY <2>1 DEF Prefix, Objects
  <2>3. \A y \in NamedBy(DOMAIN history) : \E v \in DOMAIN history : history[v].upload = y[1]
    BY <1>1 DEF UploadsApart, NamedBy
  <2>4. NamedBy(Retained) \subseteq NamedBy(DOMAIN history) /\ Retained \subseteq DOMAIN history
    BY DEF NamedBy, Retained
  <2>5. CASE \E v \in DOMAIN history : history[v].upload = o[1]
    BY <1>7, <2>1, <2>2, <2>5
  <2>6. CASE \E x \in release : o \in x
    BY <2>1, <2>6
  <2>7. CASE o[1] \in {u \in Uploads : deploy[u].stage = "staged"}
    BY <1>2, <2>7 DEF KeptPrefixes
  <2>8. CASE o \in NamedBy(DOMAIN history)
    BY <2>3, <2>5, <2>8
  <2>9. CASE o[1] \in {y[1] : y \in NamedBy(Retained)} \union {history[v].upload : v \in Retained}
    BY <2>3, <2>4, <2>5, <2>9
  <2>10. QED
    BY <1>1, <2>1, <2>4, <2>6, <2>7, <2>8, <2>9 DEF Leftovers, KeptPrefixes
<1>14. QED
  BY <1>8, <1>9, <1>10, <1>11, <1>12, <1>13 DEF SiteInv

\* A discard takes only what is not named, and leaves nothing it owes behind.
LEMMA DiscardKeeps ==
  ASSUME SiteInv, NEW x \in release, Discards(x)
  PROVE  SiteInv'
<1>1. SiteTypes /\ UploadsApart /\ Runs /\ Safe /\ ChargedApart /\ SumOfCharges /\ Leftovers
  BY DEF SiteInv
<1>2. /\ release' = release \ {x} /\ UNCHANGED <<history, pinned, deploy>>
      /\ (stored' = stored \ x /\ slips' = slips) \/ (stored' = stored /\ slips' = slips + 1)
  BY DEF Discards, Slips
<1>3. Retained' = Retained /\ NamedBy(Retained)' = NamedBy(Retained)
      /\ NamedBy(DOMAIN history)' = NamedBy(DOMAIN history) /\ KeptPrefixes' = KeptPrefixes
  BY <1>2 DEF Retained, NamedBy, KeptPrefixes
<1>4. \A o \in x : deploy[o[1]].stage = "over" /\ o \notin NamedBy(Retained)
  BY <1>1 DEF Safe
<1>5. SiteTypes'
  BY <1>1, <1>2 DEF SiteTypes
<1>6. UploadsApart' /\ Runs'
  BY <1>1, <1>2, <1>3 DEF UploadsApart, Runs
<1>7. ChargedApart' /\ SumOfCharges'
  BY <1>1, <1>2, <1>3 DEF ChargedApart, SumOfCharges, VersionCharge, OfVersion, PrevOf, NamedBy, Retained
<1>8. Safe'
  <2>1. \A v \in Retained' : history'[v].objects \subseteq stored'
    BY <1>1, <1>2, <1>3, <1>4 DEF Safe, NamedBy
  <2>2. \A y \in release' : \A o \in y : deploy'[o[1]].stage = "over" /\ o \notin NamedBy(Retained)'
    BY <1>1, <1>2, <1>3 DEF Safe
  <2>3. \A u \in Uploads : deploy'[u].stage = "staged" => \A o \in deploy'[u].objects : o[1] = u => o \in stored'
    BY <1>1, <1>2, <1>4 DEF Safe
  <2>4. QED
    BY <2>1, <2>2, <2>3 DEF Safe
<1>9. Leftovers'
  BY <1>1, <1>2, <1>3 DEF Leftovers, SiteTypes
<1>10. QED
  BY <1>5, <1>6, <1>7, <1>8, <1>9 DEF SiteInv

LEMMA QuietKeeps ==
  ASSUME SiteInv, UNCHANGED <<history, stored, deploy, release, slips>>
  PROVE  SiteInv'
<1>1. SiteTypes /\ UploadsApart /\ Runs /\ Safe /\ ChargedApart /\ SumOfCharges /\ Leftovers
  BY DEF SiteInv
<1>2. Retained' = Retained /\ NamedBy(Retained)' = NamedBy(Retained)
      /\ NamedBy(DOMAIN history)' = NamedBy(DOMAIN history) /\ KeptPrefixes' = KeptPrefixes
  BY DEF Retained, NamedBy, KeptPrefixes
<1>3. SiteTypes' /\ UploadsApart' /\ Runs' /\ Safe'
  BY <1>1, <1>2 DEF SiteTypes, UploadsApart, Runs, Safe
<1>4. ChargedApart' /\ SumOfCharges'
  BY <1>1, <1>2 DEF ChargedApart, SumOfCharges, VersionCharge, OfVersion, PrevOf, NamedBy, Retained
<1>5. Leftovers'
  BY <1>1, <1>2 DEF Leftovers
<1>6. QED
  BY <1>3, <1>4, <1>5 DEF SiteInv

-----------------------------------------------------------------------------
(* The first deploy, and every step. *)

LEMMA InitSite == RedeployInit => SiteInv
<1> SUFFICES ASSUME RedeployInit PROVE SiteInv
  OBVIOUS
<1> DEFINE first == {FirstUpload} \X FirstFiles
           e == [upload |-> FirstUpload, objects |-> first, dead |-> FALSE, charge |-> NoCharge]
<1>1. FirstUpload \in Uploads /\ first \in SUBSET Objects /\ \A o \in first : o[1] = FirstUpload
  BY RedeployAssumption DEF Objects
<1>2. e \in SiteVersion /\ e.upload = FirstUpload /\ e.objects = first /\ ~e.dead /\ e.charge = NoCharge
  BY <1>1 DEF SiteVersion
<1>3. history = <<e>> /\ stored = first /\ release = {} /\ slips = 0
  BY DEF RedeployInit
<1>4. /\ deploy \in [Uploads -> DeployRecord] /\ deploy[FirstUpload].stage = "over"
      /\ \A u \in Uploads : deploy[u].stage # "staged"
  BY <1>1 DEF RedeployInit, NoDeploy, DeployRecord
<1> HIDE DEF e, first
<1>5. history \in Seq(SiteVersion) /\ DOMAIN history = {1} /\ history[1] = e
  BY <1>2, <1>3
<1>6. Retained = {1} /\ NamedBy(Retained) = first /\ NamedBy(DOMAIN history) = first
  BY <1>2, <1>5 DEF Retained, NamedBy
<1>7. SiteTypes
  BY <1>1, <1>3, <1>4, <1>5 DEF SiteTypes
<1>8. UploadsApart
  BY <1>1, <1>2, <1>4, <1>5 DEF UploadsApart
<1>9. Runs
  BY <1>5, <1>6 DEF Runs
<1>10. Safe
  BY <1>2, <1>3, <1>4, <1>5, <1>6 DEF Safe
<1>11. VersionCharge(1) = StoredSize(first) /\ StoredSize(first) \in Nat
  BY <1>1, <1>2, <1>5, ObjectsFinite DEF VersionCharge
<1>12. ChargedApart
  <2>1. PrevOf(1) = 0
    <3>1. 1 \in DOMAIN history
      BY <1>5
    <3>2. PrevOf(1) \in Retained \union {0} /\ PrevOf(1) < 1
      BY <1>7, <3>1, Neighbours
    <3>3. QED
      BY <1>6, <3>2
  <2>2. OfVersion(1) \ OfVersion(0) = first
    BY <1>2, <1>5 DEF OfVersion
  <2>3. VersionCharge(1) = StoredSize(OfVersion(1) \ OfVersion(PrevOf(1)))
    BY <1>11, <2>1, <2>2
  <2>4. QED
    BY <1>5, <1>6, <2>3 DEF ChargedApart
<1>13. SumOfCharges
  <2> DEFINE f == [v \in {1} |-> VersionCharge(v)]
  <2>1. f \in [{1} -> Nat] /\ f[1] = StoredSize(first)
    BY <1>11
  <2>2. [v \in Retained |-> VersionCharge(v)] = f
    BY <1>6
  <2> HIDE DEF f
  <2>3. Total(f) = f[1]
    BY <2>1, TotalOne
  <2>4. QED
    BY <1>6, <2>1, <2>2, <2>3 DEF SumOfCharges
<1>14. Leftovers
  BY <1>3, <1>6 DEF Leftovers
<1>15. QED
  BY <1>7, <1>8, <1>9, <1>10, <1>12, <1>13, <1>14 DEF SiteInv

LEMMA NextSite == SiteInv /\ [RedeployNext]_redeployVars => SiteInv'
<1> SUFFICES ASSUME SiteInv, [RedeployNext]_redeployVars PROVE SiteInv'
  OBVIOUS
<1>1. ASSUME NEW u \in Uploads, DeployStarts(u) PROVE SiteInv'
  BY <1>1, StartKeeps
<1>2. ASSUME NEW u \in Uploads, AppendVersion(u) PROVE SiteInv'
  BY <1>2, AppendKeeps
<1>3. ASSUME NEW v \in Retained \union {0}, DeleteVersion(v) PROVE SiteInv'
  <2>1. v \in Retained
    BY <1>3 DEF DeleteVersion
  <2>2. QED
    BY <1>3, <2>1, DeleteKeeps
<1>4. ASSUME NEW v \in Retained \union {0}, PinVersion(v) PROVE SiteInv'
  BY <1>4, QuietKeeps DEF PinVersion
<1>5. CASE RemoveSite
  BY <1>5, RemoveKeeps
<1>6. ASSUME NEW x \in release, Discards(x) PROVE SiteInv'
  BY <1>6, DiscardKeeps
<1>7. CASE UNCHANGED redeployVars
  BY <1>7, QuietKeeps DEF redeployVars
<1>8. QED
  BY <1>1, <1>2, <1>3, <1>4, <1>5, <1>6, <1>7 DEF RedeployNext

\* However deploys, deletes, pins and a removal come in between and whatever
\* the service fails to delete, what the live versions name is stored, and
\* they are charged together each object once; and once every delete was
\* answered and done, nothing a version named is left (paste.js freedBy,
\* reuseCharge).
THEOREM AlwaysReuseExact == RedeploySpec => []ReuseExact
<1>1. RedeployInit => SiteInv
  BY InitSite
<1>2. SiteInv /\ [RedeployNext]_redeployVars => SiteInv'
  BY NextSite
<1>3. SiteInv => ReuseExact
  BY SiteExact
<1>4. QED
  BY <1>1, <1>2, <1>3, PTL DEF RedeploySpec

-----------------------------------------------------------------------------
(* The gate of sessions                                                    *)

GateSpec == GateInit /\ [][GateNext]_gateVars

Dated(list) == \A e \in list : e[2] \in Int

\* The lists are dated, and a check compiled its list in the past.
GateDated ==
    /\ time \in Nat /\ gate.at \in Nat /\ gate.at <= time
    /\ Dated(denylist) /\ Dated(gate.list) /\ Dated(gate.loaded)
    /\ gate.fetched # Nothing => Dated(gate.fetched)

SessionStages == {"none", "asking", "replaying", "noting", "in", "refused"}
SessionRecord == [stage : SessionStages, at : Int, lost : Nat]

SessionTypes ==
    /\ session \in [KeysSeen -> SessionRecord]
    /\ subnet \in [KeysSeen -> Int]

\* A key the subnet knows is noted, unless its note is still to be written or
\* the call was lost twice.
KnownNoted == \A k \in KeysSeen :
    /\ session[k].stage = "replaying" => session[k].lost >= 1
    /\ subnet[k] # Unseen /\ session[k].lost <= 1 =>
         k \in noted \/ session[k].stage \in {"replaying", "noting"}

GateRecord == gate = [list |-> gate.list, loaded |-> gate.loaded, fetched |-> gate.fetched,
                      seen |-> gate.seen, at |-> gate.at]

\* What the cell stores of networks is masked.
ListMasked == \A e \in Entries(denylist) :
    e \in KeyEntries \/ \E net \in Spellings : e = Canonical(net)

ListInv == GateRecord /\ GateDated /\ ListCurrent
SessionInv == SessionTypes /\ KnownNoted /\ LetInNoted

\* What is live later was live before.
LEMMA LiveLater ==
  ASSUME NEW list, Dated(list), NEW s \in Int, NEW t \in Int, s <= t
  PROVE  LiveAt(LiveAt(list, s), t) = LiveAt(list, t) /\ Dated(LiveAt(list, s))
BY DEF LiveAt, Dated

LEMMA InitGate == GateInit => ListInv /\ SessionInv
<1> SUFFICES ASSUME GateInit PROVE ListInv /\ SessionInv
  OBVIOUS
<1>1. ListInv
  BY DEF GateInit, ListInv, GateRecord, GateDated, Dated, ListCurrent, LiveAt
<1>2. SessionInv
  <2>1. NoSession \in SessionRecord /\ NoSession.stage = "none"
    BY DEF NoSession, SessionRecord, SessionStages
  <2>2. session = [k \in KeysSeen |-> NoSession] /\ subnet = [k \in KeysSeen |-> Unseen] /\ Unseen \in Int
    BY DEF GateInit, Unseen
  <2>3. SessionTypes
    BY <2>1, <2>2 DEF SessionTypes
  <2>4. KnownNoted /\ LetInNoted
    BY <2>1, <2>2 DEF KnownNoted, LetInNoted
  <2>5. QED
    BY <2>3, <2>4 DEF SessionInv
<1>3. QED
  BY <1>1, <1>2

\* The list a replica holds changes only for a newer one, or for its own live
\* part.
LEMMA NextList ==
  ASSUME ListInv, [GateNext]_gateVars
  PROVE  ListInv'
<1>0. GateRecord /\ GateDated /\ ListCurrent
  BY DEF ListInv
<1>1. CASE UNCHANGED <<time, gate>> /\ Dated(denylist)'
  BY <1>0, <1>1 DEF ListInv, GateRecord, GateDated, ListCurrent
<1>2. ASSUME NEW entry, NEW lasts \in Lifetimes, DenyAdd(entry, lasts) PROVE ListInv'
  <2>1. (IF lasts = 0 THEN Forever ELSE time + lasts) \in Int
    BY <1>0, GateAssumption DEF Forever, GateDated
  <2>2. Dated(denylist)'
    BY <1>0, <1>2, <2>1 DEF DenyAdd, Dated, GateDated, LiveAt
  <2>3. QED
    BY <1>1, <1>2, <2>2 DEF DenyAdd
<1>3. ASSUME NEW entry, DenyRemove(entry) PROVE ListInv'
  BY <1>0, <1>1, <1>3 DEF DenyRemove, Dated, GateDated
<1>4. CASE RefreshAsks
  <2>1. gate' = [gate EXCEPT !.fetched = LiveAt(denylist, time)] /\ UNCHANGED <<time, denylist>>
    BY <1>4 DEF RefreshAsks
  <2>2. /\ gate'.list = gate.list /\ gate'.loaded = gate.loaded /\ gate'.at = gate.at
        /\ gate'.fetched = LiveAt(denylist, time) /\ GateRecord'
    BY <1>0, <2>1 DEF GateRecord
  <2>3. Dated(LiveAt(denylist, time))
    BY <1>0, LiveLater DEF GateDated
  <2>4. QED
    BY <1>0, <2>1, <2>2, <2>3 DEF ListInv, GateDated, ListCurrent
<1>5. CASE RefreshStores
  <2>1. gate' = [gate EXCEPT !.list = LiveAt(gate.fetched, time), !.loaded = gate.fetched, !.fetched = Nothing]
        /\ UNCHANGED <<time, denylist>> /\ gate.fetched # Nothing
    BY <1>5 DEF RefreshStores
  <2>2. /\ gate'.list = LiveAt(gate.fetched, time) /\ gate'.loaded = gate.fetched /\ gate'.at = gate.at
        /\ gate'.fetched = Nothing /\ GateRecord'
    BY <1>0, <2>1 DEF GateRecord
  <2>3. Dated(gate.fetched) /\ time \in Int /\ time <= time
    BY <1>0, <2>1 DEF GateDated
  <2>4. LiveAt(LiveAt(gate.fetched, time), time) = LiveAt(gate.fetched, time) /\ Dated(LiveAt(gate.fetched, time))
    BY <2>3, LiveLater
  <2>5. QED
    BY <1>0, <2>1, <2>2, <2>3, <2>4 DEF ListInv, GateDated, ListCurrent
<1>6. CASE RefreshFails
  <2>1. gate' = [gate EXCEPT !.fetched = Nothing] /\ UNCHANGED <<time, denylist>>
    BY <1>6 DEF RefreshFails
  <2>2. /\ gate'.list = gate.list /\ gate'.loaded = gate.loaded /\ gate'.at = gate.at
        /\ gate'.fetched = Nothing /\ GateRecord'
    BY <1>0, <2>1 DEF GateRecord
  <2>3. QED
    BY <1>0, <2>1, <2>2 DEF ListInv, GateDated, ListCurrent
<1>7. CASE CheckLoads
  <2>1. gate' = [gate EXCEPT !.seen = gate.list, !.at = time] /\ UNCHANGED <<time, denylist>>
    BY <1>7 DEF CheckLoads
  <2>2. /\ gate'.list = gate.list /\ gate'.loaded = gate.loaded /\ gate'.at = time
        /\ gate'.fetched = gate.fetched /\ GateRecord'
    BY <1>0, <2>1 DEF GateRecord
  <2>3. QED
    BY <1>0, <2>1, <2>2 DEF ListInv, GateDated, ListCurrent
<1>8. CASE CheckSwaps
  <2>1. gate' = [gate EXCEPT !.list = CheckSwap, !.seen = Nothing] /\ UNCHANGED <<time, denylist>>
    BY <1>8 DEF CheckSwaps
  <2>2. /\ gate'.list = CheckSwap /\ gate'.loaded = gate.loaded /\ gate'.at = gate.at
        /\ gate'.fetched = gate.fetched /\ GateRecord'
    BY <1>0, <2>1 DEF GateRecord
  <2>3. Dated(CheckSwap) /\ LiveAt(CheckSwap, time) = LiveAt(gate.list, time)
    <3>1. Dated(gate.list) /\ gate.at \in Int /\ time \in Int /\ gate.at <= time
      BY <1>0 DEF GateDated
    <3>2. LiveAt(LiveAt(gate.list, gate.at), time) = LiveAt(gate.list, time) /\ Dated(LiveAt(gate.list, gate.at))
      BY <3>1, LiveLater
    <3>3. QED
      BY <3>1, <3>2 DEF CheckSwap
  <2>4. QED
    BY <1>0, <2>1, <2>2, <2>3 DEF ListInv, GateDated, ListCurrent
<1>9. CASE TimePasses
  <2>1. time' = time + 1 /\ UNCHANGED <<gate, denylist>>
    BY <1>9 DEF TimePasses
  <2>2. time \in Int /\ time + 1 \in Int /\ time <= time + 1 /\ Dated(gate.list) /\ Dated(gate.loaded)
    BY <1>0 DEF GateDated
  <2>3. /\ LiveAt(LiveAt(gate.list, time), time + 1) = LiveAt(gate.list, time + 1)
        /\ LiveAt(LiveAt(gate.loaded, time), time + 1) = LiveAt(gate.loaded, time + 1)
    BY <2>2, LiveLater
  <2>4. ListCurrent'
    BY <1>0, <2>1, <2>3 DEF ListCurrent
  <2>5. QED
    BY <1>0, <2>1, <2>4 DEF ListInv, GateRecord, GateDated
<1>10. ASSUME NEW k \in KeysSeen, SubnetAdmit(k) \/ NoteSubnet(k) \/ SessionEnds(k) \/ \E net \in Spellings : Connects(k, net[1])
       PROVE  ListInv'
  BY <1>0, <1>1, <1>10 DEF SubnetAdmit, NoteSubnet, SessionEnds, Connects, GateDated
<1>11. CASE UNCHANGED gateVars
  BY <1>0, <1>1, <1>11 DEF gateVars, GateDated
<1>12. QED
  BY <1>2, <1>3, <1>4, <1>5, <1>6, <1>7, <1>8, <1>9, <1>10, <1>11 DEF GateNext, DenyEdit

\* A session moves on, and its lost calls with it.
LEMMA LostRecord ==
  ASSUME NEW q \in SessionRecord, NEW s \in SessionStages, NEW n \in Nat
  PROVE  /\ [q EXCEPT !.stage = s, !.lost = @ + n] \in SessionRecord
         /\ [q EXCEPT !.stage = s, !.lost = @ + n].stage = s
         /\ [q EXCEPT !.stage = s, !.lost = @ + n].lost = q.lost + n
         /\ [q EXCEPT !.stage = s] \in SessionRecord
         /\ [q EXCEPT !.stage = s].stage = s /\ [q EXCEPT !.stage = s].lost = q.lost
<1>1. q.lost \in Nat /\ q.lost + n \in Nat
  BY DEF SessionRecord
<1>2. /\ [q EXCEPT !.stage = s, !.lost = @ + n] \in SessionRecord
      /\ [q EXCEPT !.stage = s, !.lost = @ + n].stage = s
      /\ [q EXCEPT !.stage = s, !.lost = @ + n].lost = q.lost + n
  BY <1>1 DEF SessionRecord
<1>3. /\ [q EXCEPT !.stage = s] \in SessionRecord
      /\ [q EXCEPT !.stage = s].stage = s /\ [q EXCEPT !.stage = s].lost = q.lost
  BY DEF SessionRecord
<1>4. QED
  BY <1>2, <1>3

\* A session begins, with the calls it lost before.
LEMMA ConnectRecord ==
  ASSUME NEW q \in SessionRecord, NEW s \in SessionStages, NEW t \in Int
  PROVE  /\ [q EXCEPT !.at = t, !.stage = s] \in SessionRecord
         /\ [q EXCEPT !.at = t, !.stage = s].stage = s
         /\ [q EXCEPT !.at = t, !.stage = s].lost = q.lost
BY DEF SessionRecord

LEMMA SessionLoses ==
  ASSUME SessionTypes, NEW k \in KeysSeen, NEW s \in SessionStages, NEW n \in Nat, LosesTo(k, s, n)
  PROVE  /\ session' \in [KeysSeen -> SessionRecord]
         /\ session'[k].stage = s /\ session'[k].lost = session[k].lost + n
         /\ session[k].lost \in Nat
         /\ \A j \in KeysSeen \ {k} : session'[j] = session[j]
<1> DEFINE r == [session[k] EXCEPT !.stage = s, !.lost = @ + n]
<1>1. session \in [KeysSeen -> SessionRecord] /\ session[k] \in SessionRecord
  BY DEF SessionTypes
<1>2. r \in SessionRecord /\ r.stage = s /\ r.lost = session[k].lost + n /\ session[k].lost \in Nat
  BY <1>1, LostRecord DEF SessionRecord
<1>3. session' = [session EXCEPT ![k] = r]
  BY DEF LosesTo
<1> HIDE DEF r
<1>4. QED
  BY <1>1, <1>2, <1>3

LEMMA SessionReaches ==
  ASSUME SessionTypes, NEW k \in KeysSeen, NEW s \in SessionStages, Reaches(k, s)
  PROVE  /\ session' \in [KeysSeen -> SessionRecord]
         /\ session'[k].stage = s /\ session'[k].lost = session[k].lost
         /\ session[k].lost \in Nat
         /\ \A j \in KeysSeen \ {k} : session'[j] = session[j]
<1> DEFINE r == [session[k] EXCEPT !.stage = s]
<1>1. session \in [KeysSeen -> SessionRecord] /\ session[k] \in SessionRecord
  BY DEF SessionTypes
<1>2. r \in SessionRecord /\ r.stage = s /\ r.lost = session[k].lost /\ session[k].lost \in Nat
  BY <1>1, LostRecord DEF SessionRecord
<1>3. session' = [session EXCEPT ![k] = r]
  BY DEF Reaches
<1> HIDE DEF r
<1>4. QED
  BY <1>1, <1>2, <1>3

\* What an admission does to the rows of the subnet.
LEMMA AdmittedRows ==
  ASSUME SessionTypes, NEW k \in KeysSeen, NEW at \in Int, Admitted(k, at)
  PROVE  /\ subnet' \in [KeysSeen -> Int]
         /\ \A j \in KeysSeen \ {k} : subnet'[j] # Unseen => subnet[j] # Unseen
         /\ k \in InWindow(at) => subnet[k] # Unseen
         /\ k \notin InWindow(at) /\ ~AdmitsFresh(k, at) => subnet'[k] = Unseen
BY DEF SessionTypes, Admitted, AdmitsFresh, InWindow, Unseen

\* A session is in with its note, or with two lost calls.
LEMMA NextSession ==
  ASSUME SessionInv, time \in Int, [GateNext]_gateVars
  PROVE  SessionInv'
<1>0. SessionTypes /\ KnownNoted /\ LetInNoted
  BY DEF SessionInv
<1>1. \A k \in KeysSeen : session[k].lost \in Nat /\ session[k].at \in Int
  BY <1>0 DEF SessionTypes, SessionRecord
<1>2. ASSUME NEW k \in KeysSeen, session' \in [KeysSeen -> SessionRecord], subnet' \in [KeysSeen -> Int],
             noted \subseteq noted',
             \A j \in KeysSeen \ {k} : session'[j] = session[j],
             \A j \in KeysSeen \ {k} : subnet'[j] # Unseen => subnet[j] # Unseen,
             session'[k].stage = "replaying" => session'[k].lost >= 1,
             subnet'[k] # Unseen /\ session'[k].lost <= 1 =>
               k \in noted' \/ session'[k].stage \in {"replaying", "noting"},
             session'[k].stage = "in" /\ session'[k].lost <= 1 => k \in noted'
      PROVE  SessionInv'
  <2>1. SessionTypes'
    BY <1>2 DEF SessionTypes
  <2>2. KnownNoted'
    BY <1>0, <1>2 DEF KnownNoted
  <2>3. LetInNoted'
    BY <1>0, <1>2 DEF LetInNoted
  <2>4. QED
    BY <2>1, <2>2, <2>3 DEF SessionInv
<1>3. ASSUME UNCHANGED <<subnet, session, noted>> PROVE SessionInv'
  BY <1>0, <1>3 DEF SessionInv, SessionTypes, KnownNoted, LetInNoted
<1>4. CASE DenyEdit \/ RefreshAsks \/ RefreshStores \/ RefreshFails \/ CheckLoads \/ CheckSwaps \/ TimePasses
           \/ UNCHANGED gateVars
  BY <1>3, <1>4 DEF DenyEdit, DenyAdd, DenyRemove, RefreshAsks, RefreshStores, RefreshFails, CheckLoads, CheckSwaps,
       TimePasses, gateVars
<1>5. ASSUME NEW k \in KeysSeen, NEW net \in Spellings, Connects(k, net[1]) PROVE SessionInv'
  <2> DEFINE s == IF Banned(k, net[1], time) THEN "refused" ELSE "asking"
             r == [session[k] EXCEPT !.at = time, !.stage = s]
  <2>1. session[k] \in SessionRecord /\ s \in {"refused", "asking"} /\ session[k].stage = "none"
    BY <1>0, <1>5 DEF Connects, SessionTypes
  <2>2. session' = [session EXCEPT ![k] = r] /\ UNCHANGED <<subnet, noted>>
    BY <1>5 DEF Connects
  <2> HIDE DEF s
  <2>3. r \in SessionRecord /\ r.stage = s /\ r.lost = session[k].lost
    <3>1. s \in SessionStages
      BY <2>1 DEF SessionStages
    <3>2. QED
      BY <1>5, <2>1, <3>1, ConnectRecord
  <2> HIDE DEF r
  <2>4. session' \in [KeysSeen -> SessionRecord] /\ session'[k] = r
        /\ \A j \in KeysSeen \ {k} : session'[j] = session[j]
    BY <1>0, <2>2, <2>3 DEF SessionTypes
  <2>5. subnet[k] # Unseen /\ session[k].lost <= 1 => k \in noted
    BY <1>0, <2>1 DEF KnownNoted
  <2>6. subnet' \in [KeysSeen -> Int]
    BY <1>0, <2>2 DEF SessionTypes
  <2>7. QED
    BY <1>2, <2>1, <2>2, <2>3, <2>4, <2>5, <2>6
<1>6. ASSUME NEW k \in KeysSeen, SubnetAdmit(k) PROVE SessionInv'
  <2> PICK at \in Int : at = session[k].at
    BY <1>1
  <2> DEFINE known == k \in InWindow(at)
             fresh == AdmitsFresh(k, at)
             answer == IF ~known /\ ~fresh THEN "refused" ELSE IF Notes(k, known) THEN "noting" ELSE "in"
  <2>1. session[k].stage \in {"asking", "replaying"} /\ noted' = noted
    BY <1>6 DEF SubnetAdmit
  <2>2. Admitted(k, at) \/ UNCHANGED subnet
    BY <1>6 DEF SubnetAdmit
  <2>3. /\ subnet' \in [KeysSeen -> Int]
        /\ \A j \in KeysSeen \ {k} : subnet'[j] # Unseen => subnet[j] # Unseen
    BY <1>0, <2>2, AdmittedRows DEF SessionTypes
  <2>4. session[k].lost \in Nat /\ (session[k].stage = "replaying" => session[k].lost >= 1)
        /\ (subnet[k] # Unseen /\ session[k].lost <= 1 /\ session[k].stage = "asking" => k \in noted)
    BY <1>0, <1>1 DEF KnownNoted
  <2>5. CASE Admitted(k, at) /\ Reaches(k, answer)
    <3>1. answer \in SessionStages /\ answer \in {"refused", "noting", "in"}
      BY DEF SessionStages
    <3>2. answer = "in" => known /\ session[k].stage = "asking"
      BY <2>1 DEF Notes
    <3>3. answer = "refused" => ~known /\ ~fresh
      OBVIOUS
    <3>4. (known => subnet[k] # Unseen) /\ (~known /\ ~fresh => subnet'[k] = Unseen)
      BY <1>0, <2>5, AdmittedRows
    <3> HIDE DEF answer, known, fresh
    <3>5. /\ session' \in [KeysSeen -> SessionRecord]
          /\ session'[k].stage = answer /\ session'[k].lost = session[k].lost
          /\ \A j \in KeysSeen \ {k} : session'[j] = session[j]
      BY <1>0, <2>5, <3>1, SessionReaches
    <3>6. QED
      BY <1>2, <2>1, <2>3, <2>4, <3>1, <3>2, <3>3, <3>4, <3>5
  <2>6. CASE LosesTo(k, "replaying", 1) /\ session[k].stage = "asking"
    <3>1. /\ session' \in [KeysSeen -> SessionRecord]
          /\ session'[k].stage = "replaying" /\ session'[k].lost = session[k].lost + 1
          /\ \A j \in KeysSeen \ {k} : session'[j] = session[j]
      BY <1>0, <2>6, SessionLoses DEF SessionStages
    <3>2. QED
      BY <1>2, <2>1, <2>3, <2>4, <3>1
  <2>7. CASE LosesTo(k, "refused", 1) /\ (session[k].stage = "replaying" \/ UNCHANGED subnet)
    <3>1. /\ session' \in [KeysSeen -> SessionRecord]
          /\ session'[k].stage = "refused" /\ session'[k].lost = session[k].lost + 1
          /\ \A j \in KeysSeen \ {k} : session'[j] = session[j]
      BY <1>0, <2>7, SessionLoses DEF SessionStages
    <3>2. subnet'[k] # Unseen /\ session'[k].lost <= 1 => k \in noted
      BY <2>1, <2>4, <2>7, <3>1
    <3>3. QED
      BY <1>2, <2>1, <2>3, <3>1, <3>2
  <2>8. QED
    BY <1>6, <2>1, <2>5, <2>6, <2>7 DEF SubnetAdmit
<1>7. ASSUME NEW k \in KeysSeen, NoteSubnet(k) PROVE SessionInv'
  <2>1. UNCHANGED subnet /\ noted \subseteq noted' /\ subnet' \in [KeysSeen -> Int]
    BY <1>0, <1>7 DEF NoteSubnet, SessionTypes
  <2>2. CASE noted' = noted \union {k} /\ Reaches(k, "in")
    <3>1. /\ session' \in [KeysSeen -> SessionRecord] /\ session'[k].stage = "in"
          /\ \A j \in KeysSeen \ {k} : session'[j] = session[j]
      BY <1>0, <2>2, SessionReaches DEF SessionStages
    <3>2. QED
      BY <1>2, <2>1, <2>2, <3>1
  <2>3. CASE LosesTo(k, "refused", 2)
    <3>1. /\ session' \in [KeysSeen -> SessionRecord] /\ session'[k].stage = "refused"
          /\ session'[k].lost = session[k].lost + 2 /\ session[k].lost \in Nat
          /\ \A j \in KeysSeen \ {k} : session'[j] = session[j]
      BY <1>0, <2>3, SessionLoses DEF SessionStages
    <3>2. QED
      BY <1>2, <2>1, <3>1
  <2>4. QED
    BY <1>7, <2>2, <2>3 DEF NoteSubnet
<1>8. ASSUME NEW k \in KeysSeen, SessionEnds(k) PROVE SessionInv'
  <2>1. UNCHANGED <<subnet, noted>> /\ session[k].stage \in {"in", "refused"} /\ Reaches(k, "none")
    BY <1>8 DEF SessionEnds, Reaches
  <2>2. /\ session' \in [KeysSeen -> SessionRecord]
        /\ session'[k].stage = "none" /\ session'[k].lost = session[k].lost
        /\ \A j \in KeysSeen \ {k} : session'[j] = session[j]
    BY <1>0, <2>1, SessionReaches DEF SessionStages
  <2>3. subnet' \in [KeysSeen -> Int]
    BY <1>0, <2>1 DEF SessionTypes
  <2>4. subnet[k] # Unseen /\ session[k].lost <= 1 => k \in noted
    BY <1>0, <2>1 DEF KnownNoted
  <2>5. QED
    BY <1>2, <2>1, <2>2, <2>3, <2>4
<1>9. QED
  BY <1>4, <1>5, <1>6, <1>7, <1>8 DEF GateNext

\* A bit is kept just when its place in the address is within the prefix
\* (denylist.js mask).
LEMMA KeptBits ==
  ASSUME NEW i \in Nat, NEW prefix \in Nat, NEW j \in 1..WordBits
  PROVE  j <= Kept(i, prefix) <=> (i - 1) * WordBits + j <= prefix
<1>1. WordBits \in Nat /\ (i - 1) * WordBits \in Int
  BY GateAssumption
<1>2. PICK before \in Int : before = (i - 1) * WordBits
  BY <1>1
<1>3. PICK left \in Int : left = prefix - before
  BY <1>2
<1>4. Max({0, left}) = IF left > 0 THEN left ELSE 0
  <2> DEFINE top == IF left > 0 THEN left ELSE 0
  <2>1. top \in {0, left} /\ \A y \in {0, left} : top >= y
    BY <1>3
  <2>2. \A x \in {0, left} : (\A y \in {0, left} : x >= y) => x = top
    BY <1>3
  <2>3. QED
    BY <2>1, <2>2 DEF Max
<1>5. PICK up \in Int : up = Max({0, left}) /\ up = IF left > 0 THEN left ELSE 0
  BY <1>3, <1>4
<1>6. Min({WordBits, up}) = IF up < WordBits THEN up ELSE WordBits
  <2> DEFINE low == IF up < WordBits THEN up ELSE WordBits
  <2>1. low \in {WordBits, up} /\ \A y \in {WordBits, up} : low =< y
    BY <1>1, <1>5
  <2>2. \A x \in {WordBits, up} : (\A y \in {WordBits, up} : x =< y) => x = low
    BY <1>1, <1>5
  <2>3. QED
    BY <2>1, <2>2 DEF Min
<1>7. Kept(i, prefix) = IF up < WordBits THEN up ELSE WordBits
  BY <1>2, <1>3, <1>5, <1>6 DEF Kept
<1>8. QED
  BY <1>1, <1>2, <1>3, <1>5, <1>7

\* Two spellings of one network are stored as one entry (denylist.js
\* canonicalEntry).
LEMMA OneSpelling ==
  ASSUME NEW a \in Spellings, NEW b \in Spellings, SameNetwork(Canonical(a), Canonical(b))
  PROVE  Canonical(a) = Canonical(b)
<1> DEFINE Word == [1..WordBits -> {0, 1}]
<1>1. a[1] \in Seq(Word) /\ b[1] \in Seq(Word) /\ a[2] \in Nat /\ b[2] \in Nat
  BY GateAssumption
<1>2. PICK p \in Nat : p = a[2]
  BY <1>1
<1>3. /\ Canonical(a)[1] = Masked(a[1], a[2]) /\ Canonical(a)[2] = a[2]
      /\ Canonical(b)[1] = Masked(b[1], b[2]) /\ Canonical(b)[2] = b[2]
  BY DEF Canonical
<1>4. b[2] = p
  BY <1>2, <1>3 DEF SameNetwork
<1>5. DOMAIN a[1] = DOMAIN b[1]
  BY <1>3 DEF SameNetwork, Masked
<1>6. \A i \in DOMAIN a[1] : i \in Nat
  BY <1>1
<1>7. ASSUME NEW i \in DOMAIN a[1], NEW j \in 1..WordBits, j <= Kept(i, p)
      PROVE  a[1][i][j] = b[1][i][j]
  <2>1. (i - 1) * WordBits + j <= p
    BY <1>6, <1>7, KeptBits
  <2>2. DOMAIN Masked(a[1], p) = DOMAIN a[1]
    BY DEF Masked
  <2>3. Canonical(a)[1] = Masked(a[1], p) /\ Canonical(b)[1] = Masked(b[1], p) /\ Canonical(a)[2] = p
    BY <1>2, <1>3, <1>4
  <2>4. Masked(a[1], p)[i][j] = Masked(b[1], p)[i][j]
    BY <2>1, <2>2, <2>3, Zenon DEF SameNetwork
  <2>5. QED
    BY <1>5, <1>7, <2>4 DEF Masked
<1>8. Masked(a[1], p) = Masked(b[1], p)
  <2>1. ASSUME NEW i \in DOMAIN a[1]
        PROVE  [j \in 1..WordBits |-> IF j <= Kept(i, p) THEN a[1][i][j] ELSE 0]
                = [j \in 1..WordBits |-> IF j <= Kept(i, p) THEN b[1][i][j] ELSE 0]
    BY <1>7
  <2>2. QED
    BY <1>5, <2>1, Zenon DEF Masked
<1>9. QED
  BY <1>2, <1>4, <1>8 DEF Canonical

\* An edit of the list stores a key or a network it masked.
LEMMA NextMasked == ListMasked /\ [GateNext]_gateVars => ListMasked'
<1> SUFFICES ASSUME ListMasked, [GateNext]_gateVars PROVE ListMasked'
  OBVIOUS
<1>1. \A d \in denylist : d[1] \in KeyEntries \/ \E net \in Spellings : d[1] = Canonical(net)
  BY DEF ListMasked, Entries
<1>2. ASSUME \A d \in denylist' : d \in denylist \/ d[1] \in KeyEntries \/ \E net \in Spellings : d[1] = Canonical(net)
      PROVE  ListMasked'
  BY <1>1, <1>2 DEF ListMasked, Entries
<1>3. CASE UNCHANGED denylist
  BY <1>2, <1>3
<1>4. ASSUME NEW entry, entry \in KeyEntries \/ \E net \in Spellings : entry = Canonical(net),
             (\E lasts \in Lifetimes : DenyAdd(entry, lasts)) \/ DenyRemove(entry)
      PROVE  ListMasked'
  <2>1. CASE DenyRemove(entry)
    BY <1>2, <2>1 DEF DenyRemove
  <2>2. ASSUME NEW lasts \in Lifetimes, DenyAdd(entry, lasts) PROVE ListMasked'
    <3> DEFINE new == <<entry, IF lasts = 0 THEN Forever ELSE time + lasts>>
    <3>1. PICK kept \in SUBSET denylist : denylist' = kept \/ denylist' = kept \union {new}
      BY <2>2 DEF DenyAdd, LiveAt
    <3>2. new[1] = entry
      OBVIOUS
    <3>3. QED
      BY <1>2, <1>4, <3>1, <3>2
  <2>3. QED
    BY <1>4, <2>1, <2>2
<1>5. CASE DenyEdit
  BY <1>4, <1>5 DEF DenyEdit, KeyEntries
<1>6. CASE UNCHANGED gateVars
  BY <1>3, <1>6 DEF gateVars
<1>7. CASE GateNext /\ ~DenyEdit
  BY <1>3, <1>7 DEF GateNext, RefreshAsks, RefreshStores, RefreshFails, CheckLoads, CheckSwaps, SubnetAdmit, NoteSubnet,
       SessionEnds, Connects, TimePasses
<1>8. QED
  BY <1>5, <1>6, <1>7

\* So a network is on the list once.
LEMMA MaskedOnce == ListMasked => ListedOnce
BY OneSpelling DEF ListMasked, ListedOnce

\* However refreshes, checks, edits and the clock come, a replica refuses
\* sessions by the list it loaded last, less what has expired; the list holds
\* a network once, however it was written; and a key that was let in is noted
\* for its owner, unless the note or a second answer was lost (denylist.go
\* Check, denylist.js canonicalEntry, keygate.go AdmitNewKey).
THEOREM AlwaysSessionsGated == GateSpec => []SessionsGated
<1>1. GateInit => ListInv /\ SessionInv /\ ListMasked
  <2>1. GateInit => ListMasked
    BY DEF GateInit, ListMasked, Entries
  <2>2. QED
    BY <2>1, InitGate
<1>2. ListInv /\ SessionInv /\ ListMasked /\ [GateNext]_gateVars => ListInv' /\ SessionInv' /\ ListMasked'
  <2> SUFFICES ASSUME ListInv, SessionInv, ListMasked, [GateNext]_gateVars
               PROVE  ListInv' /\ SessionInv' /\ ListMasked'
    OBVIOUS
  <2>1. time \in Int
    BY DEF ListInv, GateDated
  <2>2. QED
    BY <2>1, NextList, NextSession, NextMasked
<1>3. ListInv /\ SessionInv /\ ListMasked => SessionsGated
  BY MaskedOnce DEF ListInv, SessionInv, SessionsGated
<1>4. QED
  BY <1>1, <1>2, <1>3, PTL DEF GateSpec
=============================================================================
