---------------------------- MODULE RoomLedgers -----------------------------
(***************************************************************************)
(* Proofs: the room escrow is type correct and its byte counts and totals  *)
(* are the sums they stand for; what a room stores is escrowed and a room  *)
(* at rest is allocated just what it stores; the ceilings of rooms and     *)
(* apps are kept; and the owner of an app is charged for what its rooms    *)
(* hold.                                                                   *)
(*                                                                         *)
(* The sums are proved together with the types.  A put computes the next   *)
(* byte count by a subtraction, which stays natural because the count is   *)
(* the sum; the app moves its total in the same way.  Each part of Shape   *)
(* has a lemma for every action that can disturb it.                       *)
(*                                                                         *)
(* A room's record and its document are at most one decision apart, which  *)
(* is inductive only together with what keeps a decision from being taken  *)
(* twice or out of order: every decision underway was asked for by its     *)
(* room (OnlyAsked), the one at work is the next of its room as long as    *)
(* the lock is held (Deciding), and what a room was told is what its       *)
(* record says (ToldRight).                                                *)
(*                                                                         *)
(* A ceiling is kept because a decision carries the one of its request and *)
(* a room whose record is behind has nothing left to catch up with         *)
(* (RoomsHold).  The owner's record is at most one charge behind that of   *)
(* the app, and never below the total when that charge is settled (Cover), *)
(* as long as no decision of a removed room is taken late (Departed).      *)
(***************************************************************************)
EXTENDS RoomProperties, TotalsProofs

(* Types and sums                                                          *)

\* A document's byte count is the sum of its values, and a pending operation
\* says what it makes of the count.
DocFits(d) ==
    /\ d.bytes = Total(d.kv)
    /\ ~d.live => d = NoDoc
    /\ d.pending.kind = "grow" =>
          /\ d.pending.key \in Key
          /\ d.pending.target = d.bytes - d.kv[d.pending.key] + d.pending.size
          /\ d.pending.target > d.bytes
    /\ d.pending.kind = "release" => d.pending.target = d.bytes

\* Where a handler is says whether its room is there and has an operation.
HandlerFits(d, h) ==
    /\ h.at \in {"new", "preflight", "record", "save", "failed"} => ~d.live
    /\ h.at \in {"call", "granted", "refused", "unavailable", "next", "removing", "gone"}
          => d.live
    /\ h.at \in {"call", "granted", "refused", "unavailable"} => d.pending.kind # "none"
    /\ h.at \in {"next", "removing", "gone"} => d.pending.kind = "none"
    /\ h.at \in {"removing", "gone"} => d.bytes = 0
    /\ h.then.kind \in {"put", "del"} => h.then.key \in Key

RoomFits(d, h) == d \in Doc /\ h \in Running /\ DocFits(d) /\ HandlerFits(d, h)

RoomsFit ==
    /\ doc \in [Room -> Doc] /\ running \in [Room -> Running]
    /\ \A r \in Room : DocFits(doc[r]) /\ HandlerFits(doc[r], running[r])

\* The app's total is the sum of its rooms' allocations.
AppFits ==
    /\ allocation \in [Room -> FenceRecord]
    /\ roomAllocated \in Nat
    /\ TotalIsSum

\* A cell at work knows whom it charges, and the room it decides on waits.
ChargesFit ==
    /\ row \in Owner \union {None}
    /\ ownerCharge \in OwnerCharge
    /\ charge \in [Owner -> FenceRecord]
    /\ work \in Work
    /\ ownerCharge.owner = None => ownerCharge = NoCharge
    /\ work.at # "idle" => ChargedOwner # None
    /\ work.at \in {"move", "replay", "lower", "grow", "shrink"} => ownerCharge.owner # None
    /\ work.at \in {"grow", "commit", "refuse", "shrunk", "shrink"} => work.of.room # None
    /\ work.at = "idle" => work = NoWork

Waits == work.waited => work.of.room \in Room /\ running[work.of.room].at = "call"

\* Calls on their way name the cell they go to.
NetFits ==
    /\ roomTotal \in Nat
    /\ recorded \subseteq Room /\ gone \subseteq Room /\ asked \subseteq Room
    /\ late \subseteq Message
    /\ moves \in 0 .. MaxMoves /\ faults \in 0 .. MaxFaults
    /\ \A m \in late : /\ m.type \in {"decide", "record"} => m.room \in Room
                       /\ m.type \in {"charge", "seed"} => m.owner \in Owner

Shape == RoomsFit /\ AppFits /\ ChargesFit /\ Waits /\ NetFits

-----------------------------------------------------------------------------
(* Documents.                                                              *)

LEMMA RoomFacts ==
  /\ IsFiniteSet(Room) /\ IsFiniteSet(Key)
  /\ None \notin Room /\ None \notin Key /\ None \notin Owner
  /\ \A n \in Sizes : n \in Nat /\ n > 0
  /\ \A n \in AppCaps : n \in Nat
  /\ UserCap \in Nat /\ UserCap > 0
BY RoomAssumption

LEMMA EmptyDocFits == NoDoc \in Doc /\ DocFits(NoDoc)
<1>1. Total([k \in Key |-> 0]) = 0
  BY TotalZero
<1>2. NoDoc \in Doc
  BY DEF NoDoc, Doc, NoOperation, Operation
<1>3. QED
  BY <1>1, <1>2 DEF NoDoc, DocFits, NoOperation

\* The byte count a put asks for, and what applying it makes of the values.
LEMMA NextBytes ==
  ASSUME NEW d \in Doc, DocFits(d), NEW key \in Key, NEW size \in Nat
  PROVE  /\ d.bytes - d.kv[key] + size \in Nat
         /\ Total([d.kv EXCEPT ![key] = size]) = d.bytes - d.kv[key] + size
<1>1. d.kv \in [Key -> Nat] /\ d.bytes = Total(d.kv) /\ d.bytes \in Nat
  BY DEF Doc, DocFits
<1>2. /\ Total([d.kv EXCEPT ![key] = size]) = Total(d.kv) - d.kv[key] + size
      /\ d.kv[key] <= Total(d.kv)
  BY <1>1, TotalUpdate, RoomFacts
<1>3. d.kv[key] \in Nat
  BY <1>1
<1>4. QED
  BY <1>1, <1>2, <1>3

\* e is d with the next operation: a growth to be granted, or a release that
\* is applied at once.
Asks(d, e) ==
    /\ e.live /\ e.version = d.version + 1
    /\ \/ e.pending.kind = "grow" /\ e.bytes = d.bytes
       \/ e.pending.kind = "release" /\ e.bytes < d.bytes

\* A document with a new operation, and with other values.
WithPending(d, op) == [d EXCEPT !.version = @ + 1, !.pending = op]
WithValues(d, kv, bytes) == [d EXCEPT !.kv = kv, !.bytes = bytes]

LEMMA PendFields ==
  ASSUME NEW d \in Doc, NEW op \in Operation
  PROVE  LET e == WithPending(d, op) IN
         /\ e \in Doc
         /\ e.kv = d.kv /\ e.bytes = d.bytes /\ e.live = d.live /\ e.version = d.version + 1
         /\ e.pending = op
<1> DEFINE v == d.version + 1
           e == WithPending(d, op)
<1>1. v \in Nat
  BY DEF Doc
<1>2. e = [d EXCEPT !.version = v, !.pending = op]
  BY DEF Doc, WithPending
<1> HIDE DEF v, e
<1>3. /\ e \in Doc
      /\ e.kv = d.kv /\ e.bytes = d.bytes /\ e.live = d.live /\ e.version = v
      /\ e.pending = op
  BY <1>1, <1>2 DEF Doc
<1>4. QED
  BY <1>3 DEF v, e

LEMMA PutFits ==
  ASSUME NEW d \in Doc, DocFits(d), d.live, NEW q \in Request,
         q.key \in Key, Budgeted(d, q)
  PROVE  PendPut(d, q) \in Doc /\ DocFits(PendPut(d, q)) /\ Asks(d, PendPut(d, q))
<1> DEFINE next == d.bytes - d.kv[q.key] + q.size
           kv == [d.kv EXCEPT ![q.key] = q.size]
           e == PendPut(d, q)
<1>1. /\ q.size \in Nat /\ q.cap \in Nat /\ d.bytes \in Nat /\ d.bytes = Total(d.kv)
      /\ d.kv \in [Key -> Nat]
  BY DEF Request, Doc, DocFits
<1>2. next \in Nat /\ Total(kv) = next /\ next # d.bytes /\ kv \in [Key -> Nat]
  BY <1>1, NextBytes DEF Budgeted
<1>3. CASE next > d.bytes
  <2> DEFINE op == [kind |-> "grow", target |-> next, cap |-> q.cap, key |-> q.key,
                    size |-> q.size]
  <2>1. e = WithPending(d, op)
    BY <1>3 DEF PendPut, Pend, WithPending
  <2>2. /\ op \in Operation /\ op.kind = "grow" /\ op.key = q.key /\ op.size = q.size
        /\ op.target = next
    BY <1>1, <1>2 DEF Operation
  <2> HIDE DEF op, e
  <2>3. /\ e \in Doc /\ e.kv = d.kv /\ e.bytes = d.bytes /\ e.live = d.live
        /\ e.pending = op /\ e.version = d.version + 1
    BY <2>1, <2>2, PendFields
  <2>4. e \in Doc /\ DocFits(e) /\ Asks(d, e)
    BY <1>1, <1>2, <1>3, <2>2, <2>3 DEF DocFits, Asks
  <2>5. QED
    BY <2>4 DEF e
<1>4. CASE ~(next > d.bytes)
  <2> DEFINE op == [kind |-> "release", target |-> next, cap |-> q.cap, key |-> None,
                    size |-> 0]
             p == WithPending(d, op)
  <2>1. e = WithValues(p, [p.kv EXCEPT ![q.key] = q.size], next)
    BY <1>4 DEF PendPut, Pend, ApplyPut, WithPending, WithValues
  <2>2. op \in Operation /\ op.kind = "release" /\ op.target = next
    BY <1>1, <1>2 DEF Operation
  <2> HIDE DEF op
  <2>3. /\ p \in Doc /\ p.kv = d.kv /\ p.live = d.live /\ p.pending = op
        /\ p.version = d.version + 1
    BY <2>2, PendFields
  <2>4. e = WithValues(p, kv, next)
    BY <2>1, <2>3
  <2> HIDE DEF p, kv, next, e
  <2>5. /\ e \in Doc /\ e.kv = kv /\ e.bytes = next /\ e.live = d.live /\ e.pending = op
        /\ e.version = d.version + 1
    BY <1>2, <2>3, <2>4 DEF Doc, WithValues
  <2>6. next < d.bytes
    BY <1>1, <1>2, <1>4 DEF next
  <2>7. e \in Doc /\ DocFits(e) /\ Asks(d, e)
    BY <1>2, <2>2, <2>5, <2>6 DEF DocFits, Asks
  <2>8. QED
    BY <2>7 DEF e
<1>5. QED
  BY <1>3, <1>4

\* Values that are released as they are dropped, by a delete or a removal.
LEMMA ReleaseFits ==
  ASSUME NEW d \in Doc, d.live, NEW bytes \in Nat,
         NEW kv \in [Key -> Nat], Total(kv) = bytes, bytes < d.bytes,
         NEW e, e = WithValues(Pend(d, "release", bytes, 0, None, 0), kv, bytes)
  PROVE  e \in Doc /\ DocFits(e) /\ Asks(d, e)
<1> DEFINE op == [kind |-> "release", target |-> bytes, cap |-> 0, key |-> None, size |-> 0]
           p == WithPending(d, op)
<1>1. e = WithValues(p, kv, bytes)
  BY DEF Pend, WithPending
<1>2. op \in Operation /\ op.kind = "release" /\ op.target = bytes
  BY DEF Operation
<1> HIDE DEF op
<1>3. p \in Doc /\ p.live = d.live /\ p.pending = op /\ p.version = d.version + 1
  BY <1>2, PendFields
<1> HIDE DEF p
<1>4. /\ e \in Doc /\ e.kv = kv /\ e.bytes = bytes /\ e.live = d.live /\ e.pending = op
      /\ e.version = d.version + 1
  BY <1>1, <1>3 DEF Doc, WithValues
<1>5. QED
  BY <1>2, <1>4 DEF DocFits, Asks

LEMMA DelFits ==
  ASSUME NEW d \in Doc, DocFits(d), d.live, NEW key \in Key, d.kv[key] > 0,
         NEW e, e = ApplyPut(Pend(d, "release", d.bytes - d.kv[key], 0, None, 0), key, 0,
                             d.bytes - d.kv[key])
  PROVE  e \in Doc /\ DocFits(e) /\ Asks(d, e)
<1> DEFINE next == d.bytes - d.kv[key]
           kv == [d.kv EXCEPT ![key] = 0]
<1>1. d.bytes \in Nat /\ d.kv \in [Key -> Nat] /\ d.kv[key] \in Nat
  BY DEF Doc
<1>2. next + 0 \in Nat /\ Total(kv) = next + 0
  BY NextBytes
<1>3. next \in Nat /\ Total(kv) = next /\ kv \in [Key -> Nat] /\ next < d.bytes
  BY <1>1, <1>2
<1>4. e = WithValues(Pend(d, "release", next, 0, None, 0), kv, next)
  <2>1. Pend(d, "release", next, 0, None, 0).kv = d.kv
    BY DEF Pend, Doc
  <2>2. QED
    BY <2>1 DEF ApplyPut, WithValues
<1> HIDE DEF next, kv
<1>5. QED
  BY <1>3, <1>4, ReleaseFits

\* A removal of a room that holds something releases all of it.
LEMMA ReleaseAllFits ==
  ASSUME NEW d \in Doc, DocFits(d), d.live, ~Empty(d),
         NEW e, e = [Pend(d, "release", 0, 0, None, 0) EXCEPT
                        !.kv = [k \in Key |-> 0], !.bytes = 0]
  PROVE  e \in Doc /\ DocFits(e) /\ Asks(d, e)
<1> DEFINE kv == [k \in Key |-> 0]
<1>1. kv \in [Key -> Nat] /\ Total(kv) = 0
  BY TotalZero
<1>0. 0 < d.bytes
  <2>1. d.bytes \in Nat /\ d.kv \in [Key -> Nat]
    BY DEF Doc
  <2>2. ASSUME NEW k \in Key PROVE d.kv[k] <= d.bytes /\ d.kv[k] \in Nat
    <3>1. d.bytes - d.kv[k] + 0 \in Nat /\ d.kv[k] \in Nat
      BY <2>1, NextBytes
    <3>2. QED
      BY <2>1, <3>1
  <2>3. QED
    BY <2>1, <2>2 DEF Empty
<1> DEFINE none == 0
<1>2. /\ none \in Nat /\ Total(kv) = none /\ none < d.bytes
      /\ e = WithValues(Pend(d, "release", none, 0, None, 0), kv, none)
  BY <1>0, <1>1 DEF WithValues
<1> HIDE DEF kv, none
<1>3. QED
  BY <1>1, <1>2, ReleaseFits

LEMMA ClearedFits ==
  ASSUME NEW d \in Doc, DocFits(d), d.live
  PROVE  /\ Cleared(d) \in Doc /\ DocFits(Cleared(d))
         /\ Cleared(d).live /\ Cleared(d).pending.kind = "none"
         /\ Cleared(d).version = d.version /\ Cleared(d).bytes = d.bytes
<1>1. NoOperation \in Operation /\ NoOperation.kind = "none"
  BY DEF Operation, NoOperation
<1>2. /\ Cleared(d) \in Doc /\ Cleared(d).kv = d.kv /\ Cleared(d).bytes = d.bytes
      /\ Cleared(d).live = d.live /\ Cleared(d).pending = NoOperation
      /\ Cleared(d).version = d.version
  BY <1>1 DEF Doc, Cleared
<1>3. QED
  BY <1>1, <1>2 DEF DocFits

\* A granted growth, applied and cleared.
LEMMA AppliedFits ==
  ASSUME NEW d \in Doc, DocFits(d), d.live, d.pending.kind = "grow",
         NEW e, e = Cleared(ApplyPut(d, d.pending.key, d.pending.size, d.pending.target))
  PROVE  /\ e \in Doc /\ DocFits(e) /\ e.live /\ e.pending.kind = "none"
         /\ e.version = d.version /\ e.bytes = d.pending.target
<1> DEFINE op == d.pending
           kv == [d.kv EXCEPT ![op.key] = op.size]
<1>1. /\ op \in Operation /\ op.size \in Nat /\ op.key \in Key /\ op.target \in Nat
      /\ d.kv \in [Key -> Nat] /\ d.live \in BOOLEAN /\ d.version \in Nat
  BY DEF Doc, DocFits, Operation
<1>2. Total(kv) = d.bytes - d.kv[op.key] + op.size /\ kv \in [Key -> Nat]
  BY <1>1, NextBytes
<1>3. op.target = d.bytes - d.kv[op.key] + op.size
  BY DEF DocFits
<1>4. NoOperation \in Operation /\ NoOperation.kind = "none"
  BY DEF Operation, NoOperation
<1>5. /\ e \in Doc /\ e.kv = kv /\ e.bytes = op.target /\ e.live = d.live
      /\ e.pending = NoOperation /\ e.version = d.version
  BY <1>1, <1>2, <1>4 DEF Doc, ApplyPut, Cleared
<1>6. QED
  BY <1>2, <1>3, <1>4, <1>5 DEF DocFits

-----------------------------------------------------------------------------
(* The Room cells.                                                         *)

\* One room's handler takes a step; no room that waits for the app is touched.
Aside(r) == /\ running[r].at # "call"
            /\ \A s \in Room \ {r} : running'[s] = running[s]

LEMMA RoomStepFits ==
  ASSUME RoomsFit, NEW r \in Room, NEW d, NEW step, NEW then,
         RoomStep(r, d, step, then), RoomFits(d, [at |-> step, then |-> then])
  PROVE  RoomsFit' /\ \A s \in Room \ {r} : running'[s] = running[s]
<1> DEFINE h == [at |-> step, then |-> then]
<1>1. doc' = [doc EXCEPT ![r] = d] /\ running' = [running EXCEPT ![r] = h]
  BY DEF RoomStep
<1> HIDE DEF h
<1>2. d \in Doc /\ h \in Running /\ DocFits(d) /\ HandlerFits(d, h)
  BY DEF RoomFits, h
<1>3. doc' \in [Room -> Doc] /\ running' \in [Room -> Running]
  BY <1>1, <1>2 DEF RoomsFit
<1>4. ASSUME NEW s \in Room
      PROVE  /\ DocFits(doc'[s]) /\ HandlerFits(doc'[s], running'[s])
             /\ s # r => running'[s] = running[s]
  <2>1. CASE s = r
    BY <1>1, <1>2, <2>1 DEF RoomsFit
  <2>2. CASE s # r
    <3>1. doc'[s] = doc[s] /\ running'[s] = running[s]
      BY <1>1, <2>2 DEF RoomsFit
    <3>2. QED
      BY <3>1 DEF RoomsFit
  <2>3. QED
    BY <2>1, <2>2
<1>5. QED
  BY <1>3, <1>4 DEF RoomsFit

\* A handler moves on, and the documents stay.
LEMMA HandlerStepFits ==
  ASSUME RoomsFit, NEW r \in Room, NEW h \in Running, HandlerFits(doc[r], h),
         UNCHANGED doc, running' = [running EXCEPT ![r] = h]
  PROVE  RoomsFit' /\ \A s \in Room \ {r} : running'[s] = running[s]
<1>1. doc' \in [Room -> Doc] /\ running' \in [Room -> Running]
  BY DEF RoomsFit
<1>2. ASSUME NEW s \in Room
      PROVE  /\ DocFits(doc'[s]) /\ HandlerFits(doc'[s], running'[s])
             /\ s # r => running'[s] = running[s]
  <2>1. CASE s = r
    BY <2>1 DEF RoomsFit
  <2>2. CASE s # r
    <3>1. doc'[s] = doc[s] /\ running'[s] = running[s]
      BY <2>2 DEF RoomsFit
    <3>2. QED
      BY <3>1 DEF RoomsFit
  <2>3. QED
    BY <2>1, <2>2
<1>3. QED
  BY <1>1, <1>2 DEF RoomsFit

LEMMA WaitsAside ==
  ASSUME Waits, NEW r \in Room, Aside(r), UNCHANGED work
  PROVE  Waits'
BY DEF Waits, Aside

LEMMA NoRequestTyped == NoRequest \in Request /\ NoRequest.kind = "none"
BY DEF NoRequest, Request

\* A room's document and handler have their shapes.
LEMMA RoomTyped ==
  ASSUME RoomsFit, NEW r \in Room
  PROVE  /\ doc[r] \in Doc /\ running[r] \in Running
         /\ doc[r].live \in BOOLEAN /\ doc[r].pending \in Operation
         /\ running[r].then \in Request
         /\ DocFits(doc[r]) /\ HandlerFits(doc[r], running[r])
BY DEF RoomsFit, Doc, Running

LEMMA PerformFits ==
  ASSUME RoomsFit, NEW r \in Room, NEW q \in Request, Perform(r, q),
         doc[r].live, doc[r].pending.kind = "none",
         q.kind \in {"put", "del"} => q.key \in Key
  PROVE  RoomsFit' /\ \A s \in Room \ {r} : running'[s] = running[s]
<1>1. doc[r] \in Doc /\ DocFits(doc[r])
  BY RoomTyped
<1>2. ASSUME NEW d, RoomStep(r, d, "call", NoRequest),
             d \in Doc, DocFits(d), Asks(doc[r], d)
      PROVE  RoomsFit' /\ \A s \in Room \ {r} : running'[s] = running[s]
  <2>1. RoomFits(d, [at |-> "call", then |-> NoRequest])
    BY <1>2, NoRequestTyped DEF RoomFits, HandlerFits, Running, Asks
  <2>2. QED
    BY <1>2, <2>1, RoomStepFits
<1>3. ASSUME NEW d, NEW step, RoomStep(r, d, step, q),
             d \in Doc, DocFits(d), d.live,
             \/ step = "call" /\ Asks(doc[r], d)
             \/ step = "removing" /\ d.pending.kind = "none" /\ d.bytes = 0
      PROVE  RoomsFit' /\ \A s \in Room \ {r} : running'[s] = running[s]
  <2>1. RoomFits(d, [at |-> step, then |-> q])
    BY <1>3 DEF RoomFits, HandlerFits, Running, Asks
  <2>2. QED
    BY <1>3, <2>1, RoomStepFits
<1>4. CASE q.kind = "put" /\ PutOn(r, q)
  <2>1. Budgeted(doc[r], q) /\ RoomStep(r, PendPut(doc[r], q), "call", NoRequest)
    BY <1>4 DEF PutOn
  <2>2. /\ PendPut(doc[r], q) \in Doc /\ DocFits(PendPut(doc[r], q))
        /\ Asks(doc[r], PendPut(doc[r], q))
    BY <1>1, <1>4, <2>1, PutFits
  <2>3. QED
    BY <1>2, <2>1, <2>2
<1>5. CASE q.kind = "del" /\ DelOn(r, q)
  <2> DEFINE next == doc[r].bytes - doc[r].kv[q.key]
             e == ApplyPut(Pend(doc[r], "release", next, 0, None, 0), q.key, 0, next)
  <2>1. RoomStep(r, e, "call", NoRequest) /\ doc[r].kv[q.key] > 0
    BY <1>5 DEF DelOn
  <2>2. e \in Doc /\ DocFits(e) /\ Asks(doc[r], e)
    BY <1>1, <1>5, <2>1, DelFits
  <2> HIDE DEF e
  <2>3. QED
    BY <1>2, <2>1, <2>2
<1>6. CASE q.kind = "remove" /\ RemoveOn(r, q)
  <2>1. CASE Empty(doc[r])
    <3>1. RoomStep(r, doc[r], "removing", q)
      BY <1>6, <2>1 DEF RemoveOn
    <3>2. doc[r].bytes = 0
      BY <2>1 DEF Empty
    <3>3. QED
      BY <1>1, <1>3, <3>1, <3>2
  <2>2. CASE ~Empty(doc[r])
    <3> DEFINE e == [Pend(doc[r], "release", 0, 0, None, 0) EXCEPT
                        !.kv = [k \in Key |-> 0], !.bytes = 0]
    <3>1. RoomStep(r, e, "call", q)
      BY <1>6, <2>2 DEF RemoveOn
    <3>2. e \in Doc /\ DocFits(e) /\ Asks(doc[r], e) /\ e.live
      BY <1>1, <2>2, ReleaseAllFits DEF Asks
    <3> HIDE DEF e
    <3>3. QED
      BY <1>3, <3>1, <3>2
  <2>3. QED
    BY <2>1, <2>2
<1>7. QED
  BY <1>4, <1>5, <1>6 DEF Perform

LEMMA ArriveFits ==
  ASSUME RoomsFit, Waits, NEW r \in Room, NEW q \in Request, Arrive(r, q),
         q.kind \in {"put", "del"} => q.key \in Key
  PROVE  RoomsFit' /\ Waits'
<1>1. running[r].at = "idle" /\ doc[r].live /\ UNCHANGED work
  BY DEF Arrive
<1>2. RoomsFit' /\ \A s \in Room \ {r} : running'[s] = running[s]
  <2>1. CASE doc[r].pending.kind # "none" /\ RoomStep(r, doc[r], "call", q)
    <3>1. RoomFits(doc[r], [at |-> "call", then |-> q])
      BY <1>1, <2>1, RoomTyped DEF RoomFits, HandlerFits, Running
    <3>2. QED
      BY <2>1, <3>1, RoomStepFits
  <2>2. CASE doc[r].pending.kind = "none" /\ Perform(r, q)
    BY <1>1, <2>2, PerformFits
  <2>3. QED
    BY <2>1, <2>2 DEF Arrive
<1>3. QED
  BY <1>1, <1>2, WaitsAside DEF Aside

\* Clients' and operators' requests.
LEMMA RequestFits ==
  ASSUME RoomsFit, Waits, NEW r \in Room, RoomRequest(r)
  PROVE  RoomsFit' /\ Waits'
<1>1. ASSUME NEW cap \in AppCaps, Create(r, cap)
      PROVE  RoomsFit' /\ Waits'
  <2> DEFINE q == [NoRequest EXCEPT !.kind = "create", !.cap = cap]
             h == [at |-> IF cap > 0 THEN "preflight" ELSE "record", then |-> q]
  <2>1. q \in Request /\ q.kind = "create"
    BY RoomFacts DEF Request, NoRequest
  <2>2. /\ running[r].at = "new" /\ running' = [running EXCEPT ![r] = h]
        /\ UNCHANGED doc /\ UNCHANGED work
    BY <1>1 DEF Create
  <2> HIDE DEF q
  <2>3. h \in Running /\ h.then = q /\ h.at \in {"preflight", "record"}
    BY <2>1 DEF Running
  <2> HIDE DEF h
  <2>4. HandlerFits(doc[r], h)
    BY <2>1, <2>2, <2>3, RoomTyped DEF HandlerFits
  <2>5. QED
    BY <2>2, <2>3, <2>4, HandlerStepFits, WaitsAside DEF Aside
<1>2. ASSUME NEW k \in Key, NEW n \in Sizes, NEW cap \in AppCaps,
             Arrive(r, [kind |-> "put", key |-> k, size |-> n, cap |-> cap])
      PROVE  RoomsFit' /\ Waits'
  <2> DEFINE q == [kind |-> "put", key |-> k, size |-> n, cap |-> cap]
  <2>1. q \in Request /\ q.key \in Key
    BY RoomFacts DEF Request
  <2> HIDE DEF q
  <2>2. QED
    BY <1>2, <2>1, ArriveFits DEF q
<1>3. ASSUME NEW k \in Key, Arrive(r, [kind |-> "del", key |-> k, size |-> 0, cap |-> 0])
      PROVE  RoomsFit' /\ Waits'
  <2> DEFINE q == [kind |-> "del", key |-> k, size |-> 0, cap |-> 0]
  <2>1. q \in Request /\ q.key \in Key
    BY DEF Request
  <2> HIDE DEF q
  <2>2. QED
    BY <1>3, <2>1, ArriveFits DEF q
<1>4. CASE Remove(r)
  <2> DEFINE q == [NoRequest EXCEPT !.kind = "remove"]
  <2>1. q \in Request /\ q.kind = "remove"
    BY DEF Request, NoRequest
  <2>2. Arrive(r, q)
    BY <1>4 DEF Remove
  <2> HIDE DEF q
  <2>3. QED
    BY <2>1, <2>2, ArriveFits
<1>5. QED
  BY <1>1, <1>2, <1>3, <1>4 DEF RoomRequest, Put, Del

\* The handler's own steps, and the alarm.
LEMMA LocalFits ==
  ASSUME RoomsFit, Waits, NEW r \in Room, RoomLocal(r) \/ Alarm(r)
  PROVE  RoomsFit' /\ Waits'
<1>1. /\ doc[r] \in Doc /\ DocFits(doc[r]) /\ HandlerFits(doc[r], running[r])
      /\ running[r] \in Running /\ running[r].then \in Request /\ doc[r].live \in BOOLEAN
  BY RoomTyped
<1>2. ASSUME running[r].at # "call", UNCHANGED work,
             NEW d, NEW step, NEW then, RoomStep(r, d, step, then),
             RoomFits(d, [at |-> step, then |-> then])
      PROVE  RoomsFit' /\ Waits'
  BY <1>2, RoomStepFits, WaitsAside DEF Aside
<1>3. CASE SaveRoom(r)
  <2> DEFINE d == [NoDoc EXCEPT !.live = TRUE]
  <2>1. running[r].at = "save" /\ doc[r] = NoDoc
    BY <1>1, <1>3 DEF SaveRoom, HandlerFits, DocFits
  <2>2. RoomStep(r, d, "idle", NoRequest) /\ UNCHANGED work
    BY <1>3, <2>1 DEF SaveRoom, RoomStep, At
  <2>3. d \in Doc /\ DocFits(d)
    BY EmptyDocFits DEF Doc, DocFits, NoDoc
  <2> HIDE DEF d
  <2>4. RoomFits(d, [at |-> "idle", then |-> NoRequest])
    BY <2>3, NoRequestTyped DEF RoomFits, HandlerFits, Running
  <2>5. QED
    BY <1>2, <2>1, <2>2, <2>4
<1>4. CASE GoOn(r)
  <2> DEFINE q == running[r].then
  <2>1. running[r].at = "next" /\ UNCHANGED work /\ doc[r].live /\ doc[r].pending.kind = "none"
        /\ (q.kind \in {"put", "del"} => q.key \in Key)
    BY <1>1, <1>4 DEF GoOn, HandlerFits
  <2>2. CASE Perform(r, q)
    <3>1. RoomsFit' /\ \A s \in Room \ {r} : running'[s] = running[s]
      BY <1>1, <2>1, <2>2, PerformFits
    <3>2. QED
      BY <2>1, <3>1, WaitsAside DEF Aside
  <2>3. CASE RoomStep(r, doc[r], "idle", NoRequest)
    <3>1. RoomFits(doc[r], [at |-> "idle", then |-> NoRequest])
      BY <1>1, NoRequestTyped DEF RoomFits, HandlerFits, Running
    <3>2. QED
      BY <1>2, <2>1, <2>3, <3>1
  <2>4. QED
    BY <1>4, <2>2, <2>3 DEF GoOn
<1>5. CASE Alarm(r)
  <2>1. /\ running[r].at = "idle" /\ UNCHANGED work /\ doc[r].pending.kind # "none"
        /\ RoomStep(r, doc[r], "call", NoRequest)
    BY <1>5 DEF Alarm
  <2>2. doc[r].live
    BY <1>1, <2>1 DEF DocFits, NoDoc, NoOperation
  <2>3. RoomFits(doc[r], [at |-> "call", then |-> NoRequest])
    BY <1>1, <2>1, <2>2, NoRequestTyped DEF RoomFits, HandlerFits, Running
  <2>4. QED
    BY <1>2, <2>1, <2>3
<1>6. ASSUME NEW d, d \in Doc, DocFits(d), d.live, d.pending.kind = "none",
             RoomStep(r, d, Settled(r), running[r].then), UNCHANGED work,
             running[r].at \in {"granted", "refused"}
      PROVE  RoomsFit' /\ Waits'
  <2>1. Settled(r) \in {"idle", "next"}
    BY DEF Settled
  <2>2. RoomFits(d, [at |-> Settled(r), then |-> running[r].then])
    BY <1>1, <1>6, <2>1 DEF RoomFits, HandlerFits, Running
  <2>3. QED
    BY <1>2, <1>6, <2>2
<1>7. CASE Granted(r)
  <2> DEFINE op == doc[r].pending
             a == ApplyPut(doc[r], op.key, op.size, op.target)
             d == Cleared(IF op.kind = "grow" THEN a ELSE doc[r])
  <2>1. /\ running[r].at = "granted" /\ UNCHANGED work
        /\ RoomStep(r, d, Settled(r), running[r].then)
    BY <1>7 DEF Granted
  <2>2. doc[r].live
    BY <1>1, <2>1 DEF HandlerFits
  <2>3. d \in Doc /\ DocFits(d) /\ d.live /\ d.pending.kind = "none"
    <3>1. CASE op.kind = "grow"
      BY <1>1, <2>2, <3>1, AppliedFits
    <3>2. CASE op.kind # "grow"
      BY <1>1, <2>2, <3>2, ClearedFits
    <3>3. QED
      BY <3>1, <3>2
  <2> HIDE DEF d
  <2>4. QED
    BY <1>6, <2>1, <2>3
<1>8. CASE Refused(r)
  <2>1. /\ running[r].at = "refused" /\ UNCHANGED work
        /\ RoomStep(r, Cleared(doc[r]), Settled(r), running[r].then)
    BY <1>8 DEF Refused
  <2>2. doc[r].live
    BY <1>1, <2>1 DEF HandlerFits
  <2>3. QED
    BY <1>1, <1>6, <2>1, <2>2, ClearedFits
<1>9. CASE Unavailable(r)
  <2>1. /\ running[r].at = "unavailable" /\ UNCHANGED work
        /\ RoomStep(r, doc[r], "idle", NoRequest)
    BY <1>9 DEF Unavailable, RetryLater
  <2>2. RoomFits(doc[r], [at |-> "idle", then |-> NoRequest])
    BY <1>1, NoRequestTyped DEF RoomFits, HandlerFits, Running
  <2>3. QED
    BY <1>2, <2>1, <2>2
<1>10. CASE DropRoom(r)
  <2>1. /\ running[r].at = "gone" /\ UNCHANGED work /\ RoomStep(r, NoDoc, "idle", NoRequest)
    BY <1>10 DEF DropRoom
  <2>2. RoomFits(NoDoc, [at |-> "idle", then |-> NoRequest])
    BY EmptyDocFits, NoRequestTyped DEF RoomFits, HandlerFits, Running
  <2>3. QED
    BY <1>2, <2>1, <2>2
<1>11. QED
  BY <1>3, <1>4, <1>5, <1>7, <1>8, <1>9, <1>10 DEF RoomLocal

\* A handler with the same request at another place.
LEMMA PlaceFits ==
  ASSUME RoomsFit, NEW r \in Room, NEW place, UNCHANGED doc,
         running' = [running EXCEPT ![r].at = place],
         [running[r] EXCEPT !.at = place] \in Running,
         HandlerFits(doc[r], [running[r] EXCEPT !.at = place])
  PROVE  RoomsFit' /\ \A s \in Room \ {r} : running'[s] = running[s]
<1> DEFINE h == [running[r] EXCEPT !.at = place]
<1>1. running' = [running EXCEPT ![r] = h]
  OBVIOUS
<1> HIDE DEF h
<1>2. h \in Running /\ HandlerFits(doc[r], h)
  BY DEF h
<1>3. QED
  BY <1>1, <1>2, HandlerStepFits

\* The handler's other calls to the app.
LEMMA CallFits ==
  ASSUME RoomsFit, Waits, NEW r \in Room,
         Preflight(r) \/ RoomCreated(r) \/ RoomRemoved(r)
  PROVE  RoomsFit' /\ Waits'
<1>1. /\ doc[r] \in Doc /\ DocFits(doc[r]) /\ HandlerFits(doc[r], running[r])
      /\ running[r] \in Running
  BY RoomTyped
<1>2. ASSUME running[r].at # "call", UNCHANGED work, UNCHANGED doc,
             NEW place, running' = [running EXCEPT ![r].at = place],
             \/ running[r].at = "preflight" /\ place \in {"failed", "record"}
             \/ running[r].at = "record" /\ place = "save"
             \/ running[r].at = "removing" /\ place = "gone"
      PROVE  RoomsFit' /\ Waits'
  <2> DEFINE h == [running[r] EXCEPT !.at = place]
  <2>1. h \in Running /\ h.at = place /\ h.then = running[r].then
    BY <1>1, <1>2 DEF Running
  <2> HIDE DEF h
  <2>2. HandlerFits(doc[r], h)
    BY <1>1, <1>2, <2>1 DEF HandlerFits
  <2>3. QED
    BY <1>2, <2>1, <2>2, PlaceFits, WaitsAside DEF h, Aside
<1>3. CASE Preflight(r)
  <2>1. running[r].at = "preflight" /\ UNCHANGED work /\ UNCHANGED doc
    BY <1>3 DEF Preflight
  <2>2. PICK place \in {"failed", "record"} : running' = [running EXCEPT ![r].at = place]
    BY <1>3 DEF Preflight
  <2>3. QED
    BY <1>2, <2>1, <2>2
<1>4. CASE RoomCreated(r)
  BY <1>2, <1>4 DEF RoomCreated, RecordRoom
<1>5. CASE RoomRemoved(r)
  <2>1. running[r].at = "removing" /\ UNCHANGED work /\ UNCHANGED doc
    BY <1>5 DEF RoomRemoved
  <2>2. CASE running' = [running EXCEPT ![r].at = "gone"]
    BY <1>2, <2>1, <2>2
  <2>3. CASE running' = [running EXCEPT ![r] = At("idle")]
    <3>1. At("idle") \in Running /\ HandlerFits(doc[r], At("idle"))
      BY NoRequestTyped DEF At, Running, HandlerFits
    <3>2. QED
      BY <2>1, <2>3, <3>1, HandlerStepFits, WaitsAside DEF Aside
  <2>4. QED
    BY <1>5, <2>2, <2>3 DEF RoomRemoved
<1>6. QED
  BY <1>3, <1>4, <1>5

-----------------------------------------------------------------------------
(* The app's ledger.                                                       *)

Sum == [r \in Room |-> allocation[r].allocated]

LEMMA SumUpdate ==
  ASSUME NEW f \in [Room -> Nat], NEW r \in Room, NEW n \in Nat
  PROVE  Total([f EXCEPT ![r] = n]) = Total(f) - f[r] + n /\ f[r] <= Total(f)
<1>1. IsFiniteSet(Room)
  BY RoomFacts
<1>2. QED
  BY <1>1, TotalUpdate

\* One room's record changes, and the total with what it allocates.
LEMMA RecordFits ==
  ASSUME AppFits, NEW r \in Room, NEW record \in FenceRecord,
         allocation' = [allocation EXCEPT ![r] = record],
         roomAllocated' = roomAllocated - allocation[r].allocated + record.allocated
  PROVE  AppFits'
<1>0. PICK n \in Nat : n = record.allocated
  BY DEF FenceRecord
<1>1. /\ Sum \in [Room -> Nat] /\ Sum[r] = allocation[r].allocated
      /\ allocation[r].allocated \in Nat /\ roomAllocated \in Nat
  BY DEF FenceRecord, AppFits, Sum
<1>2. Sum' = [Sum EXCEPT ![r] = n]
  BY <1>0 DEF Sum, AppFits
<1>3. roomAllocated = Total(Sum)
  BY DEF AppFits, TotalIsSum, Sum
<1>4. Total(Sum') = Total(Sum) - Sum[r] + n /\ Sum[r] <= Total(Sum)
  <2>1. /\ Total([Sum EXCEPT ![r] = n]) = Total(Sum) - Sum[r] + n
        /\ Sum[r] <= Total(Sum)
    BY <1>1, SumUpdate
  <2>2. QED
    BY <1>2, <2>1
<1>5. roomAllocated' = Total(Sum') /\ roomAllocated' \in Nat
  BY <1>0, <1>1, <1>3, <1>4
<1>6. allocation' \in [Room -> FenceRecord]
  BY DEF AppFits
<1>7. QED
  BY <1>5, <1>6 DEF AppFits, TotalIsSum, Sum

\* The total a decision would make is a count of bytes.
LEMMA NextTotalNat ==
  ASSUME AppFits, NEW m \in Message, m.room \in Room
  PROVE  NextTotal(m) \in Nat
<1>1. /\ Sum \in [Room -> Nat] /\ Sum[m.room] = allocation[m.room].allocated
      /\ Sum[m.room] \in Nat /\ m.target \in Nat /\ roomAllocated \in Nat
  BY DEF FenceRecord, AppFits, Sum, Message
<1>2. roomAllocated = Total(Sum)
  BY DEF AppFits, TotalIsSum, Sum
<1>3. m.target + 0 \in Nat /\ Sum[m.room] <= Total(Sum)
  BY <1>1, TotalUpdate, RoomFacts
<1>4. QED
  BY <1>1, <1>2, <1>3 DEF NextTotal

LEMMA DecidedTyped ==
  ASSUME NEW record \in FenceRecord, NEW total, NEW version \in Nat, NEW target \in Nat, NEW cap
  PROVE  /\ Decided(record, total, version, target, cap) \in FenceRecord
         /\ Decided(record, total, version, target, cap).version = version
         /\ Decided(record, total, version, target, cap).target = target
         /\ Decided(record, total, version, target, cap).allocated
              = IF Grants(record, total, target, cap) THEN target ELSE record.allocated
BY DEF Decided, FenceRecord

LEMMA CommitFits ==
  ASSUME AppFits, NEW m \in Message, m.room \in Room, Commit(m)
  PROVE  AppFits'
<1> DEFINE held == allocation[m.room]
           record == Decided(held, roomAllocated, m.version, m.target, m.cap)
<1>1. held \in FenceRecord /\ m.version \in Nat /\ m.target \in Nat
      /\ held.allocated \in Nat /\ roomAllocated \in Nat
  BY DEF AppFits, Message, FenceRecord
<1>2. /\ record \in FenceRecord
      /\ record.allocated = IF Grants(held, roomAllocated, m.target, m.cap)
                            THEN m.target ELSE held.allocated
  BY <1>1, DecidedTyped
<1>3. allocation' = [allocation EXCEPT ![m.room] = record]
  BY DEF Commit
<1>4. roomAllocated' = roomAllocated - held.allocated + record.allocated
  BY <1>1, <1>2 DEF Commit, NextTotal
<1> HIDE DEF record
<1>5. QED
  BY <1>2, <1>3, <1>4, RecordFits

\* An unchanged ledger.
LEMMA AppKept ==
  ASSUME AppFits, UNCHANGED <<allocation, roomAllocated>>
  PROVE  AppFits'
BY DEF AppFits, TotalIsSum

LEMMA RemovedFits ==
  ASSUME AppFits, NEW r \in Room, RoomRemoved(r)
  PROVE  AppFits'
<1>1. CASE UNCHANGED allocation
  BY <1>1, AppKept DEF RoomRemoved
<1>2. CASE allocation' = [allocation EXCEPT ![r] = NoRecord] /\ allocation[r].allocated = 0
  <2>1. NoRecord \in FenceRecord /\ NoRecord.allocated = 0
    BY DEF NoRecord, FenceRecord
  <2>2. roomAllocated' = roomAllocated - allocation[r].allocated + NoRecord.allocated
    BY <1>2, <2>1 DEF RoomRemoved, AppFits
  <2>3. QED
    BY <1>2, <2>1, <2>2, RecordFits
<1>3. QED
  BY <1>1, <1>2 DEF RoomRemoved

LEMMA RefusedFits ==
  ASSUME AppFits, ChargesFit, RefuseGrowth, work.of.room # None
  PROVE  AppFits'
<1> DEFINE r == work.of.room
           versioned == [allocation[r] EXCEPT !.version = work.of.version]
           record == [versioned EXCEPT !.target = work.of.target]
<1>1. r \in Room /\ work.of.version \in Nat /\ work.of.target \in Nat
  BY DEF ChargesFit, Work, Message
<1>2. allocation[r] \in FenceRecord /\ roomAllocated \in Nat
  BY <1>1 DEF AppFits
<1>3. record \in FenceRecord /\ record.allocated = allocation[r].allocated
  BY <1>1, <1>2 DEF FenceRecord
<1>4. allocation' = [allocation EXCEPT ![r] = record]
  <2> DEFINE new == [allocation EXCEPT ![r].version = work.of.version,
                                       ![r].target = work.of.target]
  <2>1. allocation' = new
    BY DEF RefuseGrowth
  <2>2. new = [allocation EXCEPT ![r] = record]
    BY <1>1 DEF AppFits
  <2> HIDE DEF new, record
  <2>3. QED
    BY <2>1, <2>2
<1>5. allocation[r].allocated \in Nat
  BY <1>2 DEF FenceRecord
<1> HIDE DEF record
<1>6. roomAllocated' = roomAllocated - allocation[r].allocated + record.allocated
  BY <1>2, <1>3, <1>5 DEF RefuseGrowth
<1>7. QED
  BY <1>1, <1>3, <1>4, <1>6, RecordFits

-----------------------------------------------------------------------------
(* The decision at work.                                                   *)

LEMMA TellFits ==
  ASSUME RoomsFit, NEW r, NEW waited, NEW answer, UNCHANGED doc, Tell(waited, r, answer),
         waited => r \in Room /\ running[r].at = "call"
  PROVE  RoomsFit'
<1>1. CASE ~waited
  BY <1>1 DEF Tell, RoomsFit
<1>2. CASE waited
  <2>1. r \in Room /\ running[r].at = "call"
    BY <1>2
  <2>2. PICK place \in {"granted", "refused", "unavailable"} :
           running' = [running EXCEPT ![r].at = place]
    BY <1>2 DEF Tell
  <2> DEFINE h == [running[r] EXCEPT !.at = place]
  <2>3. h \in Running /\ h.at = place /\ h.then = running[r].then
    BY <2>1, RoomTyped DEF Running
  <2> HIDE DEF h
  <2>4. HandlerFits(doc[r], h)
    BY <2>1, <2>2, <2>3, RoomTyped DEF HandlerFits
  <2>5. QED
    BY <2>1, <2>2, <2>3, <2>4, PlaceFits DEF h
<1>3. QED
  BY <1>1, <1>2

LEMMA NoWorkTyped == NoWork \in Work /\ NoWork.at = "idle" /\ ~NoWork.waited
BY DEF NoWork, Work, NoMessage, Message, NoReply, Reply

\* A decision ends and its room is told.
LEMMA EndFits ==
  ASSUME RoomsFit, ChargesFit, Waits, NEW answer, End(answer), UNCHANGED doc
  PROVE  RoomsFit' /\ Waits' /\ work' = NoWork
<1>1. work' = NoWork /\ Tell(work.waited, work.of.room, answer)
  BY DEF End
<1>2. RoomsFit'
  BY <1>1, TellFits DEF Waits
<1>3. QED
  BY <1>1, <1>2, NoWorkTyped DEF Waits

\* The owner's charge is rewritten for the owner it names, or the row's.
LEMMA OwnerKept ==
  ASSUME ChargesFit, ChargedOwner # None, UNCHANGED row,
         ownerCharge'.owner \in {ownerCharge.owner, ChargedOwner}
  PROVE  ChargedOwner' # None
BY DEF ChargesFit, ChargedOwner

\* Nothing is at work any more.
LEMMA ChargesEnd ==
  ASSUME ChargesFit, work' = NoWork, UNCHANGED <<row, charge>>,
         ownerCharge' \in OwnerCharge, ownerCharge'.owner = None => ownerCharge' = NoCharge
  PROVE  ChargesFit'
BY NoWorkTyped DEF ChargesFit

\* The work goes on to another step.
LEMMA ChargesStep ==
  ASSUME ChargesFit, work.at # "idle", UNCHANGED <<row, charge>>,
         NEW step \in Calls \union {"settle", "body", "commit", "refuse", "shrunk"},
         ToStep(step),
         ownerCharge' \in OwnerCharge, ownerCharge'.owner = None => ownerCharge' = NoCharge,
         ownerCharge'.owner \in {ownerCharge.owner, ChargedOwner},
         step \in {"move", "replay", "lower", "grow", "shrink"} => ownerCharge'.owner # None,
         step \in {"grow", "commit", "refuse", "shrunk", "shrink"} => work.of.room # None
  PROVE  ChargesFit'
<1>1. work' = [work EXCEPT !.at = step, !.reply = NoReply]
  BY DEF ToStep
<1>2. NoReply \in Reply
  BY DEF NoReply, Reply
<1>3. work' \in Work /\ work'.at = step /\ work'.of = work.of /\ step # "idle"
  BY <1>1, <1>2 DEF ChargesFit, Work, Calls
<1>4. ChargedOwner' # None
  BY OwnerKept DEF ChargesFit
<1>5. QED
  BY <1>3, <1>4 DEF ChargesFit

LEMMA StepWaits ==
  ASSUME Waits, ChargesFit, NEW step, ToStep(step), UNCHANGED running
  PROVE  Waits'
<1>1. work'.waited = work.waited /\ work'.of = work.of
  BY DEF ToStep, ChargesFit, Work
<1>2. QED
  BY <1>1 DEF Waits

\* The next charge of the owner, recorded before the owner's cell is asked.
LEMMA ChargingFits ==
  ASSUME ChargesFit, work.at # "idle", UNCHANGED <<row, charge>>, NEW target, target \in Nat,
         NEW step \in {"lower", "grow", "shrink"}, Charging(target, step),
         step \in {"grow", "shrink"} => work.of.room # None
  PROVE  ChargesFit'
<1>1. ownerCharge' = [owner |-> ChargedOwner, version |-> ownerCharge.version + 1,
                      target |-> target, settled |-> FALSE]
  BY DEF Charging
<1>2. ChargedOwner \in Owner \union {None} /\ ChargedOwner # None
      /\ ownerCharge.version \in Nat
  BY DEF ChargesFit, ChargedOwner, OwnerCharge
<1>3. ownerCharge' \in OwnerCharge /\ ownerCharge'.owner = ChargedOwner
  BY <1>1, <1>2 DEF OwnerCharge
<1>4. step \in Calls /\ ToStep(step)
  BY DEF Calls, Charging
<1>5. QED
  BY <1>2, <1>3, <1>4, ChargesStep

\* A call of roomdecide gets the cell's lock.
LEMMA DecideFits ==
  ASSUME RoomsFit, AppFits, ChargesFit, Waits, NEW m \in Message, m.room \in Room,
         NEW waited \in BOOLEAN, waited => running[m.room].at = "call",
         StartDecide(m, waited)
  PROVE  RoomsFit' /\ AppFits' /\ ChargesFit' /\ Waits'
<1> DEFINE held == allocation[m.room]
           answer == FenceAnswer(held, roomAllocated, m.version, m.target, m.cap)
<1>1. UNCHANGED <<doc, row, charge>> /\ work.at = "idle"
  BY DEF StartDecide, PasteFree
<1>2. work = NoWork
  BY <1>1 DEF ChargesFit
<1>3. CASE UNCHANGED <<ownerCharge, work>> /\ Tell(waited, m.room, answer)
           /\ (UNCHANGED <<allocation, roomAllocated>> \/ Commit(m))
  <2>1. RoomsFit'
    BY <1>1, <1>3, TellFits
  <2>2. AppFits'
    BY <1>3, AppKept, CommitFits
  <2>3. ChargesFit'
    BY <1>1, <1>2, <1>3, ChargesEnd DEF ChargesFit
  <2>4. Waits'
    BY <1>2, <1>3, NoWorkTyped DEF Waits
  <2>5. QED
    BY <2>1, <2>2, <2>3, <2>4
<1>4. CASE /\ ChargedOwner # None /\ UNCHANGED <<running, appVars>>
           /\ work' = [at |-> "settle", of |-> m, waited |-> waited, reply |-> NoReply]
  <2>1. work' \in Work /\ work'.at = "settle" /\ work'.of = m /\ work'.waited = waited
    BY <1>4 DEF Work, NoReply, Reply
  <2>2. RoomsFit' /\ AppFits'
    BY <1>1, <1>4, AppKept DEF RoomsFit, appVars
  <2>3. ChargesFit'
    BY <1>1, <1>4, <2>1 DEF ChargesFit, ChargedOwner, appVars
  <2>4. Waits'
    BY <1>4, <2>1 DEF Waits
  <2>5. QED
    BY <2>2, <2>3, <2>4
<1>5. QED
  BY <1>3, <1>4 DEF StartDecide, appVars

LEMMA ServeFits ==
  ASSUME RoomsFit, AppFits, ChargesFit, Waits, NEW r \in Room, Serve(r)
  PROVE  RoomsFit' /\ AppFits' /\ ChargesFit' /\ Waits'
<1> DEFINE d == doc[r]
           m == Decide(r, d.version, d.pending.target, d.pending.cap)
<1>1. m \in Message /\ m.room = r
  BY RoomTyped DEF Decide, Message, Doc, Operation
<1>2. running[r].at = "call" /\ StartDecide(m, TRUE)
  BY DEF Serve
<1> HIDE DEF m
<1>3. QED
  BY <1>1, <1>2, DecideFits

\* The owner's charge and its record have their shapes.
LEMMA ChargeTyped ==
  ASSUME ChargesFit
  PROVE  /\ ownerCharge \in OwnerCharge /\ ownerCharge.owner \in Owner \union {None}
         /\ ownerCharge.version \in Nat /\ ownerCharge.target \in Nat
         /\ ChargedOwner \in Owner \union {None}
         /\ work.of \in Message /\ work.of.room \in Room \union {None}
         /\ work.of.version \in Nat /\ work.of.target \in Nat /\ work.waited \in BOOLEAN
         /\ work.reply \in Reply /\ work.reply.allocated \in Nat /\ work.reply.version \in Nat
BY DEF ChargesFit, ChargedOwner, OwnerCharge, Work, Message, Reply

LEMMA SettledTyped ==
  ASSUME ChargesFit, NEW allocated \in Nat
  PROVE  /\ SettledCharge(allocated) \in OwnerCharge
         /\ SettledCharge(allocated).owner = ownerCharge.owner
BY DEF ChargesFit, SettledCharge, OwnerCharge

LEMMA SyncFits ==
  ASSUME RoomsFit, AppFits, ChargesFit, Waits, ChargeSync
  PROVE  RoomsFit' /\ AppFits' /\ ChargesFit' /\ Waits'
<1>1. /\ ChargedOwner # None /\ UNCHANGED <<doc, running, appVars, row, charge>>
      /\ work' = [NoWork EXCEPT !.at = "settle"]
  BY DEF ChargeSync, roomVars
<1>2. work' \in Work /\ work'.at = "settle" /\ ~work'.waited
  BY <1>1, NoWorkTyped DEF Work, NoWork
<1>3. ChargesFit' /\ Waits'
  BY <1>1, <1>2 DEF ChargesFit, ChargedOwner, Waits, appVars
<1>4. RoomsFit' /\ AppFits'
  BY <1>1, AppKept DEF RoomsFit, appVars
<1>5. QED
  BY <1>3, <1>4

LEMMA SettleFits ==
  ASSUME RoomsFit, AppFits, ChargesFit, Waits, Settle
  PROVE  RoomsFit' /\ AppFits' /\ ChargesFit' /\ Waits'
<1> SUFFICES ChargesFit' /\ Waits'
  BY AppKept DEF Settle, SettleOwner, Charging, roomVars, appVars, RoomsFit
<1>1. /\ work.at = "settle" /\ work.at # "idle"
      /\ UNCHANGED <<doc, running, row, charge, allocation, roomAllocated>>
  BY DEF Settle, SettleOwner, Charging, roomVars, appVars
<1>2. ChargedOwner # None
  BY <1>1 DEF ChargesFit
<1>3. ASSUME NEW step \in {"move", "replay", "seed", "body"}, ToStep(step),
             UNCHANGED ownerCharge, step \in {"move", "replay"} => ownerCharge.owner # None
      PROVE  ChargesFit' /\ Waits'
  <2>1. step \in Calls \union {"settle", "body", "commit", "refuse", "shrunk"}
    BY DEF Calls
  <2>2. step \notin {"grow", "commit", "refuse", "shrunk", "shrink"}
    OBVIOUS
  <2>3. ChargesFit'
    BY <1>1, <1>3, <2>1, <2>2, ChargesStep, ChargeTyped DEF ChargesFit
  <2>4. QED
    BY <1>1, <1>3, <2>3, StepWaits
<1>4. CASE ownerCharge # NoCharge /\ ToStep("move") /\ UNCHANGED appVars
  BY <1>3, <1>4 DEF ChargesFit, appVars
<1>5. CASE ownerCharge.owner = ChargedOwner /\ ToStep("replay") /\ UNCHANGED appVars
  BY <1>2, <1>3, <1>5 DEF appVars
<1>6. CASE ToStep("seed") /\ UNCHANGED appVars
  BY <1>3, <1>6 DEF appVars
<1>7. CASE Charging(roomAllocated, "lower")
  <2>1. ChargesFit'
    BY <1>1, <1>7, ChargingFits DEF AppFits
  <2>2. QED
    BY <1>1, <1>7, <2>1, StepWaits DEF Charging
<1>8. CASE ToStep("body") /\ UNCHANGED appVars
  BY <1>3, <1>8 DEF appVars
<1>9. QED
  BY <1>4, <1>5, <1>6, <1>7, <1>8 DEF Settle, SettleOwner

LEMMA BodyFits ==
  ASSUME RoomsFit, AppFits, ChargesFit, Waits, Body
  PROVE  RoomsFit' /\ AppFits' /\ ChargesFit' /\ Waits'
<1> DEFINE m == work.of
<1>1. /\ work.at = "body" /\ work.at # "idle"
      /\ UNCHANGED <<doc, running, row, charge>>
  BY DEF Body
<1>2. RoomsFit'
  BY <1>1 DEF RoomsFit
<1>3. CASE work' = NoWork /\ UNCHANGED appVars
  <2>1. AppFits'
    BY <1>3, AppKept DEF appVars
  <2>2. ChargesFit'
    BY <1>1, <1>3, ChargesEnd DEF appVars, ChargesFit
  <2>3. Waits'
    BY <1>3, NoWorkTyped DEF Waits
  <2>4. QED
    BY <1>2, <2>1, <2>2, <2>3
<1>4. CASE m.room # None /\ Charging(NextTotal(m), "grow")
  <2>1. m \in Message /\ m.room \in Room
    BY <1>4, ChargeTyped
  <2>2. NextTotal(m) \in Nat
    BY <2>1, NextTotalNat
  <2>3. ChargesFit'
    BY <1>1, <1>4, <2>2, ChargingFits
  <2>4. QED
    BY <1>1, <1>2, <1>4, <2>3, StepWaits, AppKept DEF Charging
<1>5. CASE m.room # None /\ Commit(m) /\ ToStep("shrunk") /\ UNCHANGED ownerCharge
  <2>1. m \in Message /\ m.room \in Room
    BY <1>5, ChargeTyped
  <2>2. AppFits'
    BY <1>5, <2>1, CommitFits
  <2>3. ChargesFit'
    BY <1>1, <1>5, ChargesStep, ChargeTyped DEF ChargesFit
  <2>4. QED
    BY <1>1, <1>2, <1>5, <2>2, <2>3, StepWaits
<1>6. QED
  BY <1>3, <1>4, <1>5 DEF Body

LEMMA ShrunkFits ==
  ASSUME RoomsFit, AppFits, ChargesFit, Waits, Shrunk
  PROVE  RoomsFit' /\ AppFits' /\ ChargesFit' /\ Waits'
<1>1. /\ work.at = "shrunk" /\ work.at # "idle" /\ work.of.room # None
      /\ UNCHANGED <<doc, running, row, charge>>
      /\ Charging(roomAllocated, "shrink")
  BY DEF Shrunk, ChargesFit, roomVars
<1>2. ChargesFit'
  BY <1>1, ChargingFits DEF AppFits
<1>3. QED
  BY <1>1, <1>2, StepWaits, AppKept DEF Charging, RoomsFit

LEMMA GrowthFits ==
  ASSUME RoomsFit, AppFits, ChargesFit, Waits, CommitGrowth \/ RefuseGrowth
  PROVE  RoomsFit' /\ AppFits' /\ ChargesFit' /\ Waits'
<1>1. /\ work.at \in {"commit", "refuse"} /\ UNCHANGED <<doc, row, charge, ownerCharge>>
      /\ End("granted") \/ End("refused")
  BY DEF CommitGrowth, RefuseGrowth
<1>2. work.of.room # None
  BY <1>1 DEF ChargesFit
<1>3. RoomsFit' /\ Waits' /\ work' = NoWork
  BY <1>1, EndFits
<1>4. ChargesFit'
  BY <1>1, <1>3, ChargesEnd DEF ChargesFit
<1>5. AppFits'
  <2>1. work.of \in Message /\ work.of.room \in Room
    BY <1>2, ChargeTyped
  <2>2. CASE CommitGrowth
    BY <2>1, <2>2, CommitFits DEF CommitGrowth
  <2>3. CASE RefuseGrowth
    BY <1>2, <2>3, RefusedFits
  <2>4. QED
    BY <2>2, <2>3
<1>6. QED
  BY <1>3, <1>4, <1>5

-----------------------------------------------------------------------------
(* The owner's cell, faults and the environment.                           *)

LEMMA AskTyped ==
  ASSUME ChargesFit, AppFits, work.at \in Calls
  PROVE  Ask \in Message /\ Ask.owner \in Owner /\ Ask.type \in {"charge", "seed"}
<1> DEFINE to(type, owner, version, target) ==
             [type |-> type, room |-> None, owner |-> owner, version |-> version,
              target |-> target, cap |-> UserCap]
<1>1. /\ ChargedOwner \in Owner
      /\ work.at = "move" => ownerCharge.owner \in Owner
  BY ChargeTyped DEF ChargesFit, Calls
<1>2. roomAllocated \in Nat /\ ownerCharge.version \in Nat /\ ownerCharge.target \in Nat
  BY ChargeTyped DEF AppFits
<1>3. ASSUME NEW type \in {"charge", "seed"}, NEW owner \in Owner,
             NEW version \in Nat, NEW target \in Nat
      PROVE  /\ to(type, owner, version, target) \in Message
             /\ to(type, owner, version, target).owner \in Owner
             /\ to(type, owner, version, target).type \in {"charge", "seed"}
  BY RoomFacts DEF Message
<1>4. CASE work.at = "move"
  <2>1. Ask = to("seed", ownerCharge.owner, 0, 0)
    BY <1>4 DEF Ask
  <2> HIDE DEF to
  <2>2. QED
    BY <1>1, <1>3, <1>4, <2>1
<1>5. CASE work.at = "seed"
  <2>1. Ask = to("seed", ChargedOwner, 0, roomAllocated)
    BY <1>5 DEF Ask
  <2> HIDE DEF to
  <2>2. QED
    BY <1>1, <1>2, <1>3, <2>1
<1>6. CASE work.at \notin {"move", "seed"}
  <2>1. Ask = to("charge", ChargedOwner, ownerCharge.version, ownerCharge.target)
    BY <1>6 DEF Ask
  <2> HIDE DEF to
  <2>2. QED
    BY <1>1, <1>2, <1>3, <2>1
<1>7. QED
  BY <1>4, <1>5, <1>6

LEMMA ChargedTyped ==
  ASSUME ChargesFit, NEW m \in Message, m.owner \in Owner, RoomCharge(m)
  PROVE  charge' \in [Owner -> FenceRecord]
<1> DEFINE current == charge[m.owner]
           seeded == [version |-> current.version + 1, allocated |-> m.target,
                      target |-> m.target]
           decided == Decided(current, current.allocated, m.version, m.target, m.cap)
<1>1. current \in FenceRecord /\ m.target \in Nat /\ m.version \in Nat
  BY DEF ChargesFit, Message
<1>2. seeded \in FenceRecord
  BY <1>1 DEF FenceRecord
<1>3. decided \in FenceRecord
  BY <1>1, DecidedTyped
<1> HIDE DEF seeded, decided
<1>4. PICK record \in {seeded, decided, current} :
         charge' = [charge EXCEPT ![m.owner] = record]
  BY DEF RoomCharge, seeded, decided
<1>5. record \in FenceRecord
  BY <1>1, <1>2, <1>3
<1>6. QED
  BY <1>4, <1>5 DEF ChargesFit

LEMMA IdentityFits ==
  ASSUME RoomsFit, AppFits, ChargesFit, Waits, IdentityAnswers
  PROVE  RoomsFit' /\ AppFits' /\ ChargesFit' /\ Waits'
<1> DEFINE a == charge'[Ask.owner]
           reply == [kind |-> ChargeAnswer(Ask), version |-> a.version,
                     allocated |-> a.allocated]
<1>1. /\ work.at \in Calls /\ RoomCharge(Ask) /\ work' = [work EXCEPT !.reply = reply]
      /\ UNCHANGED <<doc, running, appVars, row>>
  BY DEF IdentityAnswers, roomVars
<1>2. Ask \in Message /\ Ask.owner \in Owner
  BY <1>1, AskTyped
<1>3. charge' \in [Owner -> FenceRecord]
  BY <1>1, <1>2, ChargedTyped
<1>4. ChargeAnswer(Ask) \in {"granted", "refused", "conflict"}
  BY DEF ChargeAnswer, FenceAnswer
<1>5. reply \in Reply
  <2>1. a \in FenceRecord
    BY <1>2, <1>3
  <2>2. a.version \in Nat /\ a.allocated \in Nat
    BY <2>1 DEF FenceRecord
  <2>3. QED
    BY <1>4, <2>2 DEF Reply
<1> HIDE DEF reply
<1>6. /\ work' \in Work /\ work'.at = work.at /\ work'.of = work.of
      /\ work'.waited = work.waited /\ work.at # "idle"
  BY <1>1, <1>5 DEF ChargesFit, Work, Calls
<1>7. ChargesFit' /\ Waits'
  BY <1>1, <1>3, <1>6 DEF ChargesFit, ChargedOwner, Waits, appVars
<1>8. QED
  BY <1>1, <1>7, AppKept DEF RoomsFit, appVars

LEMMA RepliedFits ==
  ASSUME RoomsFit, AppFits, ChargesFit, Waits, Replied
  PROVE  RoomsFit' /\ AppFits' /\ ChargesFit' /\ Waits'
<1>1. /\ work.at \in Calls /\ work.at # "idle"
      /\ UNCHANGED <<doc, row, charge, allocation, roomAllocated>>
  BY DEF Replied, Calls, SettledCharge, appVars
<1>2. AppFits'
  BY <1>1, AppKept
<1>3. ASSUME NEW step \in {"seed", "body", "settle", "commit", "refuse"}, ToStep(step),
             UNCHANGED running,
             ownerCharge' \in OwnerCharge, ownerCharge'.owner = None => ownerCharge' = NoCharge,
             ownerCharge'.owner \in {ownerCharge.owner, ChargedOwner},
             step \in {"commit", "refuse"} => work.of.room # None
      PROVE  RoomsFit' /\ AppFits' /\ ChargesFit' /\ Waits'
  <2>1. step \in Calls \union {"settle", "body", "commit", "refuse", "shrunk"}
    BY DEF Calls
  <2>2. step \notin {"move", "replay", "lower", "grow", "shrunk", "shrink"}
    OBVIOUS
  <2>3. ChargesFit'
    BY <1>1, <1>3, <2>1, <2>2, ChargesStep
  <2>4. QED
    BY <1>1, <1>2, <1>3, <2>3, StepWaits DEF RoomsFit
<1>4. ASSUME NEW step \in {"seed", "body", "settle", "commit", "refuse"}, ToStep(step),
             UNCHANGED running, ownerCharge' = SettledCharge(work.reply.allocated),
             work.at \in {"lower", "replay", "grow"},
             step \in {"commit", "refuse"} => work.of.room # None
      PROVE  RoomsFit' /\ AppFits' /\ ChargesFit' /\ Waits'
  <2>1. ownerCharge' \in OwnerCharge /\ ownerCharge'.owner = ownerCharge.owner
    BY <1>4, ChargeTyped, SettledTyped
  <2>2. ownerCharge'.owner # None
    BY <1>4, <2>1 DEF ChargesFit
  <2>3. QED
    BY <1>3, <1>4, <2>1, <2>2
<1>5. ASSUME UNCHANGED ownerCharge
      PROVE  /\ ownerCharge' \in OwnerCharge /\ ownerCharge'.owner = ownerCharge.owner
             /\ ownerCharge'.owner = None => ownerCharge' = NoCharge
  BY <1>5 DEF ChargesFit
<1>6. ASSUME NEW answer, End(answer), ownerCharge' \in OwnerCharge,
             ownerCharge'.owner = None => ownerCharge' = NoCharge
      PROVE  RoomsFit' /\ AppFits' /\ ChargesFit' /\ Waits'
  <2>1. RoomsFit' /\ Waits' /\ work' = NoWork
    BY <1>1, <1>6, EndFits
  <2>2. ChargesFit'
    BY <1>1, <1>6, <2>1, ChargesEnd
  <2>3. QED
    BY <1>2, <2>1, <2>2
<1>7. CASE work.at = "move" /\ ToStep("seed") /\ UNCHANGED <<running, appVars>>
  BY <1>3, <1>5, <1>7 DEF appVars
<1>8. CASE /\ work.at = "seed" /\ ToStep("body") /\ UNCHANGED running
           /\ ownerCharge' = [owner |-> ChargedOwner, version |-> work.reply.version,
                              target |-> roomAllocated, settled |-> TRUE]
  <2>1. ChargedOwner # None
    BY <1>1 DEF ChargesFit
  <2>2. ownerCharge' \in OwnerCharge /\ ownerCharge'.owner = ChargedOwner
    BY <1>8, ChargeTyped DEF OwnerCharge, AppFits
  <2>3. QED
    BY <1>3, <1>8, <2>1, <2>2
<1>9. CASE /\ work.at = "replay" /\ ToStep("settle") /\ UNCHANGED running
           /\ ownerCharge' = SettledCharge(work.reply.allocated)
  BY <1>4, <1>9
<1>10. CASE work.at = "replay" /\ ToStep("seed") /\ UNCHANGED <<running, appVars>>
  BY <1>3, <1>5, <1>10 DEF appVars
<1>11. CASE /\ work.at = "lower" /\ ToStep("body") /\ UNCHANGED running
            /\ ownerCharge' = SettledCharge(work.reply.allocated)
  BY <1>4, <1>11
<1>12. CASE /\ work.at = "grow" /\ UNCHANGED running
            /\ ToStep(IF ReplyGranted THEN "commit" ELSE "refuse")
            /\ ownerCharge' = SettledCharge(work.reply.allocated)
  <2>1. work.of.room # None
    BY <1>12 DEF ChargesFit
  <2>2. PICK step \in {"commit", "refuse"} : ToStep(step)
    BY <1>12
  <2>3. QED
    BY <1>4, <1>12, <2>1, <2>2
<1>13. CASE /\ work.at = "shrink" /\ End("granted")
            /\ \/ ownerCharge' = SettledCharge(work.reply.allocated)
               \/ UNCHANGED ownerCharge
  <2>1. CASE ownerCharge' = SettledCharge(work.reply.allocated)
    <3>1. ownerCharge' \in OwnerCharge /\ ownerCharge'.owner = ownerCharge.owner
      BY <2>1, ChargeTyped, SettledTyped
    <3>2. ownerCharge'.owner # None
      BY <1>13, <3>1 DEF ChargesFit
    <3>3. QED
      BY <1>6, <1>13, <3>1, <3>2
  <2>2. CASE UNCHANGED ownerCharge
    BY <1>5, <1>6, <1>13, <2>2
  <2>3. QED
    BY <1>13, <2>1, <2>2
<1>14. CASE End("unavailable") /\ UNCHANGED appVars
  BY <1>5, <1>6, <1>14 DEF appVars
<1>15. QED
  BY <1>7, <1>8, <1>9, <1>10, <1>11, <1>12, <1>13, <1>14 DEF Replied

\* The loss of a charge, and the end of a decision.
LEMMA LossFits ==
  ASSUME RoomsFit, AppFits, ChargesFit, Waits, ChargeLost \/ PasteStops
  PROVE  RoomsFit' /\ AppFits' /\ ChargesFit' /\ Waits'
<1>1. CASE ChargeLost
  <2> DEFINE reply == [NoReply EXCEPT !.kind = "lost"]
  <2>1. /\ work.at \in Calls /\ work' = [work EXCEPT !.reply = reply]
        /\ UNCHANGED <<doc, running, appVars, row, charge>>
    BY <1>1 DEF ChargeLost, roomVars
  <2>2. reply \in Reply
    BY DEF NoReply, Reply
  <2> HIDE DEF reply
  <2>3. /\ work' \in Work /\ work'.at = work.at /\ work'.of = work.of
        /\ work'.waited = work.waited /\ work.at # "idle"
    BY <2>1, <2>2 DEF ChargesFit, Work, Calls
  <2>4. ChargesFit' /\ Waits'
    BY <2>1, <2>3 DEF ChargesFit, ChargedOwner, Waits, appVars
  <2>5. QED
    BY <2>1, <2>4, AppKept DEF RoomsFit, appVars
<1>2. CASE PasteStops
  <2>1. End("unavailable") /\ UNCHANGED <<doc, appVars, row, charge>>
    BY <1>2 DEF PasteStops
  <2>2. RoomsFit' /\ Waits' /\ work' = NoWork
    BY <2>1, EndFits
  <2>3. ChargesFit'
    BY <2>1, <2>2, ChargesEnd DEF ChargesFit, appVars
  <2>4. QED
    BY <2>1, <2>2, <2>3, AppKept DEF appVars
<1>3. QED
  BY <1>1, <1>2

\* A handler is stopped; the app goes on with a call it has begun.
LEMMA EndsFits ==
  ASSUME RoomsFit, AppFits, ChargesFit, Waits, NEW r \in Room, RoomEnds(r)
  PROVE  RoomsFit' /\ AppFits' /\ ChargesFit' /\ Waits'
<1> DEFINE served == work.waited /\ work.of.room = r
           h == At(IF doc[r].live THEN "idle" ELSE "failed")
<1>1. /\ running' = [running EXCEPT ![r] = h] /\ UNCHANGED <<doc, appVars, row, charge>>
      /\ work' = IF served THEN [work EXCEPT !.waited = FALSE] ELSE work
  BY DEF RoomEnds
<1>2. h \in Running /\ HandlerFits(doc[r], h)
  BY NoRequestTyped DEF At, Running, HandlerFits
<1> HIDE DEF h
<1>3. RoomsFit' /\ \A s \in Room \ {r} : running'[s] = running[s]
  BY <1>1, <1>2, HandlerStepFits
<1>4. CASE served
  <2>1. /\ work' \in Work /\ work'.at = work.at /\ work'.of = work.of /\ ~work'.waited
        /\ work.at # "idle"
    BY <1>1, <1>4, NoWorkTyped DEF ChargesFit, Work
  <2>2. QED
    BY <1>1, <1>3, <2>1, AppKept DEF ChargesFit, ChargedOwner, Waits, appVars
<1>5. CASE ~served
  <2>1. work' = work /\ (work.waited => work.of.room # r)
    BY <1>1, <1>5
  <2>2. Waits'
    BY <1>3, <2>1 DEF Waits
  <2>3. QED
    BY <1>1, <1>3, <2>1, <2>2, AppKept DEF ChargesFit, ChargedOwner, appVars
<1>6. QED
  BY <1>4, <1>5

\* A late copy arrives, of a call whose cell NetFits names.
LEMMA LateFits ==
  ASSUME RoomsFit, AppFits, ChargesFit, Waits, NetFits, NEW m \in late, LateArrives(m)
  PROVE  RoomsFit' /\ AppFits' /\ ChargesFit' /\ Waits'
<1>1. /\ m \in Message
      /\ m.type \in {"decide", "record"} => m.room \in Room
      /\ m.type \in {"charge", "seed"} => m.owner \in Owner
  BY DEF NetFits
<1>2. CASE m.type = "decide" /\ StartDecide(m, FALSE)
  BY <1>1, <1>2, DecideFits
<1>3. CASE RecordRoom(m.room) /\ UNCHANGED running
  <2>1. UNCHANGED <<doc, running, appVars, row, work, charge>>
    BY <1>3 DEF RecordRoom
  <2>2. QED
    BY <2>1, AppKept DEF RoomsFit, ChargesFit, ChargedOwner, Waits, appVars
<1>4. CASE /\ m.type \in {"charge", "seed"} /\ RoomCharge(m)
           /\ UNCHANGED <<roomVars, appVars, row, work>>
  <2>1. charge' \in [Owner -> FenceRecord]
    BY <1>1, <1>4, ChargedTyped
  <2>2. QED
    BY <1>4, <2>1, AppKept DEF RoomsFit, ChargesFit, ChargedOwner, Waits, appVars, roomVars
<1>5. QED
  BY <1>2, <1>3, <1>4 DEF LateArrives

LEMMA RowFits ==
  ASSUME RoomsFit, AppFits, ChargesFit, Waits, NEW o \in Owner \union {None}, RowChanges(o)
  PROVE  RoomsFit' /\ AppFits' /\ ChargesFit' /\ Waits'
<1>1. /\ work.at = "idle" /\ row' = o
      /\ UNCHANGED <<doc, running, appVars, work, charge>>
  BY DEF RowChanges, PasteFree, roomVars
<1>2. QED
  BY <1>1, AppKept, NoWorkTyped DEF RoomsFit, ChargesFit, Waits, appVars

-----------------------------------------------------------------------------
(* What is on its way.                                                     *)

LEMMA NetKept ==
  ASSUME NetFits, UNCHANGED <<ledgerVars, asked, moves, netVars>>
  PROVE  NetFits'
BY DEF NetFits, ledgerVars, netVars

LEMMA RecordNet ==
  ASSUME NetFits, NEW r \in Room, RecordRoom(r), late' \subseteq late, UNCHANGED faults
  PROVE  NetFits'
BY DEF NetFits, RecordRoom

\* A fault may leave a copy of one more call on its way.
LEMMA DelayedNet ==
  ASSUME NetFits, Fault, UNCHANGED <<ledgerVars, asked, moves>>,
         \/ UNCHANGED late
         \/ \E m \in Message : /\ late' = late \union {m}
                               /\ m.type \in {"decide", "record"} => m.room \in Room
                               /\ m.type \in {"charge", "seed"} => m.owner \in Owner
  PROVE  NetFits'
<1>1. MaxFaults \in Nat
  BY RoomAssumption
<1>2. faults' \in 0 .. MaxFaults
  BY <1>1 DEF NetFits, Fault
<1>3. QED
  BY <1>2 DEF NetFits, ledgerVars

LEMMA EndsNet ==
  ASSUME RoomsFit, NetFits, NEW r \in Room, RoomEnds(r)
  PROVE  NetFits'
<1> DEFINE d == doc[r]
           decide == Decide(r, d.version, d.pending.target, d.pending.cap)
           record == [NoMessage EXCEPT !.type = "record", !.room = r]
<1>1. decide \in Message /\ decide.type = "decide" /\ decide.room = r
  BY RoomTyped DEF Decide, Message, Doc, Operation
<1>2. record \in Message /\ record.type = "record" /\ record.room = r
  BY DEF NoMessage, Message
<1>3. Fault /\ UNCHANGED <<ledgerVars, asked, moves>>
  BY DEF RoomEnds
<1>4. UNCHANGED late \/ Delayed(decide) \/ Delayed(record)
  BY DEF RoomEnds
<1> HIDE DEF decide, record
<1>5. QED
  BY <1>1, <1>2, <1>3, <1>4, DelayedNet DEF Delayed

LEMMA LostNet ==
  ASSUME ChargesFit, AppFits, NetFits, ChargeLost \/ PasteStops
  PROVE  NetFits'
<1>1. Fault /\ UNCHANGED <<ledgerVars, asked, moves>>
  BY DEF ChargeLost, PasteStops
<1>2. UNCHANGED late \/ (work.at \in Calls /\ Delayed(Ask))
  BY DEF ChargeLost, PasteStops
<1>3. CASE work.at \in Calls /\ Delayed(Ask)
  BY <1>1, <1>3, AskTyped, DelayedNet DEF Delayed
<1>4. QED
  BY <1>1, <1>2, <1>3, DelayedNet

LEMMA RoomNet ==
  ASSUME NetFits, NEW r \in Room, RoomRequest(r) \/ RoomLocal(r) \/ RoomCalls(r) \/ Alarm(r)
  PROVE  NetFits'
<1>1. CASE Remove(r)
  BY <1>1 DEF Remove, Arrive, NetFits, ledgerVars, netVars
<1>2. CASE RoomCreated(r)
  BY <1>2, RecordNet DEF RoomCreated, netVars
<1>3. CASE RoomRemoved(r)
  BY <1>3 DEF RoomRemoved, NetFits, netVars
<1>4. CASE \/ \E cap \in AppCaps : Create(r, cap)
           \/ Put(r) \/ Del(r) \/ Preflight(r) \/ Serve(r) \/ RoomLocal(r) \/ Alarm(r)
  <2>1. UNCHANGED <<ledgerVars, asked, moves, netVars>>
    BY <1>4 DEF Create, Put, Del, Arrive, Preflight, Serve, StartDecide, RoomLocal, SaveRoom,
               GoOn, Granted, Refused, Unavailable, DropRoom, Alarm
  <2>2. QED
    BY <2>1, NetKept
<1>5. QED
  BY <1>1, <1>2, <1>3, <1>4 DEF RoomRequest, RoomCalls

LEMMA AppNet ==
  ASSUME NetFits, PasteStep \/ IdentityAnswers \/ ChargeSync
  PROVE  NetFits'
<1>1. UNCHANGED <<ledgerVars, asked, moves, netVars>>
  BY DEF PasteStep, Settle, Body, Shrunk, CommitGrowth, RefuseGrowth, Replied,
         IdentityAnswers, ChargeSync
<1>2. QED
  BY <1>1, NetKept

LEMMA LateNet ==
  ASSUME NetFits, NEW m \in late, LateArrives(m)
  PROVE  NetFits'
<1>1. late' \subseteq late /\ UNCHANGED faults
  BY DEF LateArrives
<1>2. CASE m.type = "record" /\ RecordRoom(m.room)
  BY <1>1, <1>2, RecordNet DEF NetFits
<1>3. CASE UNCHANGED <<ledgerVars, asked, moves>>
  BY <1>1, <1>3 DEF NetFits, ledgerVars
<1>4. QED
  BY <1>2, <1>3 DEF LateArrives, StartDecide

LEMMA RowNet ==
  ASSUME NetFits, NEW o, RowChanges(o)
  PROVE  NetFits'
<1>1. MaxMoves \in Nat
  BY RoomAssumption
<1>2. QED
  BY <1>1 DEF RowChanges, NetFits, ledgerVars, netVars

-----------------------------------------------------------------------------

LEMMA InitShape == Init => Shape
<1> SUFFICES ASSUME Init PROVE Shape
  OBVIOUS
<1>1. NoRecord \in FenceRecord /\ NoRecord.allocated = 0
  BY DEF NoRecord, FenceRecord
<1>2. RoomsFit
  <2>1. At("new") \in Running /\ HandlerFits(NoDoc, At("new"))
    BY NoRequestTyped DEF At, Running, HandlerFits, NoDoc
  <2>2. QED
    BY <2>1, EmptyDocFits DEF Init, RoomsFit
<1>3. AppFits
  <2>1. [r \in Room |-> allocation[r].allocated] = [r \in Room |-> 0]
    BY <1>1 DEF Init
  <2>2. roomAllocated = Total([r \in Room |-> allocation[r].allocated])
    BY <2>1, TotalZero DEF Init
  <2>3. allocation \in [Room -> FenceRecord] /\ roomAllocated \in Nat
    BY <1>1 DEF Init
  <2>4. QED
    BY <2>2, <2>3 DEF AppFits, TotalIsSum
<1>4. ChargesFit
  <2>1. NoCharge \in OwnerCharge
    BY DEF NoCharge, OwnerCharge
  <2>2. QED
    BY <1>1, <2>1, NoWorkTyped DEF Init, ChargesFit
<1>5. Waits
  BY NoWorkTyped DEF Init, Waits
<1>6. NetFits
  BY RoomAssumption DEF Init, NetFits
<1>7. QED
  BY <1>2, <1>3, <1>4, <1>5, <1>6 DEF Shape

LEMMA NextShape == Shape /\ [Next]_vars => Shape'
<1> SUFFICES ASSUME Shape, [Next]_vars PROVE Shape'
  OBVIOUS
<1> USE DEF Shape
<1>1. ASSUME NEW r \in Room, RoomRequest(r) \/ RoomLocal(r) \/ RoomCalls(r) \/ Alarm(r)
      PROVE  Shape'
  <2>1. NetFits'
    BY <1>1, RoomNet
  <2>2. CASE Serve(r)
    BY <2>1, <2>2, ServeFits
  <2>3. CASE Preflight(r) \/ RoomCreated(r) \/ RoomRemoved(r)
    <3>1. RoomsFit' /\ Waits'
      BY <2>3, CallFits
    <3>2. ChargesFit'
      BY <2>3 DEF Preflight, RoomCreated, RecordRoom, RoomRemoved, ChargesFit, ChargedOwner,
                  appVars
    <3>3. AppFits'
      BY <2>3, RemovedFits, AppKept DEF Preflight, RoomCreated, RecordRoom, appVars
    <3>4. QED
      BY <2>1, <3>1, <3>2, <3>3
  <2>4. CASE RoomRequest(r) \/ RoomLocal(r) \/ Alarm(r)
    <3>1. RoomsFit' /\ Waits'
      BY <2>4, RequestFits, LocalFits
    <3>2. UNCHANGED <<appVars, row, work, charge>>
      BY <2>4 DEF RoomRequest, Create, Put, Del, Remove, Arrive, RoomLocal, SaveRoom, GoOn,
                  Granted, Refused, Unavailable, DropRoom, Alarm
    <3>3. QED
      BY <2>1, <3>1, <3>2, AppKept DEF ChargesFit, ChargedOwner, appVars
  <2>5. QED
    BY <1>1, <2>2, <2>3, <2>4 DEF RoomCalls
<1>2. ASSUME NEW r \in Room, RoomEnds(r) PROVE Shape'
  BY <1>2, EndsFits, EndsNet
<1>3. CASE PasteStep
  BY <1>3, AppNet, SettleFits, BodyFits, ShrunkFits, GrowthFits, RepliedFits DEF PasteStep
<1>4. CASE IdentityAnswers \/ ChargeSync
  BY <1>4, AppNet, IdentityFits, SyncFits
<1>5. CASE ChargeLost \/ PasteStops
  BY <1>5, LossFits, LostNet
<1>6. ASSUME NEW m \in late, LateArrives(m) PROVE Shape'
  BY <1>6, LateFits, LateNet
<1>7. ASSUME NEW o \in Owner \union {None}, RowChanges(o) PROVE Shape'
  BY <1>7, RowFits, RowNet
<1>8. CASE UNCHANGED vars
  BY <1>8, AppKept, NetKept
     DEF vars, RoomsFit, ChargesFit, ChargedOwner, Waits, roomVars, appVars
<1>9. QED
  BY <1>1, <1>2, <1>3, <1>4, <1>5, <1>6, <1>7, <1>8 DEF Next

\* The shape of every record, the byte counts and the totals are kept by every
\* step of the cells, in every interleaving and under every fault.
THEOREM ShapeAlways == Spec => []Shape
<1>1. Init => Shape
  BY InitShape
<1>2. Shape /\ [Next]_vars => Shape'
  BY NextShape
<1>3. QED
  BY <1>1, <1>2, PTL DEF Spec

\* Every record of the room escrow has its type.
THEOREM RoomTypeCorrect == Spec => []TypeOK
<1>1. Shape => TypeOK
  BY DEF Shape, RoomsFit, AppFits, ChargesFit, NetFits, TypeOK
<1>2. QED
  BY <1>1, ShapeAlways, PTL

\* The app's total is always the sum of what its rooms are allocated.
THEOREM AlwaysTotalIsSum == Spec => []TotalIsSum
<1>1. Shape => TotalIsSum
  BY DEF Shape, AppFits
<1>2. QED
  BY <1>1, ShapeAlways, PTL

-----------------------------------------------------------------------------
(* What is escrowed                                                        *)

Creating == {"new", "preflight", "record", "save"}

\* Is m a decision of room r that may still be taken: delayed, or at work?
Underway(m, r) ==
    \/ m \in late /\ m.type = "decide" /\ m.room = r
    \/ work.at # "idle" /\ work.of = m /\ m.room = r

\* Room r asked for m: it is an older operation, or the pending one.
Asked(m, r) ==
    /\ running[r].at \notin Creating
    /\ doc[r].live =>
          /\ m.version <= doc[r].version
          /\ (m.version = doc[r].version /\ doc[r].pending.kind # "none")
                => m.target = doc[r].pending.target

OnlyAsked == \A r \in Room : \A m \in Message : Underway(m, r) => Asked(m, r)

\* The room's record and its document are at most one decision apart.
Matched(r) ==
    LET d == doc[r]
        op == d.pending
        held == allocation[r]
    IN \/ /\ op.kind = "none"
          /\ held.version = d.version /\ held.allocated = d.bytes
       \/ /\ op.kind = "grow"
          /\ \/ held.version = d.version - 1 /\ held.allocated = d.bytes
             \/ /\ held.version = d.version /\ held.target = op.target
                /\ held.allocated \in {d.bytes, op.target}
       \/ /\ op.kind = "release"
          /\ \/ held.version = d.version - 1 /\ held.allocated >= op.target
             \/ held.version = d.version /\ held.allocated = op.target

\* A room the app counts as gone has lost its record, and holds nothing until
\* a growth of it is granted.
Detached(r) == r \in gone /\ doc[r].bytes = 0 /\ doc[r].pending.kind # "release"

Coupled(r) ==
    /\ doc[r].live => /\ allocation[r].version <= doc[r].version
                      /\ Matched(r) \/ Detached(r)
    /\ running[r].at \in Creating => allocation[r] = NoRecord

\* What the room was told is what its record says.
ToldRight(r) ==
    /\ running[r].at = "granted" =>
          /\ allocation[r].version = doc[r].version
          /\ allocation[r].allocated = doc[r].pending.target
    /\ running[r].at = "refused" =>
          /\ allocation[r].version = doc[r].version
          /\ allocation[r].allocated # doc[r].pending.target
          /\ doc[r].pending.kind = "grow"

\* The decision at work is the next one of its room until it is committed, and
\* the room that waits for it still asks for it.
Deciding ==
    /\ (work.at \notin {"idle", "shrunk", "shrink"} /\ work.of.room # None) =>
          /\ Decides(allocation[work.of.room], work.of.version)
          /\ Grants(allocation[work.of.room], roomAllocated, work.of.target, work.of.cap)
    /\ work.at \in {"grow", "commit", "refuse"} =>
          work.of.target > allocation[work.of.room].allocated
    /\ work.at \in {"shrunk", "shrink"} =>
          /\ allocation[work.of.room].version = work.of.version
          /\ allocation[work.of.room].allocated = work.of.target

WaitedFor ==
    work.waited =>
        LET r == work.of.room IN
        /\ work.of.version = doc[r].version
        /\ work.of.target = doc[r].pending.target

Escrow == /\ \A r \in Room : Coupled(r) /\ ToldRight(r)
          /\ OnlyAsked /\ Deciding /\ WaitedFor

-----------------------------------------------------------------------------
(* The Room cells.                                                         *)

\* What the arithmetic below needs of the types.
LEMMA LedgerFacts ==
  ASSUME Shape, NEW r \in Room
  PROVE  /\ doc[r].version \in Nat /\ doc[r].bytes \in Nat /\ doc[r].pending.target \in Nat
         /\ doc[r].pending.kind \in {"none", "grow", "release"}
         /\ allocation[r].version \in Nat /\ allocation[r].allocated \in Nat
         /\ allocation[r].target \in Nat
         /\ DocFits(doc[r]) /\ HandlerFits(doc[r], running[r])
         /\ doc[r].live \in BOOLEAN
BY DEF Shape, RoomsFit, AppFits, Doc, Operation, FenceRecord

LEMMA MessageFacts ==
  ASSUME NEW m \in Message
  PROVE  m.version \in Nat /\ m.target \in Nat /\ m.room \in Room \union {None}
         /\ m.cap \in Nat
BY DEF Message

\* A handler that does not wait for the app takes a step: its document only
\* moves on, and the other rooms stay.
LEMMA RoomEscrowStep ==
  ASSUME Shape, Shape', Escrow, NEW r \in Room, Aside(r),
         UNCHANGED <<allocation, roomAllocated, work, late>>,
         \A s \in Room \ {r} : doc'[s] = doc[s] /\ (s \in gone => s \in gone'),
         running'[r].at \notin {"granted", "refused"},
         running'[r].at \in Creating => running[r].at \in Creating,
         Coupled(r)',
         doc'[r].live => \/ running[r].at \in Creating
                         \/ /\ doc[r].live /\ doc[r].version <= doc'[r].version
                            /\ doc'[r].version = doc[r].version =>
                                  \/ doc'[r].pending.kind = "none"
                                  \/ doc'[r].pending = doc[r].pending
  PROVE  Escrow'
<1>1. ASSUME NEW s \in Room \ {r}
      PROVE  Coupled(s)' /\ ToldRight(s)'
  <2>1. doc'[s] = doc[s] /\ running'[s] = running[s] /\ allocation'[s] = allocation[s]
        /\ (s \in gone => s \in gone')
    BY DEF Aside
  <2>2. Coupled(s) /\ ToldRight(s)
    BY DEF Escrow
  <2>3. QED
    BY <2>1, <2>2 DEF Coupled, ToldRight, Matched, Detached
<1>2. ToldRight(r)'
  BY DEF ToldRight
<1>3. OnlyAsked'
  <2> SUFFICES ASSUME NEW s \in Room, NEW m \in Message, Underway(m, s)'
               PROVE  Asked(m, s)'
    BY DEF OnlyAsked
  <2>1. Underway(m, s) /\ Asked(m, s)
    BY DEF Underway, Escrow, OnlyAsked
  <2>2. CASE s # r
    BY <2>1, <2>2 DEF Asked, Aside
  <2>3. CASE s = r
    <3>1. running[r].at \notin Creating
      BY <2>1, <2>3 DEF Asked
    <3>2. /\ m.version \in Nat /\ doc[r].version \in Nat /\ doc'[r].version \in Nat
      BY LedgerFacts, MessageFacts DEF Shape, RoomsFit, Doc
    <3>3. QED
      BY <2>1, <2>3, <3>1, <3>2 DEF Asked
  <2>4. QED
    BY <2>2, <2>3
<1>4. Deciding'
  BY DEF Escrow, Deciding
<1>5. WaitedFor'
  BY DEF Escrow, WaitedFor, Shape, Waits, Aside
<1>6. QED
  BY <1>1, <1>2, <1>3, <1>4, <1>5 DEF Escrow

LEMMA StepEffect ==
  ASSUME RoomsFit, NEW r \in Room, NEW d, NEW step, NEW then, RoomStep(r, d, step, then)
  PROVE  /\ doc'[r] = d /\ running'[r].at = step
         /\ \A s \in Room \ {r} : doc'[s] = doc[s] /\ running'[s] = running[s]
BY DEF RoomStep, RoomsFit

\* A request's next operation of a room at rest, or its removal.
LEMMA PerformDoes ==
  ASSUME RoomsFit, NEW r \in Room, NEW q \in Request, Perform(r, q), doc[r].live,
         q.kind \in {"put", "del"} => q.key \in Key
  PROVE  /\ \/ running'[r].at = "call" /\ Asks(doc[r], doc'[r])
            \/ running'[r].at = "removing" /\ doc'[r] = doc[r]
         /\ \A s \in Room \ {r} : doc'[s] = doc[s] /\ running'[s] = running[s]
<1>1. doc[r] \in Doc /\ DocFits(doc[r])
  BY RoomTyped
<1>2. CASE q.kind = "put" /\ PutOn(r, q)
  <2>1. Budgeted(doc[r], q) /\ RoomStep(r, PendPut(doc[r], q), "call", NoRequest)
    BY <1>2 DEF PutOn
  <2>2. Asks(doc[r], PendPut(doc[r], q))
    BY <1>1, <1>2, <2>1, PutFits
  <2>3. QED
    BY <2>1, <2>2, StepEffect
<1>3. CASE q.kind = "del" /\ DelOn(r, q)
  <2> DEFINE next == doc[r].bytes - doc[r].kv[q.key]
             e == ApplyPut(Pend(doc[r], "release", next, 0, None, 0), q.key, 0, next)
  <2>1. RoomStep(r, e, "call", NoRequest) /\ doc[r].kv[q.key] > 0
    BY <1>3 DEF DelOn
  <2>2. Asks(doc[r], e)
    BY <1>1, <1>3, <2>1, DelFits
  <2> HIDE DEF e
  <2>3. QED
    BY <2>1, <2>2, StepEffect
<1>4. CASE q.kind = "remove" /\ RemoveOn(r, q)
  <2>1. CASE Empty(doc[r])
    BY <1>4, <2>1, StepEffect DEF RemoveOn
  <2>2. CASE ~Empty(doc[r])
    <3> DEFINE e == [Pend(doc[r], "release", 0, 0, None, 0) EXCEPT
                        !.kv = [k \in Key |-> 0], !.bytes = 0]
    <3>1. RoomStep(r, e, "call", q)
      BY <1>4, <2>2 DEF RemoveOn
    <3>2. Asks(doc[r], e)
      BY <1>1, <2>2, ReleaseAllFits
    <3> HIDE DEF e
    <3>3. QED
      BY <3>1, <3>2, StepEffect
  <2>3. QED
    BY <2>1, <2>2
<1>5. QED
  BY <1>2, <1>3, <1>4 DEF Perform

\* The next operation of a room at rest is one decision ahead of its record.
LEMMA AsksCoupled ==
  ASSUME Shape, Shape', NEW r \in Room, Coupled(r), UNCHANGED <<allocation, gone>>,
         doc[r].live, doc[r].pending.kind = "none", Asks(doc[r], doc'[r]),
         running'[r].at \notin Creating
  PROVE  Coupled(r)'
<1>1. /\ doc[r].version \in Nat /\ doc[r].bytes \in Nat
      /\ allocation[r].version \in Nat /\ allocation[r].allocated \in Nat
  BY LedgerFacts
<1>2. /\ doc'[r].bytes \in Nat /\ doc'[r].pending.target \in Nat
      /\ doc'[r].pending.kind = "release" => doc'[r].pending.target = doc'[r].bytes
  BY DEF Shape, RoomsFit, Doc, Operation, DocFits
<1>3. CASE Matched(r)
  BY <1>1, <1>2, <1>3 DEF Matched, Coupled, Asks
<1>4. CASE Detached(r)
  BY <1>1, <1>2, <1>4 DEF Detached, Coupled, Asks
<1>5. QED
  BY <1>3, <1>4 DEF Coupled

\* A room whose document stays, or is dropped, stays coupled.
LEMMA KeptCoupled ==
  ASSUME NEW r \in Room, Coupled(r), UNCHANGED <<allocation, gone>>,
         \/ doc'[r] = doc[r]
         \/ ~doc'[r].live,
         running'[r].at \in Creating => running[r].at \in Creating
  PROVE  Coupled(r)'
BY DEF Coupled, Matched, Detached

LEMMA RequestEscrow ==
  ASSUME Shape, Shape', Escrow, NEW r \in Room, RoomRequest(r)
  PROVE  Escrow'
<1>1. /\ Coupled(r) /\ UNCHANGED <<allocation, roomAllocated, gone, work, late>>
      /\ doc[r].version \in Nat
  BY LedgerFacts DEF Escrow, RoomRequest, Create, Put, Del, Remove, Arrive, appVars,
                     ledgerVars, netVars
<1>2. ASSUME NEW cap \in AppCaps, Create(r, cap)
      PROVE  Escrow'
  <2>1. /\ running[r].at = "new" /\ running'[r].at \in {"preflight", "record"}
        /\ UNCHANGED doc /\ Aside(r)
    BY <1>2 DEF Create, Aside, Shape, RoomsFit
  <2>2. ~doc[r].live
    BY <2>1, LedgerFacts DEF HandlerFits
  <2>3. Coupled(r)'
    BY <1>1, <2>1, <2>2, KeptCoupled DEF Creating
  <2>4. QED
    BY <1>1, <2>1, <2>2, <2>3, RoomEscrowStep DEF Creating
<1>3. ASSUME NEW q \in Request, Arrive(r, q), q.kind \in {"put", "del"} => q.key \in Key
      PROVE  Escrow'
  <2>1. running[r].at = "idle" /\ doc[r].live
    BY <1>3 DEF Arrive
  <2>2. CASE doc[r].pending.kind # "none" /\ RoomStep(r, doc[r], "call", q)
    <3>1. /\ doc'[r] = doc[r] /\ running'[r].at = "call"
          /\ \A s \in Room \ {r} : doc'[s] = doc[s] /\ running'[s] = running[s]
      BY <2>2, StepEffect DEF Shape
    <3>2. Coupled(r)'
      BY <1>1, <3>1, KeptCoupled DEF Creating
    <3>3. QED
      BY <1>1, <2>1, <3>1, <3>2, RoomEscrowStep DEF Creating, Aside
  <2>3. CASE doc[r].pending.kind = "none" /\ Perform(r, q)
    <3>1. /\ \/ running'[r].at = "call" /\ Asks(doc[r], doc'[r])
             \/ running'[r].at = "removing" /\ doc'[r] = doc[r]
          /\ \A s \in Room \ {r} : doc'[s] = doc[s] /\ running'[s] = running[s]
      BY <1>3, <2>1, <2>3, PerformDoes DEF Shape
    <3>2. Coupled(r)'
      BY <1>1, <2>1, <2>3, <3>1, AsksCoupled, KeptCoupled DEF Creating
    <3>3. QED
      BY <1>1, <2>1, <3>1, <3>2, RoomEscrowStep DEF Creating, Aside, Asks
  <2>4. QED
    BY <1>3, <2>2, <2>3 DEF Arrive
<1>4. ASSUME NEW k \in Key, NEW n \in Sizes, NEW cap \in AppCaps,
             Arrive(r, [kind |-> "put", key |-> k, size |-> n, cap |-> cap])
      PROVE  Escrow'
  <2> DEFINE q == [kind |-> "put", key |-> k, size |-> n, cap |-> cap]
  <2>1. q \in Request /\ q.key \in Key
    BY RoomFacts DEF Request
  <2> HIDE DEF q
  <2>2. QED
    BY <1>3, <1>4, <2>1 DEF q
<1>5. ASSUME NEW k \in Key, Arrive(r, [kind |-> "del", key |-> k, size |-> 0, cap |-> 0])
      PROVE  Escrow'
  <2> DEFINE q == [kind |-> "del", key |-> k, size |-> 0, cap |-> 0]
  <2>1. q \in Request /\ q.key \in Key
    BY DEF Request
  <2> HIDE DEF q
  <2>2. QED
    BY <1>3, <1>5, <2>1 DEF q
<1>6. CASE Remove(r)
  <2> DEFINE q == [NoRequest EXCEPT !.kind = "remove"]
  <2>1. q \in Request /\ q.kind = "remove"
    BY DEF Request, NoRequest
  <2>2. Arrive(r, q)
    BY <1>6 DEF Remove
  <2> HIDE DEF q
  <2>3. QED
    BY <1>3, <2>1, <2>2
<1>7. QED
  BY <1>2, <1>4, <1>5, <1>6 DEF RoomRequest, Put, Del

\* The handler's own steps, and the alarm.
LEMMA LocalEscrow ==
  ASSUME Shape, Shape', Escrow, NEW r \in Room, RoomLocal(r) \/ Alarm(r)
  PROVE  Escrow'
<1>1. /\ Coupled(r) /\ ToldRight(r) /\ doc[r] \in Doc /\ running[r].then \in Request
      /\ DocFits(doc[r]) /\ HandlerFits(doc[r], running[r])
      /\ doc[r].version \in Nat /\ doc[r].bytes \in Nat
      /\ allocation[r].version \in Nat /\ allocation[r].allocated \in Nat
  BY LedgerFacts, RoomTyped DEF Escrow, Shape
<1>2. UNCHANGED <<allocation, roomAllocated, gone, work, late>>
  BY DEF RoomLocal, SaveRoom, GoOn, Granted, Refused, Unavailable, DropRoom, Alarm,
         appVars, ledgerVars, netVars
<1>3. CASE SaveRoom(r)
  <2>1. running[r].at = "save" /\ doc[r] = NoDoc /\ allocation[r] = NoRecord
    BY <1>1, <1>3 DEF SaveRoom, HandlerFits, DocFits, Coupled, Creating
  <2>2. RoomStep(r, [NoDoc EXCEPT !.live = TRUE], "idle", NoRequest)
    BY <1>3, <2>1 DEF SaveRoom, RoomStep, At
  <2>3. /\ doc'[r] = [NoDoc EXCEPT !.live = TRUE] /\ running'[r].at = "idle"
        /\ \A s \in Room \ {r} : doc'[s] = doc[s] /\ running'[s] = running[s]
    BY <2>2, StepEffect DEF Shape
  <2>4. Coupled(r)'
    BY <1>2, <2>1, <2>3 DEF Coupled, Matched, NoDoc, NoOperation, NoRecord, Creating
  <2>5. QED
    BY <1>2, <2>1, <2>3, <2>4, RoomEscrowStep DEF Creating, Aside
<1>4. CASE GoOn(r)
  <2> DEFINE q == running[r].then
  <2>1. /\ running[r].at = "next" /\ doc[r].live /\ doc[r].pending.kind = "none"
        /\ (q.kind \in {"put", "del"} => q.key \in Key)
    BY <1>1, <1>4 DEF GoOn, HandlerFits
  <2>2. CASE Perform(r, q)
    <3>1. /\ \/ running'[r].at = "call" /\ Asks(doc[r], doc'[r])
             \/ running'[r].at = "removing" /\ doc'[r] = doc[r]
          /\ \A s \in Room \ {r} : doc'[s] = doc[s] /\ running'[s] = running[s]
      BY <1>1, <2>1, <2>2, PerformDoes DEF Shape
    <3>2. Coupled(r)'
      BY <1>1, <1>2, <2>1, <3>1, AsksCoupled, KeptCoupled DEF Creating
    <3>3. QED
      BY <1>1, <1>2, <2>1, <3>1, <3>2, RoomEscrowStep DEF Creating, Aside, Asks
  <2>3. CASE RoomStep(r, doc[r], "idle", NoRequest)
    <3>1. /\ doc'[r] = doc[r] /\ running'[r].at = "idle"
          /\ \A s \in Room \ {r} : doc'[s] = doc[s] /\ running'[s] = running[s]
      BY <2>3, StepEffect DEF Shape
    <3>2. Coupled(r)'
      BY <1>1, <1>2, <3>1, KeptCoupled DEF Creating
    <3>3. QED
      BY <1>1, <1>2, <2>1, <3>1, <3>2, RoomEscrowStep DEF Creating, Aside
  <2>4. QED
    BY <1>4, <2>2, <2>3 DEF GoOn
<1>5. CASE Alarm(r) \/ Unavailable(r)
  <2>1. /\ running[r].at \in {"idle", "unavailable"} /\ doc[r].pending.kind # "none"
    BY <1>1, <1>5 DEF Alarm, Unavailable, HandlerFits
  <2>2. PICK step \in {"call", "idle"} : RoomStep(r, doc[r], step, NoRequest)
    BY <1>5 DEF Alarm, Unavailable, RetryLater
  <2>3. /\ doc'[r] = doc[r] /\ running'[r].at = step
        /\ \A s \in Room \ {r} : doc'[s] = doc[s] /\ running'[s] = running[s]
    BY <2>2, StepEffect DEF Shape
  <2>4. doc[r].live
    BY <1>1, <2>1 DEF DocFits, NoDoc, NoOperation
  <2>5. Coupled(r)'
    BY <1>1, <1>2, <2>2, <2>3, KeptCoupled DEF Creating
  <2>6. QED
    BY <1>1, <1>2, <2>1, <2>3, <2>4, <2>5, RoomEscrowStep DEF Creating, Aside
<1>6. ASSUME running[r].at \in {"granted", "refused"}, doc[r].live,
             NEW d, RoomStep(r, d, Settled(r), running[r].then),
             d.pending.kind = "none", d.version = doc[r].version,
             \/ allocation[r].version = d.version /\ allocation[r].allocated = d.bytes
             \/ Detached(r) /\ d.bytes = 0
      PROVE  Escrow'
  <2>1. /\ doc'[r] = d /\ running'[r].at \in {"idle", "next"}
        /\ \A s \in Room \ {r} : doc'[s] = doc[s] /\ running'[s] = running[s]
    BY <1>6, StepEffect DEF Shape, Settled
  <2>2. Coupled(r)'
    BY <1>1, <1>2, <1>6, <2>1 DEF Coupled, Matched, Detached, Creating
  <2>3. QED
    BY <1>1, <1>2, <1>6, <2>1, <2>2, RoomEscrowStep DEF Creating, Aside
<1>7. CASE Granted(r)
  <2> DEFINE op == doc[r].pending
             a == ApplyPut(doc[r], op.key, op.size, op.target)
             d == Cleared(IF op.kind = "grow" THEN a ELSE doc[r])
  <2>1. running[r].at = "granted" /\ RoomStep(r, d, Settled(r), running[r].then)
    BY <1>7 DEF Granted
  <2>2. doc[r].live /\ op.kind \in {"grow", "release"}
    BY <1>1, <2>1, LedgerFacts DEF HandlerFits
  <2>3. allocation[r].version = doc[r].version /\ allocation[r].allocated = op.target
    BY <1>1, <2>1 DEF ToldRight
  <2>4. d.pending.kind = "none" /\ d.version = doc[r].version /\ d.bytes = op.target
    <3>1. CASE op.kind = "grow"
      BY <1>1, <2>2, <3>1, AppliedFits
    <3>2. CASE op.kind = "release"
      BY <1>1, <2>2, <3>2, ClearedFits DEF DocFits
    <3>3. QED
      BY <2>2, <3>1, <3>2
  <2> HIDE DEF d
  <2>5. QED
    BY <1>6, <2>1, <2>2, <2>3, <2>4
<1>8. CASE Refused(r)
  <2> DEFINE d == Cleared(doc[r])
  <2>1. /\ running[r].at = "refused" /\ doc[r].pending.kind = "grow"
        /\ RoomStep(r, d, Settled(r), running[r].then)
    BY <1>8 DEF Refused
  <2>2. doc[r].live
    BY <1>1, <2>1 DEF HandlerFits
  <2>3. d.pending.kind = "none" /\ d.version = doc[r].version /\ d.bytes = doc[r].bytes
    BY <1>1, <2>2, ClearedFits
  <2>4. \/ allocation[r].version = d.version /\ allocation[r].allocated = d.bytes
        \/ Detached(r) /\ d.bytes = 0
    BY <1>1, <2>1, <2>2, <2>3 DEF ToldRight, Coupled, Matched, Detached
  <2> HIDE DEF d
  <2>5. QED
    BY <1>6, <2>1, <2>2, <2>3, <2>4
<1>9. CASE DropRoom(r)
  <2>1. running[r].at = "gone" /\ RoomStep(r, NoDoc, "idle", NoRequest)
    BY <1>9 DEF DropRoom
  <2>2. /\ doc'[r] = NoDoc /\ running'[r].at = "idle"
        /\ \A s \in Room \ {r} : doc'[s] = doc[s] /\ running'[s] = running[s]
    BY <2>1, StepEffect DEF Shape
  <2>3. ~doc'[r].live
    BY <2>2 DEF NoDoc
  <2>4. Coupled(r)'
    BY <1>1, <1>2, <2>2, <2>3, KeptCoupled DEF Creating
  <2>5. QED
    BY <1>1, <1>2, <2>1, <2>2, <2>3, <2>4, RoomEscrowStep DEF Creating, Aside
<1>10. QED
  BY <1>3, <1>4, <1>5, <1>7, <1>8, <1>9 DEF RoomLocal

\* A room that starts, and one that enters the ledger.
LEMMA CreatedEscrow ==
  ASSUME Shape, Shape', Escrow, NEW r \in Room, Preflight(r) \/ RoomCreated(r)
  PROVE  Escrow'
<1>1. /\ UNCHANGED <<doc, allocation, roomAllocated, gone, work, late>>
      /\ running[r].at \in {"preflight", "record"}
      /\ running'[r].at \in {"failed", "record", "save"}
      /\ \A s \in Room \ {r} : running'[s] = running[s]
  BY DEF Preflight, RoomCreated, RecordRoom, Shape, RoomsFit, Running, appVars, ledgerVars,
         netVars
<1>2. Coupled(r)'
  BY <1>1, KeptCoupled DEF Escrow, Creating
<1>3. ~doc'[r].live
  BY <1>1, LedgerFacts DEF HandlerFits
<1>4. QED
  BY <1>1, <1>2, <1>3, RoomEscrowStep DEF Creating, Aside

-----------------------------------------------------------------------------
(* The app's decisions.                                                    *)

LEMMA KeptRoom ==
  ASSUME NEW s \in Room, Coupled(s), ToldRight(s), s \in gone => s \in gone',
         doc'[s] = doc[s], running'[s] = running[s], allocation'[s] = allocation[s]
  PROVE  Coupled(s)' /\ ToldRight(s)'
BY DEF Coupled, ToldRight, Matched, Detached

\* No decision is at work any more.
LEMMA IdleEscrow ==
  ASSUME Shape, Escrow, UNCHANGED doc, work' = NoWork, late' \subseteq late,
         \A s \in Room : running'[s].at \in Creating => running[s].at \in Creating,
         \A s \in Room : Coupled(s)' /\ ToldRight(s)'
  PROVE  Escrow'
<1>1. OnlyAsked'
  <2> SUFFICES ASSUME NEW s \in Room, NEW m \in Message, Underway(m, s)'
               PROVE  Asked(m, s)'
    BY DEF OnlyAsked
  <2>1. Underway(m, s)
    BY NoWorkTyped DEF Underway
  <2>2. QED
    BY <2>1 DEF Escrow, OnlyAsked, Asked
<1>2. Deciding' /\ WaitedFor'
  BY NoWorkTyped DEF Deciding, WaitedFor
<1>3. QED
  BY <1>1, <1>2 DEF Escrow

\* A removal the app has confirmed leaves the room detached.
LEMMA RemovedEscrow ==
  ASSUME Shape, Shape', Escrow, NEW r \in Room, RoomRemoved(r)
  PROVE  Escrow'
<1>1. /\ running[r].at = "removing" /\ UNCHANGED <<doc, work, late>> /\ work = NoWork
      /\ running'[r].at \in {"gone", "idle"}
      /\ \A s \in Room \ {r} : running'[s] = running[s] /\ allocation'[s] = allocation[s]
      /\ \A s \in Room : s \in gone => s \in gone'
  BY DEF RoomRemoved, PasteFree, Shape, RoomsFit, AppFits, ChargesFit, Running, At, netVars
<1>2. doc[r].pending.kind = "none" /\ doc[r].bytes = 0 /\ doc[r].version \in Nat
  BY <1>1, LedgerFacts DEF HandlerFits
<1>3. Coupled(r)'
  <2>1. CASE UNCHANGED allocation
    BY <1>1, <2>1 DEF Escrow, Coupled, Matched, Detached, Creating
  <2>2. CASE allocation' = [allocation EXCEPT ![r] = NoRecord] /\ r \in gone'
    BY <1>1, <1>2, <2>2 DEF Coupled, Detached, NoRecord, Creating, Shape, AppFits
  <2>3. QED
    BY <2>1, <2>2 DEF RoomRemoved
<1>4. ToldRight(r)'
  BY <1>1 DEF ToldRight
<1>5. \A s \in Room \ {r} : Coupled(s)' /\ ToldRight(s)'
  BY <1>1, KeptRoom DEF Escrow
<1>6. QED
  BY <1>1, <1>3, <1>4, <1>5, IdleEscrow DEF Creating

\* What a room is told.
LEMMA TellEffect ==
  ASSUME Shape, NEW r, NEW waited \in BOOLEAN, NEW answer, Tell(waited, r, answer),
         waited => r \in Room
  PROVE  /\ \A s \in Room : ~(waited /\ s = r) => running'[s] = running[s]
         /\ waited =>
               /\ running'[r].at \in {"granted", "refused", "unavailable"}
               /\ running'[r].at = "granted" => answer = "granted"
               /\ running'[r].at = "refused" =>
                     answer = "refused" /\ doc[r].pending.kind = "grow"
<1>1. CASE ~waited
  BY <1>1 DEF Tell
<1>2. CASE waited
  BY <1>2 DEF Tell, Shape, RoomsFit, Running
<1>3. QED
  BY <1>1, <1>2

\* The record of a decision the room asked for stays coupled to its document,
\* and the room has not been told of a later one.
LEMMA DecidedCoupled ==
  ASSUME Shape, Shape', Escrow, NEW m \in Message, NEW r \in Room, m.room = r,
         Asked(m, r), Decides(allocation[r], m.version), UNCHANGED <<doc, gone>>,
         allocation'[r].version = m.version, allocation'[r].target = m.target,
         allocation'[r].allocated \in {m.target, allocation[r].allocated},
         m.target <= allocation[r].allocated => allocation'[r].allocated = m.target,
         running'[r].at \notin Creating
  PROVE  Coupled(r)' /\ running[r].at \notin {"granted", "refused"}
<1>1. /\ m.version \in Nat /\ m.target \in Nat
      /\ doc[r].version \in Nat /\ doc[r].bytes \in Nat /\ doc[r].pending.target \in Nat
      /\ doc[r].pending.kind \in {"none", "grow", "release"}
      /\ allocation[r].version \in Nat /\ allocation[r].allocated \in Nat
      /\ DocFits(doc[r]) /\ HandlerFits(doc[r], running[r])
  BY LedgerFacts, MessageFacts
<1>2. m.version = allocation[r].version + 1
  BY DEF Decides
<1>3. running[r].at \notin {"granted", "refused"}
  BY <1>1, <1>2 DEF Escrow, ToldRight, Asked, HandlerFits
<1> SUFFICES Coupled(r)'
  BY <1>3
<1>4. CASE ~doc[r].live
  BY <1>4 DEF Coupled
<1>5. CASE doc[r].live /\ Detached(r)
  BY <1>1, <1>5 DEF Coupled, Asked, Detached
<1>6. CASE doc[r].live /\ Matched(r)
  <2>1. m.version <= doc[r].version
    BY <1>6 DEF Asked
  <2>2. doc[r].pending.kind # "none" /\ m.version = doc[r].version
    BY <1>1, <1>2, <1>6, <2>1 DEF Matched
  <2>3. m.target = doc[r].pending.target
    BY <1>6, <2>2 DEF Asked
  <2>4. allocation[r].version = doc[r].version - 1
    BY <1>1, <1>2, <2>2
  <2>5. CASE doc[r].pending.kind = "grow"
    <3>1. allocation[r].allocated = doc[r].bytes
      BY <1>1, <1>6, <2>4, <2>5 DEF Matched
    <3>2. Matched(r)'
      BY <1>1, <2>2, <2>3, <2>5, <3>1 DEF Matched
    <3>3. QED
      BY <1>1, <2>2, <3>2 DEF Coupled
  <2>6. CASE doc[r].pending.kind = "release"
    <3>1. allocation[r].allocated >= doc[r].pending.target
      BY <1>1, <1>6, <2>4, <2>6 DEF Matched
    <3>2. Matched(r)'
      BY <1>1, <2>2, <2>3, <2>6, <3>1 DEF Matched
    <3>3. QED
      BY <1>1, <2>2, <3>2 DEF Coupled
  <2>7. QED
    BY <1>1, <2>2, <2>5, <2>6
<1>7. QED
  BY <1>4, <1>5, <1>6 DEF Escrow, Coupled

\* The record a commit writes.
LEMMA CommitRecord ==
  ASSUME Shape, NEW m \in Message, NEW r \in Room, m.room = r, Commit(m)
  PROVE  /\ allocation'[r].version = m.version /\ allocation'[r].target = m.target
         /\ allocation'[r].allocated =
               IF Grants(allocation[r], roomAllocated, m.target, m.cap)
               THEN m.target ELSE allocation[r].allocated
         /\ \A s \in Room \ {r} : allocation'[s] = allocation[s]
<1> DEFINE record == Decided(allocation[r], roomAllocated, m.version, m.target, m.cap)
<1>1. /\ record.version = m.version /\ record.target = m.target
      /\ record.allocated = IF Grants(allocation[r], roomAllocated, m.target, m.cap)
                            THEN m.target ELSE allocation[r].allocated
  BY MessageFacts, DecidedTyped DEF Shape, AppFits
<1>2. allocation' = [allocation EXCEPT ![r] = record]
  BY DEF Commit
<1> HIDE DEF record
<1>3. QED
  BY <1>1, <1>2 DEF Shape, AppFits

\* What the fence answers to a replay, and to the next version.
LEMMA ReplayAnswer ==
  ASSUME NEW current, NEW total, NEW version, NEW target, NEW cap,
         ~Decides(current, version)
  PROVE  LET answer == FenceAnswer(current, total, version, target, cap) IN
         /\ answer = "granted" => version = current.version /\ target = current.allocated
         /\ answer = "refused" => version = current.version /\ target # current.allocated
BY DEF FenceAnswer

LEMMA NextAnswer ==
  ASSUME NEW current \in FenceRecord, NEW total, NEW version, NEW target, NEW cap,
         Decides(current, version)
  PROVE  LET answer == FenceAnswer(current, total, version, target, cap) IN
         /\ answer = "granted" => Grants(current, total, target, cap)
         /\ answer = "refused" => ~Grants(current, total, target, cap)
<1>1. version # current.version
  BY DEF Decides, FenceRecord
<1>2. QED
  BY <1>1 DEF FenceAnswer

\* A call of roomdecide that its room asked for.
LEMMA DecideEscrow ==
  ASSUME Shape, Shape', Escrow, NEW m \in Message, NEW r \in Room, m.room = r,
         NEW waited \in BOOLEAN, StartDecide(m, waited), Asked(m, r), late' \subseteq late,
         waited => /\ m.version = doc[r].version /\ m.target = doc[r].pending.target
                   /\ running[r].at = "call"
  PROVE  Escrow'
<1> DEFINE held == allocation[r]
           answer == FenceAnswer(held, roomAllocated, m.version, m.target, m.cap)
<1>1. UNCHANGED <<doc, gone>> /\ work = NoWork
  BY DEF StartDecide, PasteFree, Shape, ChargesFit, ledgerVars
<1>2. /\ m.version \in Nat /\ m.target \in Nat /\ held.allocated \in Nat
      /\ held.version \in Nat /\ held.target \in Nat /\ running[r].at \notin Creating
  BY LedgerFacts, MessageFacts DEF Asked
<1> HIDE DEF answer
<1>3. ASSUME Tell(waited, r, answer), UNCHANGED work, Coupled(r)',
             \A s \in Room \ {r} : allocation'[s] = allocation[s],
             running[r].at \in {"granted", "refused"} => UNCHANGED allocation,
             waited /\ answer = "granted" => /\ allocation'[r].version = m.version
                                             /\ allocation'[r].allocated = m.target,
             waited /\ answer = "refused" => /\ allocation'[r].version = m.version
                                             /\ allocation'[r].allocated # m.target
      PROVE  Escrow'
  <2>1. /\ \A s \in Room : ~(waited /\ s = r) => running'[s] = running[s]
        /\ waited => /\ running'[r].at \in {"granted", "refused", "unavailable"}
                     /\ running'[r].at = "granted" => answer = "granted"
                     /\ running'[r].at = "refused" =>
                           answer = "refused" /\ doc[r].pending.kind = "grow"
    BY <1>3, TellEffect
  <2>2. ToldRight(r)'
    <3>1. CASE waited
      BY <1>1, <1>3, <2>1, <3>1 DEF ToldRight
    <3>2. CASE ~waited
      BY <1>1, <1>3, <2>1, <3>2 DEF Escrow, ToldRight
    <3>3. QED
      BY <3>1, <3>2
  <2>3. \A s \in Room \ {r} : Coupled(s)' /\ ToldRight(s)'
    BY <1>1, <1>3, <2>1, KeptRoom DEF Escrow
  <2>4. \A s \in Room : running'[s].at \in Creating => running[s].at \in Creating
    BY <2>1 DEF Creating
  <2>5. QED
    BY <1>1, <1>3, <2>2, <2>3, <2>4, IdleEscrow
<1>4. running'[r].at \in Creating => FALSE
  <2>1. CASE Tell(waited, r, answer)
    BY <1>2, <2>1, TellEffect DEF Creating
  <2>2. CASE UNCHANGED running
    BY <1>2, <2>2
  <2>3. QED
    BY <2>1, <2>2 DEF StartDecide, answer
<1>5. CASE ~Decides(held, m.version) /\ Tell(waited, r, answer) /\ UNCHANGED <<appVars, work>>
  <2>1. Coupled(r)'
    BY <1>1, <1>4, <1>5 DEF Escrow, Coupled, Matched, Detached, appVars
  <2>2. /\ answer = "granted" => m.version = held.version /\ m.target = held.allocated
        /\ answer = "refused" => m.version = held.version /\ m.target # held.allocated
    BY <1>5, ReplayAnswer DEF answer
  <2>3. QED
    BY <1>3, <1>5, <2>1, <2>2 DEF appVars
<1>6. CASE /\ Decides(held, m.version) /\ Commit(m)
           /\ Tell(waited, r, answer) /\ UNCHANGED work
  <2>1. /\ allocation'[r].version = m.version /\ allocation'[r].target = m.target
        /\ allocation'[r].allocated = IF Grants(held, roomAllocated, m.target, m.cap)
                                      THEN m.target ELSE held.allocated
        /\ \A s \in Room \ {r} : allocation'[s] = allocation[s]
    BY <1>6, CommitRecord
  <2>2. m.target <= held.allocated => Grants(held, roomAllocated, m.target, m.cap)
    BY DEF Grants
  <2>3. Coupled(r)' /\ running[r].at \notin {"granted", "refused"}
    BY <1>1, <1>4, <1>6, <2>1, <2>2, DecidedCoupled
  <2>4. /\ answer = "granted" => Grants(held, roomAllocated, m.target, m.cap)
        /\ answer = "refused" => ~Grants(held, roomAllocated, m.target, m.cap)
    BY <1>6, NextAnswer DEF answer, Shape, AppFits
  <2>5. answer = "refused" => held.allocated # m.target
    BY <1>2, <2>2, <2>4
  <2>6. QED
    BY <1>3, <1>6, <2>1, <2>3, <2>4, <2>5
<1>7. CASE /\ Decides(held, m.version) /\ MovesCharge(m)
           /\ work' = [at |-> "settle", of |-> m, waited |-> waited, reply |-> NoReply]
           /\ UNCHANGED <<running, appVars>>
  <2>1. \A s \in Room : Coupled(s)' /\ ToldRight(s)'
    BY <1>1, <1>7, KeptRoom DEF Escrow, appVars
  <2>2. work'.at = "settle" /\ work'.of = m /\ work'.waited = waited
    BY <1>7
  <2>3. OnlyAsked'
    <3> SUFFICES ASSUME NEW s \in Room, NEW n \in Message, Underway(n, s)'
                 PROVE  Asked(n, s)'
      BY DEF OnlyAsked
    <3>1. Asked(n, s)
      BY <2>2 DEF Underway, Escrow, OnlyAsked
    <3>2. QED
      BY <1>1, <1>7, <3>1 DEF Asked
  <2>4. Grants(held, roomAllocated, m.target, m.cap)
    BY <1>7 DEF MovesCharge
  <2>5. Deciding'
    BY <1>7, <2>2, <2>4 DEF Deciding, appVars
  <2>6. WaitedFor'
    BY <1>1, <2>2 DEF WaitedFor
  <2>7. QED
    BY <2>1, <2>3, <2>5, <2>6 DEF Escrow
<1>8. QED
  BY <1>5, <1>6, <1>7 DEF StartDecide, answer

LEMMA ServeEscrow ==
  ASSUME Shape, Shape', Escrow, NEW r \in Room, Serve(r)
  PROVE  Escrow'
<1> DEFINE d == doc[r]
           m == Decide(r, d.version, d.pending.target, d.pending.cap)
<1>1. /\ m \in Message /\ m.room = r /\ m.version = d.version /\ m.target = d.pending.target
  BY RoomTyped DEF Decide, Message, Doc, Operation, Shape
<1>2. running[r].at = "call" /\ StartDecide(m, TRUE) /\ late' \subseteq late
  BY DEF Serve, netVars
<1> HIDE DEF m
<1>3. Asked(m, r)
  BY <1>1, <1>2, LedgerFacts DEF Asked, Creating
<1>4. QED
  BY <1>1, <1>2, <1>3, DecideEscrow

\* Neither a room nor its record changes, and no new decision is underway.
LEMMA QuietEscrow ==
  ASSUME Escrow, UNCHANGED <<doc, running, allocation, gone>>,
         \A m \in Message, s \in Room : Underway(m, s)' => Underway(m, s),
         Deciding', WaitedFor'
  PROVE  Escrow'
<1>1. \A s \in Room : Coupled(s)' /\ ToldRight(s)'
  BY KeptRoom DEF Escrow
<1>2. OnlyAsked'
  BY DEF Escrow, OnlyAsked, Asked
<1>3. QED
  BY <1>1, <1>2 DEF Escrow

LEMMA LateEscrow ==
  ASSUME Shape, Shape', Escrow, NEW m \in late, LateArrives(m)
  PROVE  Escrow'
<1>1. late' \subseteq late /\ m \in Message /\ (m.type = "decide" => m.room \in Room)
  BY DEF LateArrives, Shape, NetFits
<1>2. CASE m.type = "decide" /\ StartDecide(m, FALSE)
  <2>1. Asked(m, m.room)
    BY <1>1, <1>2 DEF Escrow, OnlyAsked, Underway
  <2>2. QED
    BY <1>1, <1>2, <2>1, DecideEscrow
<1>3. CASE UNCHANGED <<doc, running, allocation, roomAllocated, gone, work>>
  <2>1. \A n \in Message, s \in Room : Underway(n, s)' => Underway(n, s)
    BY <1>1, <1>3 DEF Underway
  <2>2. Deciding' /\ WaitedFor'
    BY <1>3 DEF Escrow, Deciding, WaitedFor
  <2>3. QED
    BY <1>3, <2>1, <2>2, QuietEscrow
<1>4. QED
  BY <1>2, <1>3 DEF LateArrives, RecordRoom, roomVars, appVars, ledgerVars

\* The work goes on, with its decision still to be taken, or taken.
LEMMA ToStepEscrow ==
  ASSUME Shape, Escrow, UNCHANGED <<doc, running, allocation, roomAllocated, gone, late>>,
         work.at # "idle", NEW step, ToStep(step),
         \/ /\ step \in {"move", "seed", "replay", "lower", "settle", "body"}
            /\ work.at \notin {"shrunk", "shrink"}
         \/ /\ step = "grow" /\ work.at \notin {"shrunk", "shrink"}
            /\ work.of.target > allocation[work.of.room].allocated
         \/ step \in {"commit", "refuse"} /\ work.at = "grow"
         \/ step = "shrink" /\ work.at = "shrunk"
  PROVE  Escrow'
<1>1. work'.at = step /\ work'.of = work.of /\ work'.waited = work.waited
  BY DEF ToStep, Shape, ChargesFit, Work
<1>2. \A m \in Message, s \in Room : Underway(m, s)' => Underway(m, s)
  BY <1>1 DEF Underway
<1>3. Deciding'
  BY <1>1 DEF Escrow, Deciding
<1>4. WaitedFor'
  BY <1>1 DEF Escrow, WaitedFor
<1>5. QED
  BY <1>2, <1>3, <1>4, QuietEscrow

LEMMA SyncEscrow ==
  ASSUME Shape, Escrow, ChargeSync
  PROVE  Escrow'
<1>1. /\ UNCHANGED <<doc, running, allocation, roomAllocated, gone, late>>
      /\ work' = [NoWork EXCEPT !.at = "settle"]
  BY DEF ChargeSync, roomVars, appVars, ledgerVars, netVars
<1>2. work'.at = "settle" /\ work'.of.room = None /\ ~work'.waited
  BY <1>1 DEF NoWork, NoMessage
<1>3. \A m \in Message, s \in Room : Underway(m, s)' => Underway(m, s)
  BY <1>1, <1>2, RoomFacts DEF Underway
<1>4. Deciding' /\ WaitedFor'
  BY <1>2 DEF Deciding, WaitedFor
<1>5. QED
  BY <1>1, <1>3, <1>4, QuietEscrow

LEMMA SettleEscrow ==
  ASSUME Shape, Escrow, Settle \/ Shrunk
  PROVE  Escrow'
<1>1. UNCHANGED <<doc, running, allocation, roomAllocated, gone, late>>
      /\ work.at \in {"settle", "shrunk"}
  BY DEF Settle, SettleOwner, Charging, Shrunk, roomVars, appVars, ledgerVars, netVars
<1>2. PICK step \in {"move", "replay", "seed", "lower", "body", "shrink"} :
         ToStep(step) /\ (step = "shrink" <=> work.at = "shrunk")
  BY DEF Settle, SettleOwner, Charging, Shrunk
<1>3. QED
  BY <1>1, <1>2, ToStepEscrow

\* The identity cell's answer, its loss, and the owner's row are no part of it.
LEMMA OutsideEscrow ==
  ASSUME Shape, Shape', Escrow,
         IdentityAnswers \/ ChargeLost \/ (\E o \in Owner \union {None} : RowChanges(o))
  PROVE  Escrow'
<1>1. UNCHANGED <<doc, running, allocation, roomAllocated, gone>>
  BY DEF IdentityAnswers, ChargeLost, RowChanges, roomVars, appVars, ledgerVars
<1>2. /\ work'.at = work.at /\ work'.of = work.of /\ work'.waited = work.waited
  <2>1. UNCHANGED work \/ \E reply : work' = [work EXCEPT !.reply = reply]
    BY DEF IdentityAnswers, ChargeLost, RowChanges
  <2>2. QED
    BY <2>1 DEF Shape, ChargesFit, Work
<1>3. \A m \in late' : m \in late \/ m.type # "decide"
  <2>1. UNCHANGED late \/ (work.at \in Calls /\ late' = late \union {Ask})
    BY DEF IdentityAnswers, ChargeLost, RowChanges, Delayed, netVars
  <2>2. work.at \in Calls => Ask.type \in {"charge", "seed"}
    BY AskTyped DEF Shape
  <2>3. QED
    BY <2>1, <2>2
<1>4. \A m \in Message, s \in Room : Underway(m, s)' => Underway(m, s)
  BY <1>2, <1>3 DEF Underway
<1>5. Deciding' /\ WaitedFor'
  BY <1>1, <1>2 DEF Escrow, Deciding, WaitedFor
<1>6. QED
  BY <1>1, <1>4, <1>5, QuietEscrow

\* A decision ends, and its room is told what its record says.
LEMMA EndEscrow ==
  ASSUME Shape, Shape', Escrow, NEW answer, End(answer), NEW r, r = work.of.room,
         UNCHANGED <<doc, gone>>, late' \subseteq late,
         \A s \in Room \ {r} : allocation'[s] = allocation[s],
         r \in Room => Coupled(r)',
         r \in Room /\ running[r].at \in {"granted", "refused"} =>
               allocation'[r] = allocation[r],
         answer = "granted" => /\ allocation'[r].version = work.of.version
                               /\ allocation'[r].allocated = work.of.target,
         answer = "refused" => /\ allocation'[r].version = work.of.version
                               /\ allocation'[r].allocated # work.of.target
  PROVE  Escrow'
<1> DEFINE waited == work.waited
<1>1. /\ work' = NoWork /\ Tell(waited, r, answer) /\ waited \in BOOLEAN
      /\ waited => /\ r \in Room /\ running[r].at = "call"
                   /\ work.of.version = doc[r].version
                   /\ work.of.target = doc[r].pending.target
  BY ChargeTyped DEF End, Shape, Waits, Escrow, WaitedFor
<1> HIDE DEF waited
<1>2. /\ \A s \in Room : ~(waited /\ s = r) => running'[s] = running[s]
      /\ waited => /\ running'[r].at \in {"granted", "refused", "unavailable"}
                   /\ running'[r].at = "granted" => answer = "granted"
                   /\ running'[r].at = "refused" =>
                         answer = "refused" /\ doc[r].pending.kind = "grow"
  BY <1>1, TellEffect
<1>3. ASSUME r \in Room PROVE ToldRight(r)'
  <2>1. CASE waited
    BY <1>1, <1>2, <2>1 DEF ToldRight
  <2>2. CASE ~waited
    BY <1>2, <1>3, <2>2 DEF Escrow, ToldRight
  <2>3. QED
    BY <2>1, <2>2
<1>4. \A s \in Room \ {r} : Coupled(s)' /\ ToldRight(s)'
  BY <1>2, KeptRoom DEF Escrow
<1>5. \A s \in Room : running'[s].at \in Creating => running[s].at \in Creating
  BY <1>2 DEF Creating
<1>6. QED
  BY <1>1, <1>3, <1>4, <1>5, IdleEscrow

\* The decision at work is one its room asked for.
LEMMA WorkAsked ==
  ASSUME Shape, Escrow, work.at # "idle", work.of.room # None
  PROVE  work.of \in Message /\ work.of.room \in Room /\ Asked(work.of, work.of.room)
<1>1. work.of \in Message /\ work.of.room \in Room
  BY ChargeTyped DEF Shape
<1>2. Underway(work.of, work.of.room)
  BY DEF Underway
<1>3. QED
  BY <1>1, <1>2 DEF Escrow, OnlyAsked

LEMMA BodyEscrow ==
  ASSUME Shape, Shape', Escrow, Body
  PROVE  Escrow'
<1>0. PICK m, r : m = work.of /\ r = m.room
  OBVIOUS
<1>1. work.at = "body" /\ UNCHANGED <<doc, running, gone, late>>
  BY DEF Body, ledgerVars, netVars
<1>2. CASE work' = NoWork /\ UNCHANGED appVars
  <2>1. \A n \in Message, s \in Room : Underway(n, s)' => Underway(n, s)
    BY <1>1, <1>2, NoWorkTyped DEF Underway
  <2>2. Deciding' /\ WaitedFor'
    BY <1>2, NoWorkTyped DEF Deciding, WaitedFor
  <2>3. QED
    BY <1>1, <1>2, <2>1, <2>2, QuietEscrow DEF appVars
<1>3. CASE r # None /\ NextTotal(m) > roomAllocated /\ Charging(NextTotal(m), "grow")
  <2>1. m \in Message /\ r \in Room
    BY <1>0, <1>1, <1>3, WorkAsked
  <2>2. m.target \in Nat /\ allocation[r].allocated \in Nat /\ roomAllocated \in Nat
    BY <1>0, <2>1, LedgerFacts, MessageFacts DEF Shape, AppFits
  <2>3. m.target > allocation[r].allocated
    BY <1>0, <1>3, <2>2 DEF NextTotal
  <2>4. QED
    BY <1>0, <1>1, <1>3, <2>3, ToStepEscrow DEF Charging
<1>4. CASE r # None /\ Commit(m) /\ ToStep("shrunk")
  <2>1. m \in Message /\ r \in Room /\ Asked(m, r)
    BY <1>0, <1>1, <1>4, WorkAsked
  <2>2. /\ Decides(allocation[r], m.version)
        /\ Grants(allocation[r], roomAllocated, m.target, m.cap)
    BY <1>0, <1>1, <1>4 DEF Escrow, Deciding
  <2>3. /\ allocation'[r].version = m.version /\ allocation'[r].target = m.target
        /\ allocation'[r].allocated = m.target
        /\ \A s \in Room \ {r} : allocation'[s] = allocation[s]
    BY <1>0, <1>4, <2>1, <2>2, CommitRecord
  <2>4. Coupled(r)' /\ running[r].at \notin {"granted", "refused"}
    BY <1>0, <1>1, <2>1, <2>2, <2>3, DecidedCoupled DEF Asked
  <2>5. \A s \in Room : Coupled(s)' /\ ToldRight(s)'
    BY <1>0, <1>1, <2>3, <2>4, KeptRoom DEF Escrow, ToldRight
  <2>6. work'.at = "shrunk" /\ work'.of = m /\ work'.waited = work.waited
    BY <1>0, <1>4 DEF ToStep, Shape, ChargesFit, Work
  <2>7. OnlyAsked'
    <3> SUFFICES ASSUME NEW s \in Room, NEW n \in Message, Underway(n, s)'
                 PROVE  Asked(n, s)'
      BY <1>0 DEF OnlyAsked
    <3>1. Underway(n, s)
      BY <1>0, <1>1, <2>6 DEF Underway
    <3>2. QED
      BY <1>0, <1>1, <3>1 DEF Escrow, OnlyAsked, Asked
  <2>8. Deciding' /\ WaitedFor'
    BY <1>0, <1>1, <2>3, <2>6 DEF Escrow, Deciding, WaitedFor
  <2>9. QED
    BY <1>0, <2>5, <2>7, <2>8 DEF Escrow
<1>5. QED
  BY <1>0, <1>2, <1>3, <1>4 DEF Body

\* The owner's answer to a growth is recorded as the room's.
LEMMA GrowthEscrow ==
  ASSUME Shape, Shape', Escrow, CommitGrowth \/ RefuseGrowth
  PROVE  Escrow'
<1>0. PICK m, r : m = work.of /\ r = m.room
  OBVIOUS
<1>1. /\ work.at \in {"commit", "refuse"} /\ UNCHANGED <<doc, gone>> /\ late' \subseteq late
      /\ End("granted") \/ End("refused")
  BY <1>0 DEF CommitGrowth, RefuseGrowth, ledgerVars, netVars
<1>2. r # None
  BY <1>0, <1>1 DEF Shape, ChargesFit
<1>3. m \in Message /\ r \in Room /\ Asked(m, r)
  BY <1>0, <1>1, <1>2, WorkAsked
<1>4. /\ Decides(allocation[r], m.version) /\ m.target > allocation[r].allocated
      /\ Grants(allocation[r], roomAllocated, m.target, m.cap)
      /\ m.target \in Nat /\ allocation[r].allocated \in Nat
  BY <1>0, <1>1, <1>2, <1>3, LedgerFacts, MessageFacts DEF Escrow, Deciding
<1>5. running'[r].at \notin Creating
  <2>1. PICK answer : Tell(work.waited, r, answer)
    BY <1>0, <1>1 DEF End
  <2>2. work.waited \in BOOLEAN
    BY ChargeTyped DEF Shape
  <2>3. QED
    BY <1>3, <2>1, <2>2, TellEffect DEF Asked, Creating
<1>6. CASE CommitGrowth
  <2>1. /\ allocation'[r].version = m.version /\ allocation'[r].target = m.target
        /\ allocation'[r].allocated = m.target
        /\ \A s \in Room \ {r} : allocation'[s] = allocation[s]
    BY <1>0, <1>3, <1>4, <1>6, CommitRecord DEF CommitGrowth
  <2>2. Coupled(r)' /\ running[r].at \notin {"granted", "refused"}
    BY <1>0, <1>1, <1>3, <1>4, <1>5, <2>1, DecidedCoupled
  <2>3. End("granted")
    BY <1>0, <1>6 DEF CommitGrowth
  <2>4. QED
    BY <1>0, <1>1, <2>1, <2>2, <2>3, EndEscrow
<1>7. CASE RefuseGrowth
  <2>1. /\ allocation'[r].version = m.version /\ allocation'[r].target = m.target
        /\ allocation'[r].allocated = allocation[r].allocated
        /\ \A s \in Room \ {r} : allocation'[s] = allocation[s]
    BY <1>0, <1>3, <1>7 DEF RefuseGrowth, Shape, AppFits, FenceRecord
  <2>2. Coupled(r)' /\ running[r].at \notin {"granted", "refused"}
    BY <1>0, <1>1, <1>3, <1>4, <1>5, <2>1, DecidedCoupled
  <2>3. End("refused") /\ allocation'[r].allocated # m.target
    <3>1. End("refused")
      BY <1>7 DEF RefuseGrowth
    <3>2. QED
      BY <1>4, <2>1, <3>1
  <2>4. QED
    BY <1>0, <1>1, <2>1, <2>2, <2>3, EndEscrow
<1>8. QED
  BY <1>6, <1>7

\* A decision ends without another record.
LEMMA EndKept ==
  ASSUME Shape, Shape', Escrow, NEW answer, End(answer),
         UNCHANGED <<doc, gone, allocation>>, late' \subseteq late,
         \/ answer = "unavailable"
         \/ answer = "granted" /\ work.at = "shrink"
  PROVE  Escrow'
<1>0. PICK r : r = work.of.room
  OBVIOUS
<1>1. r \in Room => Coupled(r)'
  <2> SUFFICES ASSUME r \in Room PROVE Coupled(r)'
    OBVIOUS
  <2>1. Tell(work.waited, r, answer) /\ work.waited \in BOOLEAN
    BY <1>0, ChargeTyped DEF End, Shape
  <2>2. running'[r].at \in Creating => running[r].at \in Creating
    BY <2>1, TellEffect DEF Creating
  <2>3. QED
    BY <2>2, KeptCoupled DEF Escrow
<1>2. answer = "granted" => /\ allocation'[r].version = work.of.version
                            /\ allocation'[r].allocated = work.of.target
  BY <1>0 DEF Escrow, Deciding
<1>3. QED
  BY <1>0, <1>1, <1>2, EndEscrow

LEMMA RepliedEscrow ==
  ASSUME Shape, Shape', Escrow, Replied \/ PasteStops
  PROVE  Escrow'
<1>1. UNCHANGED <<doc, allocation, roomAllocated, gone, late>> /\ work.at # "idle"
  BY DEF Replied, PasteStops, Calls, SettledCharge, appVars, ledgerVars, netVars
<1>2. CASE End("unavailable")
  BY <1>1, <1>2, EndKept
<1>3. CASE work.at = "shrink" /\ End("granted")
  BY <1>1, <1>3, EndKept
<1>4. ASSUME NEW step \in {"seed", "body", "settle", "commit", "refuse"}, ToStep(step),
             UNCHANGED running, work.at \notin {"shrunk", "shrink"},
             step \in {"commit", "refuse"} => work.at = "grow"
      PROVE  Escrow'
  BY <1>1, <1>4, ToStepEscrow
<1>5. CASE /\ UNCHANGED running
           /\ \/ work.at = "move" /\ ToStep("seed")
              \/ work.at = "seed" /\ ToStep("body")
              \/ work.at = "replay" /\ ToStep("settle")
              \/ work.at = "replay" /\ ToStep("seed")
              \/ work.at = "lower" /\ ToStep("body")
  BY <1>4, <1>5
<1>6. CASE work.at = "grow" /\ ToStep(IF ReplyGranted THEN "commit" ELSE "refuse")
           /\ UNCHANGED running
  <2>1. PICK step \in {"commit", "refuse"} : ToStep(step)
    BY <1>6
  <2>2. QED
    BY <1>4, <1>6, <2>1
<1>7. QED
  BY <1>2, <1>3, <1>5, <1>6 DEF Replied, PasteStops

\* A handler is stopped; a copy of its call may be delayed.
LEMMA EndsEscrow ==
  ASSUME Shape, Shape', Escrow, NEW r \in Room, RoomEnds(r)
  PROVE  Escrow'
<1> DEFINE d == doc[r]
           m == Decide(r, d.version, d.pending.target, d.pending.cap)
           served == work.waited /\ work.of.room = r
<1>1. /\ UNCHANGED <<doc, allocation, roomAllocated, gone>>
      /\ running'[r].at \in {"idle", "failed"}
      /\ \A s \in Room \ {r} : running'[s] = running[s]
  BY DEF RoomEnds, At, Shape, RoomsFit, appVars, ledgerVars
<1>2. /\ work'.at = work.at /\ work'.of = work.of
      /\ work'.waited => work.waited /\ work.of.room # r
  <2>1. CASE served
    BY <2>1 DEF RoomEnds, Shape, ChargesFit, Work
  <2>2. CASE ~served
    BY <2>2 DEF RoomEnds
  <2>3. QED
    BY <2>1, <2>2
<1>3. \A s \in Room : Coupled(s)' /\ ToldRight(s)'
  <2>1. Coupled(r)' /\ ToldRight(r)'
    BY <1>1, KeptCoupled DEF Escrow, ToldRight, Creating
  <2>2. \A s \in Room \ {r} : Coupled(s)' /\ ToldRight(s)'
    BY <1>1, KeptRoom DEF Escrow
  <2>3. QED
    BY <2>1, <2>2
<1>4. m.version = d.version /\ m.target = d.pending.target /\ m.room = r
  BY DEF Decide
<1>5. \A n \in late' : n \in late \/ n = m \/ n.type # "decide"
  <2>1. [NoMessage EXCEPT !.type = "record", !.room = r].type = "record"
    BY DEF NoMessage
  <2>2. QED
    BY <2>1 DEF RoomEnds, Delayed
<1> HIDE DEF m
<1>6. OnlyAsked'
  <2> SUFFICES ASSUME NEW s \in Room, NEW n \in Message, Underway(n, s)'
               PROVE  Asked(n, s)'
    BY DEF OnlyAsked
  <2>1. CASE Underway(n, s)
    BY <1>1, <2>1 DEF Escrow, OnlyAsked, Asked, Creating
  <2>2. CASE ~Underway(n, s)
    <3>1. n = m /\ s = r
      BY <1>2, <1>4, <1>5, <2>2 DEF Underway
    <3>2. QED
      BY <1>1, <1>4, <3>1, LedgerFacts DEF Asked, Creating
  <2>3. QED
    BY <2>1, <2>2
<1>7. Deciding' /\ WaitedFor'
  BY <1>1, <1>2 DEF Escrow, Deciding, WaitedFor
<1>8. QED
  BY <1>3, <1>6, <1>7 DEF Escrow

-----------------------------------------------------------------------------

LEMMA InitEscrow == Init => Escrow
<1> SUFFICES ASSUME Init PROVE Escrow
  OBVIOUS
<1>1. \A r \in Room : Coupled(r) /\ ToldRight(r)
  BY DEF Init, Coupled, ToldRight, NoDoc, At
<1>2. OnlyAsked
  BY NoWorkTyped DEF Init, OnlyAsked, Underway
<1>3. Deciding /\ WaitedFor
  BY NoWorkTyped DEF Init, Deciding, WaitedFor
<1>4. QED
  BY <1>1, <1>2, <1>3 DEF Escrow

LEMMA NextEscrow == Shape /\ Shape' /\ Escrow /\ [Next]_vars => Escrow'
<1> SUFFICES ASSUME Shape, Shape', Escrow, [Next]_vars PROVE Escrow'
  OBVIOUS
<1>1. ASSUME NEW r \in Room, RoomRequest(r) \/ RoomLocal(r) \/ Alarm(r) PROVE Escrow'
  BY <1>1, RequestEscrow, LocalEscrow
<1>2. ASSUME NEW r \in Room, RoomCalls(r) PROVE Escrow'
  BY <1>2, CreatedEscrow, ServeEscrow, RemovedEscrow DEF RoomCalls
<1>3. ASSUME NEW r \in Room, RoomEnds(r) PROVE Escrow'
  BY <1>3, EndsEscrow
<1>4. CASE PasteStep
  BY <1>4, SettleEscrow, BodyEscrow, GrowthEscrow, RepliedEscrow DEF PasteStep
<1>5. CASE ChargeSync
  BY <1>5, SyncEscrow
<1>6. CASE IdentityAnswers \/ ChargeLost \/ (\E o \in Owner \union {None} : RowChanges(o))
  BY <1>6, OutsideEscrow
<1>7. CASE PasteStops
  BY <1>7, RepliedEscrow
<1>8. ASSUME NEW m \in late, LateArrives(m) PROVE Escrow'
  BY <1>8, LateEscrow
<1>9. CASE UNCHANGED vars
  <2>1. \A m \in Message, s \in Room : Underway(m, s)' => Underway(m, s)
    BY <1>9 DEF vars, netVars, Underway
  <2>2. Deciding' /\ WaitedFor'
    BY <1>9 DEF vars, roomVars, appVars, Escrow, Deciding, WaitedFor
  <2>3. QED
    BY <1>9, <2>1, <2>2, QuietEscrow DEF vars, roomVars, appVars, ledgerVars
<1>10. QED
  BY <1>1, <1>2, <1>3, <1>4, <1>5, <1>6, <1>7, <1>8, <1>9 DEF Next

\* Documents and records are never more than one decision apart, whatever is
\* delayed, stopped or decided at the same time.
THEOREM EscrowAlways == Spec => [](Shape /\ Escrow)
<1>1. Init => Shape /\ Escrow
  BY InitShape, InitEscrow
<1>2. Shape /\ Escrow /\ [Next]_vars => (Shape /\ Escrow)'
  BY NextShape, NextEscrow
<1>3. QED
  BY <1>1, <1>2, PTL DEF Spec

\* Escrow: the values of a room never exceed what the app has allocated to it.
THEOREM AlwaysStoredEscrowed == Spec => []StoredEscrowed
<1>1. Shape /\ Escrow => StoredEscrowed
  <2> SUFFICES ASSUME Shape, Escrow, NEW r \in Room
               PROVE  Stored(r) <= allocation[r].allocated
    BY DEF StoredEscrowed
  <2>1. /\ Stored(r) = doc[r].bytes /\ doc[r].bytes \in Nat /\ doc[r].pending.target \in Nat
        /\ doc[r].pending.kind \in {"none", "grow", "release"}
        /\ allocation[r].allocated \in Nat /\ DocFits(doc[r]) /\ Coupled(r)
    BY LedgerFacts DEF Stored, DocFits, Escrow
  <2>2. CASE ~doc[r].live
    BY <2>1, <2>2 DEF DocFits, NoDoc
  <2>3. CASE doc[r].live /\ Detached(r)
    BY <2>1, <2>3 DEF Detached
  <2>4. CASE doc[r].live /\ Matched(r)
    BY <2>1, <2>4 DEF Matched, DocFits
  <2>5. QED
    BY <2>1, <2>2, <2>3, <2>4 DEF Coupled
<1>2. QED
  BY <1>1, EscrowAlways, PTL

\* A room without a pending operation, not counted as gone, is allocated
\* exactly what it stores: no allocation leaks.
THEOREM AlwaysStableExact == Spec => []StableExact
<1>1. Shape /\ Escrow => StableExact
  <2> SUFFICES ASSUME Shape, Escrow, NEW r \in Room, doc[r].live,
                      doc[r].pending.kind = "none", r \notin gone
               PROVE  allocation[r].allocated = Stored(r)
    BY DEF StableExact
  <2>1. Stored(r) = doc[r].bytes /\ Matched(r)
    BY LedgerFacts DEF Stored, DocFits, Escrow, Coupled, Detached
  <2>2. QED
    BY <2>1 DEF Matched
<1>2. QED
  BY <1>1, EscrowAlways, PTL

\* The ledger of an app is exact: its rooms store no more than they are
\* allocated, exactly as much in stable state, and the total sums them up.
THEOREM AlwaysEscrowExact == Spec => []EscrowExact
<1>1. StoredEscrowed /\ StableExact /\ TotalIsSum => EscrowExact
  BY DEF EscrowExact
<1>2. QED
  BY <1>1, AlwaysStoredEscrowed, AlwaysStableExact, AlwaysTotalIsSum, PTL

-----------------------------------------------------------------------------
(***************************************************************************)
(* The ceilings of an app.  A removal the app has confirmed deletes the    *)
(* room's record, so a delayed decision of the removed room is taken as    *)
(* the first of a new one, and one that released (it has no ceiling) may   *)
(* raise the app's total above every ceiling.  That bounds no value: the   *)
(* room cannot write before the record has caught up with it, and the last *)
(* decision to catch up with left nothing.  So the inductive invariant     *)
(* counts only the rooms whose record knows of their last operation.       *)
(***************************************************************************)

\* The last operation of room r that is over.
LastVersion(r) == IF doc[r].pending.kind = "none" THEN doc[r].version ELSE doc[r].version - 1

Knows(r) == doc[r].live /\ allocation[r].version >= LastVersion(r)

\* What the app has allocated to values a room may have.
Reserved == [r \in Room |-> IF Knows(r) THEN allocation[r].allocated ELSE 0]

ReservedCapped == \A cap \in AppCaps : (cap > 0 /\ AppCaps = {cap}) => Total(Reserved) <= cap

\* A growth carries the ceiling of its request.
CeilingCarried(r) ==
    /\ doc[r].pending.kind = "grow" => doc[r].pending.cap \in AppCaps
    /\ running[r].then.kind = "put" => running[r].then.cap \in AppCaps

Outcomes(r) == {allocation[r].target, allocation[r].allocated}

\* What a decision underway may be: the pending operation, or an earlier one
\* that agrees with the record, or leaves nothing where the record is behind.
Recalled(m, r) ==
    /\ (m.version = doc[r].version /\ doc[r].pending.kind # "none")
          => m.cap = doc[r].pending.cap
    /\ m.version = LastVersion(r) =>
          /\ allocation[r].version < LastVersion(r) => m.target = 0
          /\ allocation[r].version = LastVersion(r) => m.target \in Outcomes(r)

Remembers(r) == doc[r].live =>
    /\ (doc[r].pending.kind # "none" /\ allocation[r].version = doc[r].version)
          => doc[r].pending.target \in Outcomes(r)
    /\ \A m \in Message : Underway(m, r) => Recalled(m, r)

Holds(r) == CeilingCarried(r) /\ Remembers(r)

RoomsHold == (\A r \in Room : Holds(r)) /\ ReservedCapped

\* A smaller sum.
LEMMA TotalMonotone ==
  ASSUME NEW f \in [Room -> Nat], NEW g \in [Room -> Nat], \A r \in Room : f[r] <= g[r]
  PROVE  Total(f) <= Total(g) /\ Total(f) \in Nat
<1>1. IsFiniteSet(Units(f)) /\ IsFiniteSet(Units(g)) /\ Total(f) \in Nat
  BY TotalNat, RoomFacts
<1>2. Units(f) \subseteq Units(g)
  <2> SUFFICES ASSUME NEW u \in Units(f) PROVE u \in Units(g)
    OBVIOUS
  <2>1. PICK r \in Room : u \in {r} \X (1..f[r])
    BY DEF Units
  <2>2. f[r] \in Nat /\ g[r] \in Nat /\ f[r] <= g[r]
    OBVIOUS
  <2>3. (1..f[r]) \subseteq (1..g[r])
    BY <2>2
  <2>4. u \in {r} \X (1..g[r])
    BY <2>1, <2>3
  <2>5. QED
    BY <2>4 DEF Units
<1>3. QED
  BY <1>1, <1>2, FS_Subset DEF Total

LEMMA ReservedTyped ==
  ASSUME Shape
  PROVE  /\ Reserved \in [Room -> Nat]
         /\ \A r \in Room : Reserved[r] <= allocation[r].allocated
         /\ Total(Reserved) <= roomAllocated
<1>1. ASSUME NEW r \in Room PROVE allocation[r].allocated \in Nat
  BY LedgerFacts
<1>2. Reserved \in [Room -> Nat] /\ \A r \in Room : Reserved[r] <= allocation[r].allocated
  BY <1>1 DEF Reserved
<1>3. Sum \in [Room -> Nat] /\ \A r \in Room : Sum[r] = allocation[r].allocated
  BY <1>1 DEF Sum
<1>4. \A r \in Room : Reserved[r] <= Sum[r]
  BY <1>2, <1>3
<1>5. roomAllocated = Total(Sum)
  BY DEF Shape, AppFits, TotalIsSum, Sum
<1>6. QED
  BY <1>2, <1>3, <1>4, <1>5, TotalMonotone

\* No room reserves more than it did.
LEMMA SmallerReserved ==
  ASSUME Shape, Shape', ReservedCapped, \A r \in Room : Reserved'[r] <= Reserved[r]
  PROVE  ReservedCapped'
<1>1. Reserved \in [Room -> Nat] /\ Reserved' \in [Room -> Nat]
  <2>1. ASSUME NEW r \in Room PROVE allocation'[r].allocated \in Nat
    BY DEF Shape, AppFits, FenceRecord
  <2>2. Reserved' \in [Room -> Nat]
    BY <2>1 DEF Reserved
  <2>3. QED
    BY <2>2, ReservedTyped
<1>2. /\ Total(Reserved') <= Total(Reserved)
      /\ Total(Reserved') \in Nat /\ Total(Reserved) \in Nat
  <2>1. Total(Reserved') <= Total(Reserved) /\ Total(Reserved') \in Nat
    BY <1>1, TotalMonotone
  <2>2. \A r \in Room : Reserved[r] <= Reserved[r]
    BY <1>1
  <2>3. Total(Reserved) \in Nat
    BY <1>1, <2>2, TotalMonotone
  <2>4. QED
    BY <2>1, <2>3
<1>3. \A cap \in AppCaps : cap \in Nat
  BY RoomFacts
<1>4. QED
  BY <1>2, <1>3 DEF ReservedCapped

LEMMA ReservedKept ==
  ASSUME Shape, NEW r \in Room, doc'[r] = doc[r], allocation'[r] = allocation[r]
  PROVE  Reserved'[r] <= Reserved[r]
<1>1. allocation[r].allocated \in Nat
  BY LedgerFacts
<1>2. Reserved'[r] = Reserved[r] /\ Reserved[r] \in Nat
  BY <1>1 DEF Reserved, Knows, LastVersion
<1>3. QED
  BY <1>2

\* A room that stays, or whose handler takes up a request, holds as it did.
LEMMA HoldsKept ==
  ASSUME NEW r \in Room, Holds(r), doc'[r] = doc[r], allocation'[r] = allocation[r],
         running'[r].then.kind = "put" =>
            running'[r].then = running[r].then \/ running'[r].then.cap \in AppCaps,
         doc[r].live => \A m \in Message : Underway(m, r)' => Recalled(m, r)
  PROVE  Holds(r)'
<1>1. CeilingCarried(r)'
  BY DEF Holds, CeilingCarried
<1>2. Remembers(r)'
  BY DEF Holds, Remembers, Recalled, Outcomes, LastVersion
<1>3. QED
  BY <1>1, <1>2 DEF Holds

\* No document and no record changes.
LEMMA QuietHolds ==
  ASSUME Shape, Shape', RoomsHold, UNCHANGED <<doc, allocation>>,
         \A s \in Room : running'[s].then.kind = "put" => running'[s].then = running[s].then,
         \A m \in Message, s \in Room :
            Underway(m, s)' => Underway(m, s) \/ (doc[s].live => Recalled(m, s))
  PROVE  RoomsHold'
<1>1. ASSUME NEW s \in Room PROVE Holds(s)' /\ Reserved'[s] <= Reserved[s]
  <2>1. Holds(s)
    BY DEF RoomsHold
  <2>2. doc[s].live => \A m \in Message : Underway(m, s)' => Recalled(m, s)
    BY <2>1 DEF Holds, Remembers
  <2>3. QED
    BY <2>1, <2>2, HoldsKept, ReservedKept
<1>2. QED
  BY <1>1, SmallerReserved DEF RoomsHold

\* One room's handler takes a step; records and decisions underway stay.
LEMMA AsideHolds ==
  ASSUME Shape, Shape', RoomsHold, NEW r \in Room, Aside(r),
         UNCHANGED <<allocation, work, late>>,
         \A s \in Room \ {r} : doc'[s] = doc[s],
         Holds(r)', Reserved'[r] <= Reserved[r]
  PROVE  RoomsHold'
<1>1. ASSUME NEW s \in Room \ {r} PROVE Holds(s)' /\ Reserved'[s] <= Reserved[s]
  <2>1. Holds(s) /\ running'[s] = running[s] /\ allocation'[s] = allocation[s]
    BY DEF RoomsHold, Aside
  <2>2. doc[s].live => \A m \in Message : Underway(m, s)' => Recalled(m, s)
    BY <2>1 DEF Holds, Remembers, Underway
  <2>3. QED
    BY <2>1, <2>2, HoldsKept, ReservedKept
<1>2. QED
  BY <1>1, SmallerReserved DEF RoomsHold

LEMMA StepThen ==
  ASSUME RoomsFit, NEW r \in Room, NEW d, NEW step, NEW then, RoomStep(r, d, step, then)
  PROVE  doc'[r] = d /\ running'[r].then = then
BY DEF RoomStep, RoomsFit

\* A request's growth takes the request's ceiling along.
LEMMA PerformCarries ==
  ASSUME RoomsFit, NEW r \in Room, NEW q \in Request, Perform(r, q), CeilingCarried(r),
         q.kind = "put" => q.cap \in AppCaps
  PROVE  CeilingCarried(r)'
<1> DEFINE d == doc[r]
<1>1. d \in Doc /\ NoRequest.kind = "none"
  BY RoomTyped, NoRequestTyped
<1>2. CASE q.kind = "put" /\ PutOn(r, q)
  <2>1. doc'[r] = PendPut(d, q) /\ running'[r].then = NoRequest
    BY <1>2, StepThen DEF PutOn
  <2>2. PendPut(d, q).pending.kind = "grow" => PendPut(d, q).pending.cap = q.cap
    BY <1>1 DEF PendPut, Pend, ApplyPut, Doc
  <2>3. QED
    BY <1>1, <1>2, <2>1, <2>2 DEF CeilingCarried
<1>3. CASE q.kind = "del" /\ DelOn(r, q)
  <2> DEFINE next == d.bytes - d.kv[q.key]
             e == ApplyPut(Pend(d, "release", next, 0, None, 0), q.key, 0, next)
  <2>1. doc'[r] = e /\ running'[r].then = NoRequest
    BY <1>3, StepThen DEF DelOn
  <2>2. e.pending.kind = "release"
    BY <1>1 DEF Pend, ApplyPut, Doc
  <2> HIDE DEF e
  <2>3. QED
    BY <1>1, <2>1, <2>2 DEF CeilingCarried
<1>4. CASE q.kind = "remove" /\ RemoveOn(r, q)
  <2> DEFINE e == [Pend(d, "release", 0, 0, None, 0) EXCEPT
                      !.kv = [k \in Key |-> 0], !.bytes = 0]
  <2>1. doc'[r] \in {d, e} /\ running'[r].then = q
    BY <1>4, StepThen DEF RemoveOn
  <2>2. e.pending.kind = "release"
    BY <1>1 DEF Pend, Doc
  <2> HIDE DEF e
  <2>3. QED
    BY <1>4, <2>1, <2>2 DEF CeilingCarried
<1>5. QED
  BY <1>2, <1>3, <1>4 DEF Perform

\* A room at rest asks for its next operation: no older decision is of it.
LEMMA AsksHolds ==
  ASSUME Shape, Shape', Escrow, NEW r \in Room, Holds(r), CeilingCarried(r)',
         UNCHANGED <<allocation, work, late>>,
         doc[r].live, doc[r].pending.kind = "none", Asks(doc[r], doc'[r])
  PROVE  Holds(r)' /\ Reserved'[r] <= Reserved[r]
<1>1. /\ doc[r].version \in Nat /\ doc'[r].version = doc[r].version + 1 /\ doc'[r].live
      /\ doc'[r].pending.kind # "none"
      /\ allocation[r].version \in Nat /\ allocation[r].allocated \in Nat
      /\ allocation[r].version <= doc[r].version
  BY LedgerFacts DEF Asks, Escrow, Coupled
<1>2. LastVersion(r)' = LastVersion(r) /\ LastVersion(r) = doc[r].version
  BY <1>1 DEF LastVersion
<1>3. ASSUME NEW m \in Message, Underway(m, r)' PROVE Recalled(m, r)'
  <2>1. Underway(m, r)
    BY <1>3 DEF Underway
  <2>2. m.version <= doc[r].version /\ m.version \in Nat
    BY <2>1, MessageFacts DEF Escrow, OnlyAsked, Asked
  <2>3. Recalled(m, r)
    BY <2>1 DEF Holds, Remembers
  <2>4. QED
    BY <1>1, <1>2, <2>2, <2>3 DEF Recalled, Outcomes
<1>4. Remembers(r)'
  BY <1>1, <1>3 DEF Remembers
<1>5. Reserved'[r] <= Reserved[r]
  BY <1>1, <1>2 DEF Reserved, Knows
<1>6. QED
  BY <1>4, <1>5 DEF Holds

\* The pending operation is over: what is still underway of it had its target.
LEMMA ClearedHolds ==
  ASSUME Shape, Shape', Escrow, NEW r \in Room, Holds(r), CeilingCarried(r)',
         UNCHANGED <<allocation, work, late>>,
         doc[r].live, doc[r].pending.kind # "none", allocation[r].version = doc[r].version,
         doc'[r].pending.kind = "none", doc'[r].version = doc[r].version
  PROVE  Holds(r)' /\ Reserved'[r] <= Reserved[r]
<1>1. /\ doc[r].version \in Nat
      /\ allocation[r].version \in Nat /\ allocation[r].allocated \in Nat
  BY LedgerFacts
<1>2. LastVersion(r)' = doc[r].version /\ LastVersion(r) = doc[r].version - 1
  BY DEF LastVersion
<1>3. ASSUME NEW m \in Message, Underway(m, r)' PROVE Recalled(m, r)'
  <2>1. Underway(m, r)
    BY <1>3 DEF Underway
  <2>2. m.version = doc[r].version => m.target = doc[r].pending.target
    BY <2>1 DEF Escrow, OnlyAsked, Asked
  <2>3. doc[r].pending.target \in Outcomes(r)
    BY DEF Holds, Remembers
  <2>4. QED
    BY <1>1, <1>2, <2>2, <2>3 DEF Recalled, Outcomes
<1>4. Remembers(r)'
  BY <1>3 DEF Remembers
<1>5. Reserved'[r] <= Reserved[r]
  BY <1>1, <1>2 DEF Reserved, Knows
<1>6. QED
  BY <1>4, <1>5 DEF Holds

\* A room that is created has no record and no decision underway; one that is
\* dropped is no concern any more.
LEMMA FreshHolds ==
  ASSUME Shape, Shape', Escrow, NEW r \in Room, CeilingCarried(r)',
         UNCHANGED <<allocation, work, late>>,
         \/ ~doc'[r].live
         \/ running[r].at \in Creating /\ doc'[r].pending.kind = "none"
  PROVE  Holds(r)' /\ Reserved'[r] <= Reserved[r]
<1>1. Reserved[r] \in Nat
  BY ReservedTyped
<1>2. CASE ~doc'[r].live
  BY <1>1, <1>2 DEF Holds, Remembers, Reserved, Knows
<1>3. CASE running[r].at \in Creating /\ doc'[r].pending.kind = "none"
  <2>1. allocation[r] = NoRecord /\ allocation[r].allocated = 0
    BY <1>3 DEF Escrow, Coupled, NoRecord
  <2>2. \A m \in Message : ~Underway(m, r)'
    <3>1. \A m \in Message : ~Underway(m, r)
      BY <1>3 DEF Escrow, OnlyAsked, Asked
    <3>2. QED
      BY <3>1 DEF Underway
  <2>3. Reserved'[r] = 0
    BY <2>1 DEF Reserved
  <2>4. QED
    BY <1>1, <1>3, <2>2, <2>3 DEF Holds, Remembers
<1>4. QED
  BY <1>2, <1>3

LEMMA PerformHolds ==
  ASSUME Shape, Shape', Escrow, RoomsHold, NEW r \in Room, NEW q \in Request, Perform(r, q),
         Aside(r), UNCHANGED <<allocation, work, late>>,
         doc[r].live, doc[r].pending.kind = "none",
         q.kind \in {"put", "del"} => q.key \in Key, q.kind = "put" => q.cap \in AppCaps
  PROVE  RoomsHold'
<1>1. /\ \/ running'[r].at = "call" /\ Asks(doc[r], doc'[r])
         \/ running'[r].at = "removing" /\ doc'[r] = doc[r]
      /\ \A s \in Room \ {r} : doc'[s] = doc[s] /\ running'[s] = running[s]
  BY PerformDoes DEF Shape
<1>2. Holds(r) /\ CeilingCarried(r)'
  BY PerformCarries DEF RoomsHold, Holds, Shape
<1>3. CASE Asks(doc[r], doc'[r])
  BY <1>1, <1>2, <1>3, AsksHolds, AsideHolds
<1>4. CASE doc'[r] = doc[r]
  <2>1. running'[r].then.kind = "put" => running'[r].then.cap \in AppCaps
    BY <1>2 DEF CeilingCarried
  <2>2. doc[r].live => \A m \in Message : Underway(m, r)' => Recalled(m, r)
    BY <1>2 DEF Holds, Remembers, Underway
  <2>3. Holds(r)' /\ Reserved'[r] <= Reserved[r]
    BY <1>2, <1>4, <2>1, <2>2, HoldsKept, ReservedKept
  <2>4. QED
    BY <1>1, <2>3, AsideHolds
<1>5. QED
  BY <1>1, <1>3, <1>4

LEMMA RequestHolds ==
  ASSUME Shape, Shape', Escrow, RoomsHold, NEW r \in Room, RoomRequest(r)
  PROVE  RoomsHold'
<1>1. UNCHANGED <<allocation, work, late>> /\ Holds(r)
  BY DEF RoomsHold, RoomRequest, Create, Put, Del, Remove, Arrive, appVars, netVars
<1>2. ASSUME NEW cap \in AppCaps, Create(r, cap)
      PROVE  RoomsHold'
  <2> DEFINE q == [NoRequest EXCEPT !.kind = "create", !.cap = cap]
  <2>1. q.kind = "create"
    BY DEF NoRequest
  <2>2. UNCHANGED doc /\ \A s \in Room : running'[s] = running[s] \/ running'[s].then = q
    BY <1>2 DEF Create, Shape, RoomsFit
  <2> HIDE DEF q
  <2>3. \A m \in Message, s \in Room : Underway(m, s)' => Underway(m, s)
    BY <1>1 DEF Underway
  <2>4. QED
    BY <1>1, <2>1, <2>2, <2>3, QuietHolds
<1>3. ASSUME NEW q \in Request, Arrive(r, q), q.kind \in {"put", "del"} => q.key \in Key,
             q.kind = "put" => q.cap \in AppCaps
      PROVE  RoomsHold'
  <2>1. running[r].at = "idle" /\ doc[r].live
    BY <1>3 DEF Arrive
  <2>2. CASE doc[r].pending.kind # "none" /\ RoomStep(r, doc[r], "call", q)
    <3>1. /\ doc'[r] = doc[r] /\ running'[r].then = q
          /\ \A s \in Room \ {r} : doc'[s] = doc[s] /\ running'[s] = running[s]
      BY <2>2, StepEffect, StepThen DEF Shape
    <3>2. doc[r].live => \A m \in Message : Underway(m, r)' => Recalled(m, r)
      BY <1>1 DEF Holds, Remembers, Underway
    <3>3. Holds(r)' /\ Reserved'[r] <= Reserved[r]
      BY <1>1, <1>3, <3>1, <3>2, HoldsKept, ReservedKept
    <3>4. QED
      BY <1>1, <2>1, <3>1, <3>3, AsideHolds DEF Aside
  <2>3. CASE doc[r].pending.kind = "none" /\ Perform(r, q)
    <3>1. Aside(r)
      BY <1>3, <2>1, <2>3, PerformDoes DEF Aside, Shape
    <3>2. QED
      BY <1>1, <1>3, <2>1, <2>3, <3>1, PerformHolds
  <2>4. QED
    BY <1>3, <2>2, <2>3 DEF Arrive
<1>4. ASSUME NEW k \in Key, NEW n \in Sizes, NEW cap \in AppCaps,
             Arrive(r, [kind |-> "put", key |-> k, size |-> n, cap |-> cap])
      PROVE  RoomsHold'
  <2> DEFINE q == [kind |-> "put", key |-> k, size |-> n, cap |-> cap]
  <2>1. q \in Request /\ q.key \in Key /\ q.cap \in AppCaps
    BY RoomFacts DEF Request
  <2> HIDE DEF q
  <2>2. QED
    BY <1>3, <1>4, <2>1 DEF q
<1>5. ASSUME NEW k \in Key, Arrive(r, [kind |-> "del", key |-> k, size |-> 0, cap |-> 0])
      PROVE  RoomsHold'
  <2> DEFINE q == [kind |-> "del", key |-> k, size |-> 0, cap |-> 0]
  <2>1. q \in Request /\ q.key \in Key /\ q.kind = "del"
    BY DEF Request
  <2> HIDE DEF q
  <2>2. QED
    BY <1>3, <1>5, <2>1 DEF q
<1>6. CASE Remove(r)
  <2> DEFINE q == [NoRequest EXCEPT !.kind = "remove"]
  <2>1. q \in Request /\ q.kind = "remove"
    BY DEF Request, NoRequest
  <2>2. Arrive(r, q)
    BY <1>6 DEF Remove
  <2> HIDE DEF q
  <2>3. QED
    BY <1>3, <2>1, <2>2
<1>7. QED
  BY <1>2, <1>4, <1>5, <1>6 DEF RoomRequest, Put, Del

LEMMA LocalHolds ==
  ASSUME Shape, Shape', Escrow, RoomsHold, NEW r \in Room, RoomLocal(r) \/ Alarm(r)
  PROVE  RoomsHold'
<1>1. /\ Holds(r) /\ Coupled(r) /\ ToldRight(r) /\ doc[r] \in Doc
      /\ running[r].then \in Request
      /\ DocFits(doc[r]) /\ HandlerFits(doc[r], running[r])
      /\ NoRequest.kind = "none"
  BY LedgerFacts, RoomTyped, NoRequestTyped DEF RoomsHold, Escrow, Shape
<1>2. UNCHANGED <<allocation, work, late>>
  BY DEF RoomLocal, SaveRoom, GoOn, Granted, Refused, Unavailable, DropRoom, Alarm,
         appVars, netVars
<1>3. CASE SaveRoom(r)
  <2>1. running[r].at = "save" /\ doc[r] = NoDoc
    BY <1>1, <1>3 DEF SaveRoom, HandlerFits, DocFits
  <2>2. RoomStep(r, [NoDoc EXCEPT !.live = TRUE], "idle", NoRequest)
    BY <1>3, <2>1 DEF SaveRoom, RoomStep, At
  <2>3. /\ doc'[r].pending.kind = "none" /\ running'[r].then = NoRequest
        /\ \A s \in Room \ {r} : doc'[s] = doc[s] /\ running'[s] = running[s]
    BY <2>2, StepEffect, StepThen DEF Shape, NoDoc, NoOperation
  <2>4. CeilingCarried(r)'
    BY <1>1, <2>3 DEF CeilingCarried
  <2>5. QED
    BY <1>2, <2>1, <2>3, <2>4, FreshHolds, AsideHolds DEF Creating, Aside
<1>4. ASSUME running[r].at # "call", NEW step, RoomStep(r, doc[r], step, NoRequest)
      PROVE  RoomsHold'
  <2>1. /\ doc'[r] = doc[r] /\ running'[r].then = NoRequest
        /\ \A s \in Room \ {r} : doc'[s] = doc[s] /\ running'[s] = running[s]
    BY <1>4, StepEffect, StepThen DEF Shape
  <2>2. doc[r].live => \A m \in Message : Underway(m, r)' => Recalled(m, r)
    BY <1>1, <1>2 DEF Holds, Remembers, Underway
  <2>3. Holds(r)' /\ Reserved'[r] <= Reserved[r]
    BY <1>1, <1>2, <2>1, <2>2, HoldsKept, ReservedKept
  <2>4. QED
    BY <1>2, <1>4, <2>1, <2>3, AsideHolds DEF Aside
<1>5. CASE GoOn(r)
  <2> DEFINE q == running[r].then
  <2>1. /\ running[r].at = "next" /\ doc[r].live /\ doc[r].pending.kind = "none"
        /\ (q.kind \in {"put", "del"} => q.key \in Key)
        /\ (q.kind = "put" => q.cap \in AppCaps)
    BY <1>1, <1>5 DEF GoOn, HandlerFits, Holds, CeilingCarried
  <2>2. CASE Perform(r, q)
    <3>1. Aside(r)
      BY <1>1, <2>1, <2>2, PerformDoes DEF Aside, Shape
    <3>2. QED
      BY <1>1, <1>2, <2>1, <2>2, <3>1, PerformHolds
  <2>3. QED
    BY <1>4, <1>5, <2>1, <2>2 DEF GoOn
<1>6. CASE Alarm(r) \/ Unavailable(r)
  BY <1>4, <1>6 DEF Alarm, Unavailable, RetryLater
<1>7. ASSUME running[r].at \in {"granted", "refused"}, doc[r].live,
             doc[r].pending.kind # "none", allocation[r].version = doc[r].version,
             NEW d, RoomStep(r, d, Settled(r), running[r].then),
             d.pending.kind = "none", d.version = doc[r].version
      PROVE  RoomsHold'
  <2>1. /\ doc'[r] = d /\ running'[r].then = running[r].then
        /\ \A s \in Room \ {r} : doc'[s] = doc[s] /\ running'[s] = running[s]
    BY <1>7, StepEffect, StepThen DEF Shape
  <2>2. CeilingCarried(r)'
    BY <1>1, <1>7, <2>1 DEF CeilingCarried, Holds
  <2>3. QED
    BY <1>1, <1>2, <1>7, <2>1, <2>2, ClearedHolds, AsideHolds DEF Aside
<1>8. CASE Granted(r)
  <2> DEFINE op == doc[r].pending
             a == ApplyPut(doc[r], op.key, op.size, op.target)
             d == Cleared(IF op.kind = "grow" THEN a ELSE doc[r])
  <2>1. running[r].at = "granted" /\ RoomStep(r, d, Settled(r), running[r].then)
    BY <1>8 DEF Granted
  <2>2. doc[r].live /\ op.kind # "none" /\ allocation[r].version = doc[r].version
    BY <1>1, <2>1 DEF HandlerFits, ToldRight
  <2>3. d.pending.kind = "none" /\ d.version = doc[r].version
    <3>1. CASE op.kind = "grow"
      BY <1>1, <2>2, <3>1, AppliedFits
    <3>2. CASE op.kind # "grow"
      BY <1>1, <2>2, <3>2, ClearedFits
    <3>3. QED
      BY <3>1, <3>2
  <2> HIDE DEF d
  <2>4. QED
    BY <1>7, <2>1, <2>2, <2>3
<1>9. CASE Refused(r)
  <2>1. /\ running[r].at = "refused" /\ doc[r].pending.kind = "grow"
        /\ RoomStep(r, Cleared(doc[r]), Settled(r), running[r].then)
    BY <1>9 DEF Refused
  <2>2. doc[r].live /\ allocation[r].version = doc[r].version
    BY <1>1, <2>1 DEF HandlerFits, ToldRight
  <2>3. QED
    BY <1>1, <1>7, <2>1, <2>2, ClearedFits
<1>10. CASE DropRoom(r)
  <2>1. running[r].at = "gone" /\ RoomStep(r, NoDoc, "idle", NoRequest)
    BY <1>10 DEF DropRoom
  <2>2. /\ ~doc'[r].live /\ doc'[r].pending.kind = "none" /\ running'[r].then = NoRequest
        /\ \A s \in Room \ {r} : doc'[s] = doc[s] /\ running'[s] = running[s]
    BY <2>1, StepEffect, StepThen DEF Shape, NoDoc, NoOperation
  <2>3. CeilingCarried(r)'
    BY <1>1, <2>2 DEF CeilingCarried
  <2>4. QED
    BY <1>2, <2>1, <2>2, <2>3, FreshHolds, AsideHolds DEF Aside
<1>11. QED
  BY <1>3, <1>5, <1>6, <1>8, <1>9, <1>10 DEF RoomLocal

LEMMA CreatedHolds ==
  ASSUME Shape, Shape', RoomsHold, NEW r \in Room, Preflight(r) \/ RoomCreated(r)
  PROVE  RoomsHold'
<1>1. /\ UNCHANGED <<doc, allocation, work, late>>
      /\ \A s \in Room : running'[s].then = running[s].then
  BY DEF Preflight, RoomCreated, RecordRoom, Shape, RoomsFit, Running, appVars, ledgerVars,
         netVars
<1>2. \A m \in Message, s \in Room : Underway(m, s)' => Underway(m, s)
  BY <1>1 DEF Underway
<1>3. QED
  BY <1>1, <1>2, QuietHolds

\* The app forgets a room it allocates nothing to: what is underway of its
\* last operation asked for nothing.
LEMMA RemovedHolds ==
  ASSUME Shape, Shape', Escrow, RoomsHold, NEW r \in Room, RoomRemoved(r)
  PROVE  RoomsHold'
<1>1. /\ running[r].at = "removing" /\ UNCHANGED <<doc, work, late>>
      /\ \A s \in Room : running'[s].then = running[s].then \/ running'[s].then = NoRequest
      /\ NoRequest.kind = "none"
  BY NoRequestTyped DEF RoomRemoved, Shape, RoomsFit, Running, At, netVars
<1>2. CASE UNCHANGED allocation
  <2>1. \A m \in Message, s \in Room : Underway(m, s)' => Underway(m, s)
    BY <1>1 DEF Underway
  <2>2. QED
    BY <1>1, <1>2, <2>1, QuietHolds
<1>3. CASE /\ allocation' = [allocation EXCEPT ![r] = NoRecord]
           /\ allocation[r].allocated = 0 /\ allocation[r].target = 0
  <2>1. ASSUME NEW s \in Room \ {r} PROVE Holds(s)' /\ Reserved'[s] <= Reserved[s]
    <3>1. Holds(s) /\ doc'[s] = doc[s] /\ allocation'[s] = allocation[s]
      BY <1>1, <1>3 DEF RoomsHold
    <3>2. doc[s].live => \A m \in Message : Underway(m, s)' => Recalled(m, s)
      BY <1>1, <3>1 DEF Holds, Remembers, Underway
    <3>3. QED
      BY <1>1, <3>1, <3>2, HoldsKept, ReservedKept
  <2>2. /\ doc[r].pending.kind = "none" /\ Holds(r) /\ doc[r].version \in Nat
        /\ allocation[r].version \in Nat /\ allocation[r].version <= doc[r].version
        /\ doc[r].live
    BY <1>1, LedgerFacts DEF HandlerFits, RoomsHold, Escrow, Coupled
  <2>3. allocation'[r] = NoRecord /\ doc'[r] = doc[r]
    BY <1>1, <1>3 DEF Shape, AppFits
  <2>4. LastVersion(r) = doc[r].version /\ LastVersion(r)' = doc[r].version
    BY <2>2, <2>3 DEF LastVersion
  <2>5. ASSUME NEW m \in Message, Underway(m, r)' PROVE Recalled(m, r)'
    <3>1. Recalled(m, r) /\ m.version \in Nat
      BY <1>1, <2>2, <2>5, MessageFacts DEF Holds, Remembers, Underway
    <3>2. m.version = doc[r].version => m.target = 0
      BY <1>3, <2>2, <2>4, <3>1 DEF Recalled, Outcomes
    <3>3. QED
      BY <2>2, <2>3, <2>4, <3>2 DEF Recalled, Outcomes, NoRecord
  <2>6. Holds(r)'
    BY <1>1, <2>2, <2>3, <2>5 DEF Holds, CeilingCarried, Remembers
  <2>7. Reserved'[r] <= Reserved[r]
    BY <2>3, ReservedTyped DEF Reserved, NoRecord
  <2>8. QED
    BY <2>1, <2>6, <2>7, SmallerReserved DEF RoomsHold
<1>4. QED
  BY <1>2, <1>3 DEF RoomRemoved

\* A decision is recorded.  A growth is within the ceiling it carries; where
\* the record is behind its room, it leaves nothing or stays behind.
LEMMA DecidedHolds ==
  ASSUME Shape, Shape', Escrow, RoomsHold, NEW m \in Message, NEW r \in Room, m.room = r,
         Asked(m, r), doc[r].live => Recalled(m, r),
         Decides(allocation[r], m.version), UNCHANGED doc,
         allocation'[r].version = m.version, allocation'[r].target = m.target,
         allocation'[r].allocated \in {m.target, allocation[r].allocated},
         m.target <= allocation[r].allocated => allocation'[r].allocated = m.target,
         allocation'[r].allocated = m.target =>
            /\ Grants(allocation[r], roomAllocated, m.target, m.cap)
            /\ roomAllocated' = NextTotal(m),
         \A s \in Room \ {r} : allocation'[s] = allocation[s],
         \A s \in Room : running'[s].then = running[s].then,
         \A n \in Message, s \in Room : Underway(n, s)' => Underway(n, s)
  PROVE  RoomsHold'
<1> DEFINE d == doc[r]
           held == allocation[r]
<1>1. /\ m.version \in Nat /\ m.target \in Nat /\ m.cap \in Nat
      /\ d.version \in Nat /\ d.bytes \in Nat /\ d.pending.target \in Nat
      /\ d.pending.kind \in {"none", "grow", "release"}
      /\ held.version \in Nat /\ held.allocated \in Nat
      /\ m.version = held.version + 1 /\ roomAllocated \in Nat
      /\ LastVersion(r)' = LastVersion(r)
  BY LedgerFacts, MessageFacts DEF Decides, Shape, AppFits, LastVersion
<1>2. ASSUME NEW s \in Room \ {r} PROVE Holds(s)' /\ Reserved'[s] <= Reserved[s]
  <2>1. Holds(s) /\ doc'[s] = doc[s] /\ allocation'[s] = allocation[s]
    BY DEF RoomsHold
  <2>2. doc[s].live => \A n \in Message : Underway(n, s)' => Recalled(n, s)
    BY <2>1 DEF Holds, Remembers
  <2>3. QED
    BY <2>1, <2>2, HoldsKept, ReservedKept
<1>3. CeilingCarried(r)' /\ Remembers(r)
  BY DEF RoomsHold, Holds, CeilingCarried
<1>4. CASE ~d.live
  <2>1. Holds(r)' /\ Reserved'[r] = 0
    BY <1>3, <1>4 DEF Holds, Remembers, Reserved, Knows
  <2>2. Reserved'[r] <= Reserved[r]
    BY <2>1, ReservedTyped
  <2>3. QED
    BY <1>2, <2>1, <2>2, SmallerReserved DEF RoomsHold
<1>5. CASE d.live /\ ~Knows(r)
  <2>1. held.version < LastVersion(r) /\ m.version <= LastVersion(r)
    BY <1>1, <1>5 DEF Knows, LastVersion
  <2>2. m.version = LastVersion(r) => m.target = 0 /\ allocation'[r].allocated = 0
    BY <1>1, <1>5, <2>1 DEF Recalled
  <2>3. ASSUME NEW n \in Message, Underway(n, r)' PROVE Recalled(n, r)'
    <3>1. Recalled(n, r) /\ n.version \in Nat
      BY <1>3, <1>5, <2>3, MessageFacts DEF Remembers
    <3>2. n.version = LastVersion(r) => n.target = 0
      BY <2>1, <3>1 DEF Recalled
    <3>3. QED
      BY <1>1, <2>1, <2>2, <3>1, <3>2 DEF Recalled, Outcomes
  <2>4. ~(d.pending.kind # "none" /\ m.version = d.version)
    BY <1>1, <2>1 DEF LastVersion
  <2>5. Holds(r)'
    BY <1>3, <2>3, <2>4 DEF Holds, Remembers
  <2>6. Reserved'[r] = 0
    BY <1>1, <2>1, <2>2 DEF Reserved, Knows, LastVersion
  <2>7. Reserved'[r] <= Reserved[r]
    BY <2>6, ReservedTyped
  <2>8. QED
    BY <1>2, <2>5, <2>7, SmallerReserved DEF RoomsHold
<1>6. CASE d.live /\ Knows(r)
  <2>1. /\ d.pending.kind # "none" /\ m.version = d.version /\ m.cap = d.pending.cap
        /\ m.target = d.pending.target /\ LastVersion(r) = d.version - 1
    <3>1. m.version <= d.version /\ held.version >= LastVersion(r)
      BY <1>6 DEF Asked, Knows
    <3>2. d.pending.kind # "none" /\ m.version = d.version
      BY <1>1, <3>1 DEF LastVersion
    <3>3. QED
      BY <1>6, <3>2 DEF Recalled, Asked, LastVersion
  <2>2. ASSUME NEW n \in Message, Underway(n, r)' PROVE Recalled(n, r)'
    <3>1. Recalled(n, r)
      BY <1>3, <1>6, <2>2 DEF Remembers
    <3>2. QED
      BY <1>1, <2>1, <3>1 DEF Recalled
  <2>3. Holds(r)'
    BY <1>3, <2>1, <2>2 DEF Holds, Remembers, Outcomes
  <2>4. Reserved[r] = held.allocated /\ Reserved'[r] = allocation'[r].allocated
    BY <1>1, <1>6, <2>1 DEF Reserved, Knows
  <2>5. CASE allocation'[r].allocated <= held.allocated
    <3>1. Reserved'[r] <= Reserved[r]
      BY <2>4, <2>5
    <3>2. QED
      BY <1>2, <2>3, <3>1, SmallerReserved DEF RoomsHold
  <2>6. CASE ~(allocation'[r].allocated <= held.allocated)
    <3>1. /\ allocation'[r].allocated = m.target /\ ~(m.target <= held.allocated)
          /\ Grants(held, roomAllocated, m.target, m.cap) /\ roomAllocated' = NextTotal(m)
      BY <1>1, <2>6
    <3>2. d.pending.kind = "grow"
      <4>1. CASE Matched(r)
        BY <1>1, <2>1, <3>1, <4>1 DEF Matched
      <4>2. CASE Detached(r)
        BY <1>1, <2>1, <4>2 DEF Detached
      <4>3. QED
        BY <1>6, <4>1, <4>2 DEF Escrow, Coupled
    <3>3. m.cap \in AppCaps
      BY <2>1, <3>2 DEF RoomsHold, Holds, CeilingCarried
    <3>4. ASSUME NEW cap \in AppCaps, cap > 0, AppCaps = {cap}
          PROVE  Total(Reserved') <= cap
      <4>1. m.cap = cap /\ cap \in Nat
        BY <3>3, <3>4, RoomFacts
      <4>2. roomAllocated' <= cap /\ roomAllocated' \in Nat
        BY <1>1, <3>1, <3>4, <4>1 DEF Grants, NextTotal, Shape, AppFits
      <4>3. Total(Reserved') <= roomAllocated' /\ Total(Reserved') \in Nat
        <5>1. ASSUME NEW s \in Room PROVE allocation'[s].allocated \in Nat
          BY DEF Shape, AppFits, FenceRecord
        <5>2. /\ Reserved' \in [Room -> Nat] /\ Sum' \in [Room -> Nat]
              /\ \A s \in Room : Reserved'[s] <= Sum'[s]
          BY <5>1 DEF Reserved, Sum
        <5>3. roomAllocated' = Total(Sum')
          BY DEF Shape, AppFits, TotalIsSum, Sum
        <5>4. QED
          BY <5>2, <5>3, TotalMonotone
      <4>4. QED
        BY <4>1, <4>2, <4>3
    <3>5. QED
      BY <1>2, <2>3, <3>4 DEF RoomsHold, ReservedCapped
  <2>7. QED
    BY <2>5, <2>6
<1>7. QED
  BY <1>4, <1>5, <1>6

LEMMA TellThen ==
  ASSUME Shape, NEW r, NEW waited, NEW answer, Tell(waited, r, answer), waited => r \in Room
  PROVE  \A s \in Room : running'[s].then = running[s].then
BY DEF Tell, Shape, RoomsFit, Running

\* A commit is a decision recorded.
LEMMA CommitHolds ==
  ASSUME Shape, Shape', Escrow, RoomsHold, NEW m \in Message, NEW r \in Room, m.room = r,
         Asked(m, r), doc[r].live => Recalled(m, r),
         Decides(allocation[r], m.version), UNCHANGED doc, Commit(m),
         \A s \in Room : running'[s].then = running[s].then,
         \A n \in Message, s \in Room : Underway(n, s)' => Underway(n, s)
  PROVE  RoomsHold'
<1>1. /\ allocation'[r].version = m.version /\ allocation'[r].target = m.target
      /\ allocation'[r].allocated =
            IF Grants(allocation[r], roomAllocated, m.target, m.cap)
            THEN m.target ELSE allocation[r].allocated
      /\ \A s \in Room \ {r} : allocation'[s] = allocation[s]
  BY CommitRecord
<1>2. m.target <= allocation[r].allocated
         => Grants(allocation[r], roomAllocated, m.target, m.cap)
  BY DEF Grants
<1>3. m.target \in Nat /\ allocation[r].allocated \in Nat
  BY LedgerFacts, MessageFacts
<1>4. ~Grants(allocation[r], roomAllocated, m.target, m.cap)
         => allocation'[r].allocated # m.target
  BY <1>1, <1>2, <1>3
<1>5. Grants(allocation[r], roomAllocated, m.target, m.cap)
         => roomAllocated' = NextTotal(m)
  BY DEF Commit
<1>6. QED
  BY <1>1, <1>2, <1>4, <1>5, DecidedHolds

LEMMA DecideHolds ==
  ASSUME Shape, Shape', Escrow, RoomsHold, NEW m \in Message, NEW r \in Room, m.room = r,
         NEW waited \in BOOLEAN, StartDecide(m, waited), Asked(m, r), late' \subseteq late,
         doc[r].live => Recalled(m, r)
  PROVE  RoomsHold'
<1>1. UNCHANGED doc /\ work = NoWork
  BY DEF StartDecide, PasteFree, Shape, ChargesFit
<1>2. CASE UNCHANGED <<allocation, work>> /\ \E answer : Tell(waited, r, answer)
  <2>1. \A s \in Room : running'[s].then = running[s].then
    BY <1>2, TellThen
  <2>2. \A n \in Message, s \in Room : Underway(n, s)' => Underway(n, s)
    BY <1>2 DEF Underway
  <2>3. QED
    BY <1>1, <1>2, <2>1, <2>2, QuietHolds
<1>3. CASE /\ Decides(allocation[r], m.version) /\ Commit(m) /\ UNCHANGED work
           /\ \E answer : Tell(waited, r, answer)
  <2>1. \A s \in Room : running'[s].then = running[s].then
    BY <1>3, TellThen
  <2>2. \A n \in Message, s \in Room : Underway(n, s)' => Underway(n, s)
    BY <1>3 DEF Underway
  <2>3. QED
    BY <1>1, <1>3, <2>1, <2>2, CommitHolds
<1>4. CASE /\ work' = [at |-> "settle", of |-> m, waited |-> waited, reply |-> NoReply]
           /\ UNCHANGED <<running, allocation>>
  <2>1. \A n \in Message, s \in Room : Underway(n, s)' =>
           Underway(n, s) \/ (doc[s].live => Recalled(n, s))
    BY <1>4 DEF Underway
  <2>2. QED
    BY <1>1, <1>4, <2>1, QuietHolds
<1>5. QED
  BY <1>2, <1>3, <1>4 DEF StartDecide, appVars

LEMMA ServeHolds ==
  ASSUME Shape, Shape', Escrow, RoomsHold, NEW r \in Room, Serve(r)
  PROVE  RoomsHold'
<1> DEFINE d == doc[r]
           m == Decide(r, d.version, d.pending.target, d.pending.cap)
<1>1. /\ m \in Message /\ m.room = r /\ m.version = d.version /\ m.target = d.pending.target
      /\ m.cap = d.pending.cap
  BY RoomTyped DEF Decide, Message, Doc, Operation, Shape
<1>2. running[r].at = "call" /\ StartDecide(m, TRUE) /\ late' \subseteq late
  BY DEF Serve, netVars
<1> HIDE DEF m
<1>3. Asked(m, r) /\ d.pending.kind # "none" /\ d.version \in Nat
  BY <1>1, <1>2, LedgerFacts DEF Asked, Creating, HandlerFits
<1>4. Recalled(m, r)
  BY <1>1, <1>3 DEF Recalled, LastVersion
<1>5. QED
  BY <1>1, <1>2, <1>3, <1>4, DecideHolds

LEMMA LateHolds ==
  ASSUME Shape, Shape', Escrow, RoomsHold, NEW m \in late, LateArrives(m)
  PROVE  RoomsHold'
<1>1. late' \subseteq late /\ m \in Message /\ (m.type = "decide" => m.room \in Room)
  BY DEF LateArrives, Shape, NetFits
<1>2. CASE m.type = "decide" /\ StartDecide(m, FALSE)
  <2>1. Underway(m, m.room)
    BY <1>1, <1>2 DEF Underway
  <2>2. Asked(m, m.room) /\ (doc[m.room].live => Recalled(m, m.room))
    BY <1>1, <1>2, <2>1 DEF Escrow, OnlyAsked, RoomsHold, Holds, Remembers
  <2>3. QED
    BY <1>1, <1>2, <2>2, DecideHolds
<1>3. CASE UNCHANGED <<doc, running, allocation, work>>
  <2>1. \A n \in Message, s \in Room : Underway(n, s)' => Underway(n, s)
    BY <1>1, <1>3 DEF Underway
  <2>2. QED
    BY <1>3, <2>1, QuietHolds
<1>4. QED
  BY <1>2, <1>3 DEF LateArrives, RecordRoom, roomVars, appVars

\* The charge of the owner is no part of it.
LEMMA ChargeHolds ==
  ASSUME Shape, Shape', RoomsHold,
         \/ Settle \/ Shrunk \/ Replied \/ PasteStops \/ ChargeSync
         \/ IdentityAnswers \/ ChargeLost \/ (\E o \in Owner \union {None} : RowChanges(o))
  PROVE  RoomsHold'
<1>1. UNCHANGED <<doc, allocation>>
  BY DEF Settle, SettleOwner, Charging, Shrunk, Replied, PasteStops, ChargeSync,
         IdentityAnswers, ChargeLost, RowChanges, roomVars, appVars
<1>2. \/ UNCHANGED running
      \/ \E answer : Tell(work.waited, work.of.room, answer)
  BY DEF Settle, Shrunk, Replied, PasteStops, ChargeSync, End,
         IdentityAnswers, ChargeLost, RowChanges, roomVars
<1>3. \A s \in Room : running'[s].then = running[s].then
  <2>1. work.waited => work.of.room \in Room
    BY DEF Shape, Waits
  <2>2. QED
    BY <1>2, <2>1, TellThen
<1>4. \/ UNCHANGED work
      \/ work.at # "idle" /\ work'.of = work.of
      \/ work' = NoWork
      \/ work'.of.room = None
  <2>1. \/ UNCHANGED work
        \/ work.at # "idle" /\ \E step : ToStep(step)
        \/ work.at # "idle" /\ \E reply : work' = [work EXCEPT !.reply = reply]
        \/ work' = NoWork
        \/ work' = [NoWork EXCEPT !.at = "settle"]
    BY DEF Settle, SettleOwner, Charging, Shrunk, Replied, PasteStops, ChargeSync, End,
           IdentityAnswers, ChargeLost, RowChanges, Calls
  <2>2. work \in Work /\ [NoWork EXCEPT !.at = "settle"].of.room = None
    BY DEF Shape, ChargesFit, NoWork, NoMessage
  <2>3. QED
    BY <2>1, <2>2 DEF ToStep, Work
<1>5. \A m \in late' : m \in late \/ m.type # "decide"
  <2>1. UNCHANGED late \/ (work.at \in Calls /\ late' = late \union {Ask})
    BY DEF Settle, Shrunk, Replied, PasteStops, ChargeSync,
           IdentityAnswers, ChargeLost, RowChanges, Delayed, netVars
  <2>2. work.at \in Calls => Ask.type \in {"charge", "seed"}
    BY AskTyped DEF Shape
  <2>3. QED
    BY <2>1, <2>2
<1>6. \A m \in Message, s \in Room : Underway(m, s)' => Underway(m, s)
  BY <1>4, <1>5, NoWorkTyped, RoomFacts DEF Underway
<1>7. QED
  BY <1>1, <1>3, <1>6, QuietHolds

\* The decision at work is recorded.
LEMMA WorkHolds ==
  ASSUME Shape, Shape', Escrow, RoomsHold, Body \/ CommitGrowth \/ RefuseGrowth
  PROVE  RoomsHold'
<1>0. PICK m, r : m = work.of /\ r = m.room
  OBVIOUS
<1>1. /\ work.at \in {"body", "commit", "refuse"} /\ UNCHANGED <<doc, late>>
      /\ \/ UNCHANGED running
         \/ \E answer : Tell(work.waited, work.of.room, answer)
  BY DEF Body, CommitGrowth, RefuseGrowth, End, netVars
<1>2. \A s \in Room : running'[s].then = running[s].then
  <2>1. work.waited => work.of.room \in Room
    BY DEF Shape, Waits
  <2>2. QED
    BY <1>1, <2>1, TellThen
<1>3. \A n \in Message, s \in Room : Underway(n, s)' => Underway(n, s)
  <2>1. work' = NoWork \/ \E step : ToStep(step)
    BY DEF Body, CommitGrowth, RefuseGrowth, End, Charging
  <2>2. work' = NoWork \/ work'.of = work.of
    BY <2>1 DEF ToStep, Shape, ChargesFit, Work
  <2>3. QED
    BY <1>1, <2>2, NoWorkTyped DEF Underway
<1>4. ASSUME r # None
      PROVE  /\ m \in Message /\ r \in Room /\ Asked(m, r) /\ (doc[r].live => Recalled(m, r))
             /\ Decides(allocation[r], m.version)
             /\ Grants(allocation[r], roomAllocated, m.target, m.cap)
  <2>1. m \in Message /\ r \in Room /\ Asked(m, r)
    BY <1>0, <1>1, <1>4, WorkAsked
  <2>2. Underway(m, r)
    BY <1>0, <1>1 DEF Underway
  <2>3. QED
    BY <1>0, <1>1, <1>4, <2>1, <2>2 DEF Escrow, Deciding, RoomsHold, Holds, Remembers
<1>5. CASE UNCHANGED allocation
  BY <1>1, <1>2, <1>3, <1>5, QuietHolds
<1>6. CASE r # None /\ Commit(m)
  BY <1>0, <1>1, <1>2, <1>3, <1>4, <1>6, CommitHolds
<1>7. CASE RefuseGrowth
  <2>1. r # None /\ work.at = "refuse"
    BY <1>0, <1>7 DEF RefuseGrowth, Shape, ChargesFit
  <2>2. m.target > allocation[r].allocated
    BY <1>0, <2>1 DEF Escrow, Deciding
  <2>3. m.target \in Nat /\ allocation[r].allocated \in Nat
    BY <1>4, <2>1, LedgerFacts, MessageFacts
  <2>4. /\ allocation'[r].version = m.version /\ allocation'[r].target = m.target
        /\ allocation'[r].allocated = allocation[r].allocated
        /\ \A s \in Room \ {r} : allocation'[s] = allocation[s]
    BY <1>0, <1>4, <1>7, <2>1 DEF RefuseGrowth, Shape, AppFits, FenceRecord
  <2>5. allocation'[r].allocated # m.target /\ ~(m.target <= allocation[r].allocated)
    BY <2>2, <2>3, <2>4
  <2>6. QED
    BY <1>0, <1>1, <1>2, <1>3, <1>4, <2>1, <2>4, <2>5, DecidedHolds
<1>8. CASE CommitGrowth
  <2>1. r # None /\ Commit(m)
    BY <1>0, <1>8 DEF CommitGrowth, Shape, ChargesFit
  <2>2. QED
    BY <1>6, <2>1
<1>9. QED
  BY <1>0, <1>5, <1>6, <1>7, <1>8 DEF Body, Charging, appVars

\* A handler is stopped; a copy of its call is of the pending operation.
LEMMA EndsHolds ==
  ASSUME Shape, Shape', RoomsHold, NEW r \in Room, RoomEnds(r)
  PROVE  RoomsHold'
<1> DEFINE d == doc[r]
           m == Decide(r, d.version, d.pending.target, d.pending.cap)
           served == work.waited /\ work.of.room = r
<1>1. /\ UNCHANGED <<doc, allocation>> /\ NoRequest.kind = "none"
      /\ \A s \in Room : running'[s] = running[s] \/ running'[s].then = NoRequest
  BY NoRequestTyped DEF RoomEnds, At, Shape, RoomsFit, appVars
<1>2. work'.at = work.at /\ work'.of = work.of
  <2>1. CASE served
    BY <2>1 DEF RoomEnds, Shape, ChargesFit, Work
  <2>2. CASE ~served
    BY <2>2 DEF RoomEnds
  <2>3. QED
    BY <2>1, <2>2
<1>3. m.version = d.version /\ m.cap = d.pending.cap /\ m.room = r
  BY DEF Decide
<1>4. \A n \in late' : n \in late \/ (n = m /\ running[r].at = "call") \/ n.type # "decide"
  <2>1. [NoMessage EXCEPT !.type = "record", !.room = r].type = "record"
    BY DEF NoMessage
  <2>2. QED
    BY <2>1 DEF RoomEnds, Delayed
<1> HIDE DEF m
<1>5. running[r].at = "call" => Recalled(m, r)
  <2>1. running[r].at = "call" => d.pending.kind # "none" /\ d.version \in Nat
    BY LedgerFacts DEF HandlerFits
  <2>2. QED
    BY <1>3, <2>1 DEF Recalled, LastVersion
<1>6. \A n \in Message, s \in Room : Underway(n, s)' =>
         Underway(n, s) \/ (doc[s].live => Recalled(n, s))
  BY <1>2, <1>3, <1>4, <1>5 DEF Underway
<1>7. QED
  BY <1>1, <1>6, QuietHolds

LEMMA InitHolds == Init => RoomsHold
<1> SUFFICES ASSUME Init PROVE RoomsHold
  OBVIOUS
<1>1. ASSUME NEW r \in Room PROVE Holds(r)
  BY DEF Init, Holds, CeilingCarried, Remembers, NoDoc, NoOperation, At, NoRequest
<1>2. Reserved = [r \in Room |-> 0]
  BY DEF Init, Reserved, Knows, NoDoc
<1>3. Total(Reserved) = 0
  BY <1>2, TotalZero
<1>4. QED
  BY <1>1, <1>3, RoomFacts DEF RoomsHold, ReservedCapped

LEMMA NextHolds == Shape /\ Shape' /\ Escrow /\ RoomsHold /\ [Next]_vars => RoomsHold'
<1> SUFFICES ASSUME Shape, Shape', Escrow, RoomsHold, [Next]_vars PROVE RoomsHold'
  OBVIOUS
<1>1. ASSUME NEW r \in Room, RoomRequest(r) \/ RoomLocal(r) \/ Alarm(r) PROVE RoomsHold'
  BY <1>1, RequestHolds, LocalHolds
<1>2. ASSUME NEW r \in Room, RoomCalls(r) PROVE RoomsHold'
  BY <1>2, CreatedHolds, ServeHolds, RemovedHolds DEF RoomCalls
<1>3. ASSUME NEW r \in Room, RoomEnds(r) PROVE RoomsHold'
  BY <1>3, EndsHolds
<1>4. CASE PasteStep
  BY <1>4, ChargeHolds, WorkHolds DEF PasteStep
<1>5. CASE ChargeSync \/ PasteStops
  BY <1>5, ChargeHolds
<1>6. CASE IdentityAnswers \/ ChargeLost \/ (\E o \in Owner \union {None} : RowChanges(o))
  BY <1>6, ChargeHolds
<1>7. ASSUME NEW m \in late, LateArrives(m) PROVE RoomsHold'
  BY <1>7, LateHolds
<1>8. CASE UNCHANGED vars
  <2>1. \A m \in Message, s \in Room : Underway(m, s)' => Underway(m, s)
    BY <1>8 DEF vars, netVars, Underway
  <2>2. QED
    BY <1>8, <2>1, QuietHolds DEF vars, roomVars, appVars
<1>9. QED
  BY <1>1, <1>2, <1>3, <1>4, <1>5, <1>6, <1>7, <1>8 DEF Next

\* Every room that is there is in the creation ledger, and the count is of those
\* in the ledger that are not gone.
RoomsRecorded ==
    /\ \A r \in Room : doc[r].live \/ running[r].at = "save" => r \in recorded
    /\ Cardinality(recorded \ gone) <= roomTotal

\* Only a room being created, or a delayed record, enters the ledger.
LEMMA RecordCounted ==
  ASSUME Shape, RoomsRecorded, NEW r \in Room, RecordRoom(r),
         \A s \in Room : running'[s].at = "save" => running[s].at = "save" \/ s = r
  PROVE  RoomsRecorded'
<1>1. /\ UNCHANGED <<doc, gone>> /\ recorded' = recorded \union {r}
      /\ roomTotal' = IF r \in recorded THEN roomTotal ELSE roomTotal + 1
  BY DEF RecordRoom
<1>2. IsFiniteSet(recorded \ gone) /\ Cardinality(recorded \ gone) \in Nat /\ roomTotal \in Nat
  BY FS_Subset, FS_CardinalityType, RoomFacts DEF Shape, NetFits
<1>3. CASE r \in recorded \/ r \in gone
  <2>1. recorded' \ gone' = recorded \ gone
    BY <1>1, <1>3
  <2>2. roomTotal <= roomTotal'
    BY <1>1, <1>2
  <2>3. Cardinality(recorded \ gone) <= roomTotal'
    BY <1>1, <1>2, <2>2 DEF RoomsRecorded
  <2>4. QED
    BY <1>1, <2>1, <2>3 DEF RoomsRecorded
<1>4. CASE r \notin recorded /\ r \notin gone
  <2>1. recorded' \ gone' = (recorded \ gone) \union {r} /\ r \notin recorded \ gone
    BY <1>1, <1>4
  <2>2. Cardinality(recorded' \ gone') = Cardinality(recorded \ gone) + 1
    BY <1>2, <2>1, FS_AddElement
  <2>3. Cardinality(recorded \ gone) + 1 <= roomTotal'
    BY <1>1, <1>2, <1>4 DEF RoomsRecorded
  <2>4. QED
    BY <1>1, <2>2, <2>3 DEF RoomsRecorded
<1>5. QED
  BY <1>3, <1>4

\* A room counts as gone once.
LEMMA RemovedCounted ==
  ASSUME Shape, RoomsRecorded, NEW r \in Room, RoomRemoved(r)
  PROVE  RoomsRecorded'
<1>1. /\ running[r].at = "removing" /\ UNCHANGED <<doc, recorded>>
      /\ \A s \in Room : running'[s].at = "save" => running[s].at = "save"
  BY DEF RoomRemoved, Shape, RoomsFit, Running, At
<1>2. CASE UNCHANGED <<roomTotal, gone>>
  BY <1>1, <1>2 DEF RoomsRecorded
<1>3. CASE /\ r \notin gone /\ gone' = gone \union {r}
           /\ roomTotal' = IF roomTotal > 0 THEN roomTotal - 1 ELSE 0
  <2>1. doc[r].live /\ r \in recorded
    BY <1>1, LedgerFacts DEF HandlerFits, RoomsRecorded
  <2>2. /\ IsFiniteSet(recorded \ gone) /\ Cardinality(recorded \ gone) \in Nat
        /\ roomTotal \in Nat
    BY FS_Subset, FS_CardinalityType, RoomFacts DEF Shape, NetFits
  <2>3. recorded' \ gone' = (recorded \ gone) \ {r} /\ r \in recorded \ gone
    BY <1>1, <1>3, <2>1
  <2>4. /\ IsFiniteSet((recorded \ gone) \ {r})
        /\ Cardinality((recorded \ gone) \ {r}) = Cardinality(recorded \ gone) - 1
    BY <2>2, <2>3, FS_RemoveElement
  <2>5. Cardinality(recorded \ gone) - 1 <= roomTotal'
    BY <1>3, <2>2 DEF RoomsRecorded
  <2>6. QED
    BY <1>1, <2>3, <2>4, <2>5 DEF RoomsRecorded
<1>4. QED
  BY <1>2, <1>3 DEF RoomRemoved, AlreadyGone

\* No room appears that was not being created.
LEMMA KeptCounted ==
  ASSUME RoomsRecorded, UNCHANGED ledgerVars,
         \A s \in Room : doc'[s].live => doc[s].live \/ running[s].at = "save",
         \A s \in Room : running'[s].at = "save" => running[s].at = "save"
  PROVE  RoomsRecorded'
BY DEF RoomsRecorded, ledgerVars

\* A handler of a room that is there, or is being saved, takes a step.
LEMMA StepCounted ==
  ASSUME Shape, RoomsRecorded, UNCHANGED ledgerVars, NEW r \in Room,
         doc[r].live \/ running[r].at = "save", running'[r].at # "save",
         \A s \in Room \ {r} : doc'[s] = doc[s] /\ running'[s] = running[s]
  PROVE  RoomsRecorded'
<1>1. \A s \in Room : doc'[s].live => doc[s].live \/ running[s].at = "save"
  OBVIOUS
<1>2. \A s \in Room : running'[s].at = "save" => running[s].at = "save"
  OBVIOUS
<1>3. QED
  BY <1>1, <1>2, KeptCounted

LEMMA PerformCounted ==
  ASSUME Shape, RoomsRecorded, UNCHANGED ledgerVars, NEW r \in Room, doc[r].live,
         NEW q \in Request, Perform(r, q), q.kind \in {"put", "del"} => q.key \in Key
  PROVE  RoomsRecorded'
<1>1. /\ running'[r].at # "save"
      /\ \A s \in Room \ {r} : doc'[s] = doc[s] /\ running'[s] = running[s]
  BY PerformDoes DEF Shape
<1>2. QED
  BY <1>1, StepCounted

LEMMA RequestCounted ==
  ASSUME Shape, RoomsRecorded, NEW r \in Room, RoomRequest(r)
  PROVE  RoomsRecorded'
<1>1. UNCHANGED ledgerVars
  BY DEF RoomRequest, Create, Put, Del, Remove, Arrive
<1>2. ASSUME NEW cap \in AppCaps, Create(r, cap)
      PROVE  RoomsRecorded'
  <2>1. UNCHANGED doc /\ \A s \in Room : running'[s].at = "save" => running[s].at = "save"
    BY <1>2 DEF Create, Shape, RoomsFit
  <2>2. QED
    BY <1>1, <2>1, KeptCounted
<1>3. ASSUME NEW q \in Request, Arrive(r, q), q.kind \in {"put", "del"} => q.key \in Key
      PROVE  RoomsRecorded'
  <2>1. doc[r].live
    BY <1>3 DEF Arrive
  <2>2. CASE RoomStep(r, doc[r], "call", q)
    BY <1>1, <2>1, <2>2, StepEffect, StepCounted DEF Shape
  <2>3. CASE Perform(r, q)
    BY <1>1, <1>3, <2>1, <2>3, PerformCounted
  <2>4. QED
    BY <1>3, <2>2, <2>3 DEF Arrive
<1>4. ASSUME NEW k \in Key, NEW n \in Sizes, NEW cap \in AppCaps,
             Arrive(r, [kind |-> "put", key |-> k, size |-> n, cap |-> cap])
      PROVE  RoomsRecorded'
  <2> DEFINE q == [kind |-> "put", key |-> k, size |-> n, cap |-> cap]
  <2>1. q \in Request /\ q.key \in Key
    BY RoomFacts DEF Request
  <2> HIDE DEF q
  <2>2. QED
    BY <1>3, <1>4, <2>1 DEF q
<1>5. ASSUME NEW k \in Key, Arrive(r, [kind |-> "del", key |-> k, size |-> 0, cap |-> 0])
      PROVE  RoomsRecorded'
  <2> DEFINE q == [kind |-> "del", key |-> k, size |-> 0, cap |-> 0]
  <2>1. q \in Request /\ q.key \in Key
    BY DEF Request
  <2> HIDE DEF q
  <2>2. QED
    BY <1>3, <1>5, <2>1 DEF q
<1>6. CASE Remove(r)
  <2> DEFINE q == [NoRequest EXCEPT !.kind = "remove"]
  <2>1. q \in Request /\ q.kind = "remove"
    BY DEF Request, NoRequest
  <2>2. Arrive(r, q)
    BY <1>6 DEF Remove
  <2> HIDE DEF q
  <2>3. QED
    BY <1>3, <2>1, <2>2
<1>7. QED
  BY <1>2, <1>4, <1>5, <1>6 DEF RoomRequest, Put, Del

LEMMA LocalCounted ==
  ASSUME Shape, RoomsRecorded, NEW r \in Room, RoomLocal(r) \/ Alarm(r)
  PROVE  RoomsRecorded'
<1>1. UNCHANGED ledgerVars
  BY DEF RoomLocal, SaveRoom, GoOn, Granted, Refused, Unavailable, DropRoom, Alarm
<1>2. HandlerFits(doc[r], running[r]) /\ running[r].then \in Request
  BY LedgerFacts, RoomTyped DEF Shape
<1>3. CASE SaveRoom(r)
  <2>1. /\ running[r].at = "save" /\ running'[r].at # "save"
        /\ \A s \in Room \ {r} : doc'[s] = doc[s] /\ running'[s] = running[s]
    BY <1>3 DEF SaveRoom, Shape, RoomsFit, At
  <2>2. QED
    BY <1>1, <2>1, StepCounted
<1>4. ASSUME doc[r].live, NEW d, NEW then, NEW step, step # "save", RoomStep(r, d, step, then)
      PROVE  RoomsRecorded'
  BY <1>1, <1>4, StepEffect, StepCounted DEF Shape
<1>5. CASE GoOn(r)
  <2>1. doc[r].live /\ running[r].at = "next"
    BY <1>2, <1>5 DEF GoOn, HandlerFits
  <2>2. CASE Perform(r, running[r].then)
    BY <1>1, <1>2, <2>1, <2>2, PerformCounted DEF HandlerFits
  <2>3. QED
    BY <1>4, <1>5, <2>1, <2>2 DEF GoOn
<1>6. CASE Alarm(r)
  <2>1. doc[r].live
    BY <1>6, LedgerFacts DEF Alarm, DocFits, NoDoc, NoOperation
  <2>2. QED
    BY <1>4, <1>6, <2>1 DEF Alarm
<1>7. CASE Granted(r) \/ Refused(r) \/ Unavailable(r) \/ DropRoom(r)
  <2>1. doc[r].live
    BY <1>2, <1>7 DEF Granted, Refused, Unavailable, DropRoom, HandlerFits
  <2>2. QED
    BY <1>4, <1>7, <2>1 DEF Granted, Refused, Unavailable, DropRoom, Settled
<1>8. QED
  BY <1>3, <1>5, <1>6, <1>7 DEF RoomLocal

LEMMA TellAt ==
  ASSUME Shape, NEW r, NEW waited, NEW answer, Tell(waited, r, answer), waited => r \in Room
  PROVE  \A s \in Room : \/ running'[s].at = running[s].at
                         \/ running'[s].at \in {"granted", "refused", "unavailable"}
BY DEF Tell, Shape, RoomsFit, Running

LEMMA TellCounted ==
  ASSUME Shape, RoomsRecorded, NEW r, NEW waited, NEW answer, Tell(waited, r, answer),
         waited => r \in Room, UNCHANGED <<doc, ledgerVars>>
  PROVE  RoomsRecorded'
<1>1. \A s \in Room : running'[s].at = "save" => running[s].at = "save"
  BY TellAt
<1>2. QED
  BY <1>1, KeptCounted

\* The app's own steps, and the environment's, create no room.
LEMMA OutsideCounted ==
  ASSUME Shape, RoomsRecorded,
         \/ PasteStep \/ IdentityAnswers \/ ChargeSync \/ ChargeLost \/ PasteStops
         \/ \E o \in Owner \union {None} : RowChanges(o)
  PROVE  RoomsRecorded'
<1>1. UNCHANGED <<doc, ledgerVars>>
  BY DEF PasteStep, Settle, Body, Shrunk, CommitGrowth, RefuseGrowth, Replied, PasteStops,
         ChargeSync, IdentityAnswers, ChargeLost, RowChanges, roomVars
<1>2. UNCHANGED running \/ \E answer : Tell(work.waited, work.of.room, answer)
  BY DEF PasteStep, Settle, Body, Shrunk, CommitGrowth, RefuseGrowth, Replied, PasteStops,
         ChargeSync, IdentityAnswers, ChargeLost, RowChanges, End, roomVars
<1>3. work.waited => work.of.room \in Room
  BY DEF Shape, Waits
<1>4. QED
  BY <1>1, <1>2, <1>3, TellCounted, KeptCounted

LEMMA CallsCounted ==
  ASSUME Shape, RoomsRecorded, NEW r \in Room, RoomCalls(r) \/ RoomEnds(r)
  PROVE  RoomsRecorded'
<1>1. CASE Preflight(r)
  <2>1. /\ UNCHANGED <<doc, ledgerVars>>
        /\ \A s \in Room : running'[s].at = "save" => running[s].at = "save"
    BY <1>1 DEF Preflight, Shape, RoomsFit, Running
  <2>2. QED
    BY <2>1, KeptCounted
<1>2. CASE RoomCreated(r)
  <2>1. \A s \in Room : running'[s].at = "save" => running[s].at = "save" \/ s = r
    BY <1>2 DEF RoomCreated, Shape, RoomsFit, Running
  <2>2. running'[r].at = "save" => r \in recorded'
    BY <1>2 DEF RoomCreated, RecordRoom
  <2>3. QED
    BY <1>2, <2>1, RecordCounted DEF RoomCreated
<1>3. CASE Serve(r)
  <2>1. /\ UNCHANGED <<doc, ledgerVars>>
        /\ UNCHANGED running \/ \E answer : Tell(TRUE, r, answer)
    BY <1>3 DEF Serve, StartDecide, Decide
  <2>2. QED
    BY <2>1, TellCounted, KeptCounted
<1>4. CASE RoomRemoved(r)
  BY <1>4, RemovedCounted
<1>5. CASE RoomEnds(r)
  <2>1. /\ UNCHANGED <<doc, ledgerVars>>
        /\ \A s \in Room : running'[s].at = "save" => running[s].at = "save"
    BY <1>5 DEF RoomEnds, Shape, RoomsFit, At
  <2>2. QED
    BY <2>1, KeptCounted
<1>6. QED
  BY <1>1, <1>2, <1>3, <1>4, <1>5 DEF RoomCalls

LEMMA LateCounted ==
  ASSUME Shape, RoomsRecorded, NEW m \in late, LateArrives(m)
  PROVE  RoomsRecorded'
<1>1. m.type = "record" => m.room \in Room
  BY DEF Shape, NetFits
<1>2. CASE m.type = "record" /\ RecordRoom(m.room) /\ UNCHANGED running
  BY <1>1, <1>2, RecordCounted
<1>3. CASE StartDecide(m, FALSE)
  <2>1. /\ UNCHANGED <<doc, ledgerVars>>
        /\ UNCHANGED running
    BY <1>3 DEF StartDecide, Tell
  <2>2. QED
    BY <2>1, KeptCounted
<1>4. CASE UNCHANGED <<roomVars, ledgerVars>>
  BY <1>4, KeptCounted DEF roomVars
<1>5. QED
  BY <1>2, <1>3, <1>4 DEF LateArrives

LEMMA InitCounted == Init => RoomsRecorded
<1> SUFFICES ASSUME Init PROVE RoomsRecorded
  OBVIOUS
<1>1. \A r \in Room : ~doc[r].live /\ running[r].at # "save"
  BY DEF Init, NoDoc, At
<1>2. Cardinality(recorded \ gone) <= roomTotal
  <2>1. recorded \ gone = {} /\ roomTotal = 0
    BY DEF Init
  <2>2. QED
    BY <2>1, FS_EmptySet
<1>3. QED
  BY <1>1, <1>2 DEF RoomsRecorded

LEMMA NextCounted == Shape /\ RoomsRecorded /\ [Next]_vars => RoomsRecorded'
<1> SUFFICES ASSUME Shape, RoomsRecorded, [Next]_vars PROVE RoomsRecorded'
  OBVIOUS
<1>1. CASE UNCHANGED vars
  BY <1>1, KeptCounted DEF vars, roomVars
<1>2. QED
  BY <1>1, RequestCounted, LocalCounted, CallsCounted, OutsideCounted, LateCounted DEF Next

\* The rooms' bytes and their number are bounded together with the escrow.
THEOREM CeilingsHold == Spec => [](Shape /\ Escrow /\ RoomsHold /\ RoomsRecorded)
<1>1. Init => RoomsHold /\ RoomsRecorded
  BY InitHolds, InitCounted
<1>2. Shape /\ Shape' /\ Escrow /\ RoomsHold /\ RoomsRecorded /\ [Next]_vars
         => RoomsHold' /\ RoomsRecorded'
  BY NextHolds, NextCounted
<1>3. QED
  BY <1>1, <1>2, EscrowAlways, PTL DEF Spec

\* The values of an app's rooms stay within its ceiling however their puts,
\* deletes and removals interleave, and every live room that was not removed
\* is counted against the limit of rooms.
THEOREM AlwaysCeilingsKept == Spec => []CeilingsKept
<1>1. Shape /\ Escrow /\ RoomsHold /\ RoomsRecorded => CeilingsKept
  <2> SUFFICES ASSUME Shape, Escrow, RoomsHold, RoomsRecorded PROVE CeilingsKept
    OBVIOUS
  <2> DEFINE stored == [r \in Room |-> Stored(r)]
  <2>1. ASSUME NEW r \in Room PROVE Stored(r) \in Nat /\ Stored(r) <= Reserved[r]
    <3>1. /\ Stored(r) = doc[r].bytes /\ doc[r].bytes \in Nat /\ doc[r].version \in Nat
          /\ allocation[r].allocated \in Nat /\ allocation[r].version \in Nat
          /\ doc[r].pending.kind \in {"none", "grow", "release"}
          /\ doc[r].pending.target \in Nat /\ Coupled(r) /\ DocFits(doc[r])
      BY LedgerFacts DEF Stored, DocFits, Escrow
    <3>2. Reserved[r] \in Nat /\ Reserved[r] = IF Knows(r) THEN allocation[r].allocated ELSE 0
      BY <3>1 DEF Reserved
    <3>3. CASE ~doc[r].live
      BY <3>1, <3>2, <3>3 DEF DocFits, NoDoc
    <3>4. CASE doc[r].live /\ Detached(r)
      BY <3>1, <3>2, <3>4 DEF Detached
    <3>5. CASE doc[r].live /\ Matched(r)
      <4>1. Knows(r)
        BY <3>1, <3>5 DEF Matched, Knows, LastVersion
      <4>2. doc[r].bytes <= allocation[r].allocated
        BY <3>1, <3>5 DEF Matched, DocFits
      <4>3. QED
        BY <3>1, <3>2, <4>1, <4>2
    <3>6. QED
      BY <3>1, <3>3, <3>4, <3>5 DEF Coupled
  <2>2. Total(stored) <= Total(Reserved) /\ Total(stored) \in Nat /\ Total(Reserved) \in Nat
    <3>1. stored \in [Room -> Nat] /\ Reserved \in [Room -> Nat]
      BY <2>1, ReservedTyped
    <3>2. \A r \in Room : stored[r] <= Reserved[r]
      BY <2>1
    <3>3. \A r \in Room : Reserved[r] <= Reserved[r]
      BY <3>1
    <3> HIDE DEF stored
    <3>4. QED
      BY <3>1, <3>2, <3>3, TotalMonotone
  <2>3. AppCapRespected
    <3> SUFFICES ASSUME NEW cap \in AppCaps, cap > 0, AppCaps = {cap}
                 PROVE  Total(stored) <= cap
      BY DEF AppCapRespected
    <3>1. Total(Reserved) <= cap /\ cap \in Nat
      BY RoomFacts DEF RoomsHold, ReservedCapped
    <3> HIDE DEF stored
    <3>2. QED
      BY <2>2, <3>1
  <2>4. RoomsCounted
    <3> DEFINE there == {r \in Room : doc[r].live} \ gone
               known == recorded \ gone
    <3>1. there \subseteq known /\ known \subseteq Room
      BY DEF RoomsRecorded, Shape, NetFits
    <3>2. IsFiniteSet(known)
      BY <3>1, FS_Subset, RoomFacts
    <3>3. Cardinality(there) <= Cardinality(known) /\ IsFiniteSet(there)
      BY <3>1, <3>2, FS_Subset
    <3>4. Cardinality(there) \in Nat /\ Cardinality(known) \in Nat /\ roomTotal \in Nat
      BY <3>2, <3>3, FS_CardinalityType DEF Shape, NetFits
    <3>5. Cardinality(known) <= roomTotal
      BY DEF RoomsRecorded
    <3> HIDE DEF there, known
    <3>6. Cardinality(there) <= roomTotal
      BY <3>3, <3>4, <3>5
    <3>7. QED
      BY <3>6 DEF there, RoomsCounted
  <2>5. QED
    BY <2>3, <2>4 DEF CeilingsKept
<1>2. QED
  BY <1>1, CeilingsHold, PTL

-----------------------------------------------------------------------------
(***************************************************************************)
(* The owner's charge.  The app and the owner's cell each keep a record of *)
(* it, and a seed, a lost answer or a delayed copy moves the owner's       *)
(* without the app.  What keeps the two apart by no more than the charge   *)
(* outstanding is the fence: a delayed charge that would be taken is the   *)
(* outstanding one itself (Expected), and what the app makes of an answer  *)
(* is what the owner's cell still holds, or has seeded since (Answered).   *)
(***************************************************************************)

\* No decision of a removed room can arrive late: its app has forgotten the
\* room, takes the decision for a first one, and charges nobody for a release
\* that grows it.
Timely == "decide" \notin LateKinds \/ gone = {}

\* The owner's record c follows the app's charge k: it is one decision behind,
\* holds that decision, or was seeded past it.
Tracks(k, c, total) ==
    /\ k.version <= c.version + 1
    /\ k.settled => k.version <= c.version
    /\ ~k.settled => k.target >= total
    /\ c.version + 1 = k.version => c.allocated >= total
    /\ c.version = k.version =>
          /\ k.settled \/ c.target = k.target => c.allocated >= total
          /\ k.settled => c.allocated = k.target
    /\ c.version > k.version => c.allocated = c.target

\* Some owner is charged, and what its cell has.
Charged == ownerCharge.owner # None
OwnerRecord == charge[ownerCharge.owner]

Tracked == Charged => Tracks(ownerCharge, OwnerRecord, roomAllocated)

\* A delayed charge was taken or overtaken, unless it is the outstanding one.
Expected(m) ==
    LET next == charge[m.owner].version + 1 IN
    /\ m.version <= next
    /\ m.version = next =>
          /\ ownerCharge.owner = m.owner /\ ownerCharge.version = m.version
          /\ ownerCharge.target = m.target /\ ~ownerCharge.settled

LateCharges == \A m \in late : m.type = "charge" => Expected(m)

ChargesOwner == Charged /\ ownerCharge.owner = ChargedOwner

Asking == {"replay", "lower", "grow", "shrink"}

AtWork ==
    /\ work.at \in Asking => ChargesOwner /\ ~ownerCharge.settled
    /\ work.at \in {"body", "shrunk", "commit", "refuse"} =>
          ChargesOwner /\ ownerCharge.settled
    /\ work.at = "move" => Charged /\ ownerCharge.owner # ChargedOwner
    /\ work.at \in {"grow", "commit"} => ownerCharge.target = NextTotal(work.of)
    /\ work.at = "seed" /\ Charged => ownerCharge.version <= OwnerRecord.version

\* What an answer q to a seed and to a charge k says of the owner's record c.
SeedTold(q, c, total) ==
    /\ c.version >= q.version
    /\ c.version = q.version => c.allocated = total
    /\ c.version > q.version => c.allocated = c.target

ChargeTold(q, k, c) ==
    /\ q.kind \in {"granted", "refused"} =>
          /\ c.version >= k.version
          /\ c.version = k.version => c.target = k.target /\ c.allocated = q.allocated
    /\ q.kind = "conflict" => k.version <= c.version

Answered ==
    LET q == work.reply IN
    /\ work.at = "move" /\ q.kind = "granted" => ownerCharge.version <= OwnerRecord.version
    /\ work.at = "seed" /\ q.kind = "granted" => SeedTold(q, charge[ChargedOwner], roomAllocated)
    /\ work.at \in Asking => ChargeTold(q, ownerCharge, OwnerRecord)
    /\ work.at = "grow" /\ q.kind = "granted" => q.allocated = ownerCharge.target

Cover == Tracked /\ LateCharges /\ AtWork /\ Answered

\* A room that is no longer there has been removed, and a copy is delayed only
\* of the kinds that may be.
Departed ==
    /\ \A r \in Room : running[r].at = "gone" => r \in gone
    /\ \A r \in Room, m \in Message : Underway(m, r) => doc[r].live \/ r \in gone
    /\ \A m \in late : m.type \in LateKinds

LEMMA OwnerFacts ==
  ASSUME Shape
  PROVE  /\ ownerCharge \in OwnerCharge /\ ownerCharge.owner \in Owner \union {None}
         /\ ownerCharge.version \in Nat /\ ownerCharge.target \in Nat
         /\ ownerCharge.settled \in BOOLEAN /\ roomAllocated \in Nat
         /\ charge \in [Owner -> FenceRecord] /\ work \in Work
         /\ Charged => /\ ownerCharge.owner \in Owner /\ OwnerRecord \in FenceRecord
                       /\ ChargedOwner \in Owner
         /\ ownerCharge = NoCharge <=> ~Charged
         /\ work.at # "idle" => ChargedOwner \in Owner
<1>1. /\ ownerCharge \in OwnerCharge /\ row \in Owner \union {None}
      /\ charge \in [Owner -> FenceRecord] /\ work \in Work /\ roomAllocated \in Nat
      /\ ownerCharge.owner = None => ownerCharge = NoCharge
      /\ work.at # "idle" => ChargedOwner # None
  BY DEF Shape, ChargesFit, AppFits
<1>2. /\ ownerCharge.owner \in Owner \union {None}
      /\ ownerCharge.version \in Nat /\ ownerCharge.target \in Nat
      /\ ownerCharge.settled \in BOOLEAN
  BY <1>1 DEF OwnerCharge
<1>3. Charged => ownerCharge.owner \in Owner /\ OwnerRecord \in FenceRecord
                 /\ ChargedOwner \in Owner
  BY <1>1, <1>2 DEF Charged, OwnerRecord, ChargedOwner
<1>4. ownerCharge = NoCharge <=> ~Charged
  BY <1>1 DEF Charged, NoCharge
<1>5. work.at # "idle" => ChargedOwner \in Owner
  BY <1>1, <1>2 DEF ChargedOwner
<1>6. QED
  BY <1>1, <1>2, <1>3, <1>4, <1>5

\* The two records step by step: the app decides the next charge, the owner's
\* cell takes it, or a seed; the app learns of either.
LEMMA ChargeDecided ==
  ASSUME NEW k \in OwnerCharge, NEW e \in OwnerCharge, NEW c \in FenceRecord, NEW total \in Nat,
         Tracks(k, c, total), k.settled, ~e.settled, e.version = k.version + 1,
         e.target >= total
  PROVE  Tracks(e, c, total)
BY DEF Tracks, OwnerCharge, FenceRecord

LEMMA ChargeTaken ==
  ASSUME NEW k \in OwnerCharge, NEW c \in FenceRecord, NEW d \in FenceRecord, NEW total \in Nat,
         Tracks(k, c, total), ~k.settled, k.version = c.version + 1, d.version = k.version,
         d.target = k.target, d.allocated \in {k.target, c.allocated}
  PROVE  Tracks(k, d, total)
BY DEF Tracks, OwnerCharge, FenceRecord

LEMMA ChargeSeeded ==
  ASSUME NEW k \in OwnerCharge, NEW c \in FenceRecord, NEW d \in FenceRecord, NEW total \in Nat,
         Tracks(k, c, total), d.version = c.version + 1, d.allocated = d.target
  PROVE  Tracks(k, d, total)
BY DEF Tracks, OwnerCharge, FenceRecord

LEMMA ChargeLearned ==
  ASSUME NEW k \in OwnerCharge, NEW e \in OwnerCharge, NEW c \in FenceRecord, NEW total \in Nat,
         NEW q \in Reply, Tracks(k, c, total), ChargeTold(q, k, c),
         q.kind \in {"granted", "refused"}, ~k.settled,
         e.settled, e.version = k.version, e.target = q.allocated
  PROVE  Tracks(e, c, total)
BY DEF Tracks, ChargeTold, OwnerCharge, FenceRecord, Reply

LEMMA SeedLearned ==
  ASSUME NEW e \in OwnerCharge, NEW c \in FenceRecord, NEW total \in Nat, NEW q \in Reply,
         SeedTold(q, c, total), e.settled, e.version = q.version, e.target = total
  PROVE  Tracks(e, c, total)
BY DEF Tracks, SeedTold, OwnerCharge, FenceRecord, Reply

\* The total falls, or grows to what was charged.
LEMMA TotalFollows ==
  ASSUME NEW k \in OwnerCharge, NEW c \in FenceRecord, NEW total \in Nat, NEW next \in Nat,
         Tracks(k, c, total), next <= total \/ (k.settled /\ next = k.target)
  PROVE  Tracks(k, c, next)
<1>1. /\ k.version \in Nat /\ k.target \in Nat /\ c.version \in Nat
      /\ c.allocated \in Nat /\ c.target \in Nat
  BY DEF OwnerCharge, FenceRecord
<1>2. CASE next <= total
  BY <1>1, <1>2 DEF Tracks
<1>3. CASE k.settled /\ next = k.target
  BY <1>1, <1>3 DEF Tracks
<1>4. QED
  BY <1>2, <1>3

-----------------------------------------------------------------------------

\* The app's lock is free, or a decision starts.
LEMMA RestCover ==
  ASSUME Cover, UNCHANGED <<ownerCharge, charge>>,
         Charged => Tracks(ownerCharge, OwnerRecord, roomAllocated'),
         work'.at \in {"idle", "settle"},
         \A m \in late' : m \in late \/ m.type # "charge"
  PROVE  Cover'
<1>1. Tracked'
  BY DEF Tracked, Charged, OwnerRecord
<1>2. LateCharges'
  BY DEF Cover, LateCharges, Expected
<1>3. AtWork' /\ Answered'
  BY DEF AtWork, Answered, Asking
<1>4. QED
  BY <1>1, <1>2, <1>3 DEF Cover

\* The charge stays; the answer of the owner's cell may be lost.
LEMMA StayCover ==
  ASSUME Cover,
         UNCHANGED <<ownerCharge, charge, row, allocation, roomAllocated>>,
         work'.at = work.at, work'.of = work.of,
         work'.reply = work.reply \/ work'.reply.kind = "lost",
         \A m \in late' : m \in late \/ (m.type = "charge" => Expected(m))
  PROVE  Cover'
<1>1. Tracked'
  BY DEF Cover, Tracked, Charged, OwnerRecord
<1>2. LateCharges'
  BY DEF Cover, LateCharges, Expected
<1>3. AtWork'
  BY DEF Cover, AtWork, ChargesOwner, Charged, OwnerRecord, ChargedOwner, NextTotal
<1>4. Answered'
  <2>1. CASE work'.reply = work.reply
    BY <2>1 DEF Cover, Answered, OwnerRecord, ChargedOwner
  <2>2. CASE work'.reply.kind = "lost"
    BY <2>2 DEF Answered, ChargeTold
  <2>3. QED
    BY <2>1, <2>2
<1>5. QED
  BY <1>1, <1>2, <1>3, <1>4 DEF Cover

\* The work goes on to a step that has no answer yet.
LEMMA StepCover ==
  ASSUME Shape, Tracked', LateCharges', NEW step, ToStep(step), AtWork'
  PROVE  Cover'
<1>1. work'.reply = NoReply /\ NoReply.kind = "none"
  BY DEF ToStep, Shape, ChargesFit, Work, NoReply
<1>2. Answered'
  BY <1>1 DEF Answered, ChargeTold
<1>3. QED
  BY <1>2 DEF Cover

\* A decision of a room that asked in time has a ceiling if it grows the room,
\* so the app charges it.
LEMMA GrowthCapped ==
  ASSUME Shape, Escrow, RoomsHold, 0 \notin AppCaps, NEW m \in Message, NEW r \in Room,
         Asked(m, r), doc[r].live, Recalled(m, r), Decides(allocation[r], m.version),
         r \notin gone \/ (m.version = doc[r].version /\ doc[r].pending.kind # "none"),
         m.target > allocation[r].allocated
  PROVE  m.cap > 0
<1> DEFINE d == doc[r]
           held == allocation[r]
<1>1. /\ d.version \in Nat /\ d.bytes \in Nat /\ d.pending.target \in Nat
      /\ d.pending.kind \in {"none", "grow", "release"}
      /\ held.version \in Nat /\ held.allocated \in Nat
      /\ m.version \in Nat /\ m.target \in Nat /\ m.cap \in Nat
  BY LedgerFacts, MessageFacts
<1>2. /\ m.version <= d.version /\ m.version = held.version + 1
      /\ Matched(r) \/ Detached(r)
      /\ CeilingCarried(r)
  BY <1>1 DEF Asked, Decides, Escrow, Coupled, RoomsHold, Holds
<1>3. m.version = d.version /\ d.pending.kind # "none"
  <2>1. CASE r \notin gone
    <3>1. Matched(r)
      BY <1>2, <2>1 DEF Detached
    <3>2. QED
      BY <1>1, <1>2, <3>1 DEF Matched
  <2>2. QED
    BY <2>1
<1>4. m.target = d.pending.target /\ m.cap = d.pending.cap
  BY <1>3 DEF Asked, Recalled
<1>5. d.pending.kind = "grow"
  <2>1. CASE Matched(r)
    BY <1>1, <1>2, <1>3, <1>4, <2>1 DEF Matched
  <2>2. CASE Detached(r)
    BY <1>1, <1>3, <2>2 DEF Detached
  <2>3. QED
    BY <1>2, <2>1, <2>2
<1>6. m.cap \in AppCaps /\ m.cap # 0
  BY <1>2, <1>4, <1>5 DEF CeilingCarried
<1>7. QED
  BY <1>1, <1>6

LEMMA DecideCover ==
  ASSUME Shape, Cover, NEW m \in Message, m.room \in Room, NEW waited \in BOOLEAN,
         StartDecide(m, waited), late' \subseteq late,
         (Decides(allocation[m.room], m.version) /\ m.target > allocation[m.room].allocated)
            => m.cap > 0
  PROVE  Cover'
<1>1. /\ UNCHANGED <<ownerCharge, charge>> /\ work = NoWork
      /\ work'.at \in {"idle", "settle"}
  BY NoWorkTyped DEF StartDecide, PasteFree, Shape, ChargesFit, appVars
<1>2. roomAllocated' = roomAllocated \/ ~Charged
  <2>1. ASSUME Decides(allocation[m.room], m.version), Commit(m),
               ~(MovesCharge(m) /\ ChargedOwner # None), Charged
        PROVE  roomAllocated' = roomAllocated
    <3>1. ~MovesCharge(m) /\ ownerCharge # NoCharge
      BY <2>1, OwnerFacts, RoomFacts
    <3>2. CASE ~Grants(allocation[m.room], roomAllocated, m.target, m.cap)
      BY <2>1, <3>2 DEF Commit
    <3>3. CASE Grants(allocation[m.room], roomAllocated, m.target, m.cap)
      <4>1. /\ roomAllocated' = NextTotal(m)
            /\ NextTotal(m) = roomAllocated - allocation[m.room].allocated + m.target
        BY <2>1, <3>3 DEF Commit, NextTotal
      <4>2. roomAllocated \in Nat /\ allocation[m.room].allocated \in Nat /\ m.target \in Nat
            /\ m.cap \in Nat
        BY OwnerFacts, LedgerFacts, MessageFacts
      <4>3. NextTotal(m) > roomAllocated => m.target > allocation[m.room].allocated
        BY <4>1, <4>2
      <4>4. NextTotal(m) > roomAllocated => m.cap > 0
        BY <2>1, <4>3
      <4>5. NextTotal(m) = roomAllocated
        BY <3>1, <3>3, <4>4 DEF MovesCharge
      <4>6. QED
        BY <4>1, <4>5
    <3>4. QED
      BY <3>2, <3>3
  <2>2. QED
    BY <2>1 DEF StartDecide, appVars
<1>3. Charged => Tracks(ownerCharge, OwnerRecord, roomAllocated')
  BY <1>2 DEF Cover, Tracked
<1>4. QED
  BY <1>1, <1>3, RestCover

LEMMA ServeCover ==
  ASSUME Shape, Escrow, RoomsHold, 0 \notin AppCaps, Cover, NEW r \in Room, Serve(r)
  PROVE  Cover'
<1> DEFINE d == doc[r]
           m == Decide(r, d.version, d.pending.target, d.pending.cap)
<1>1. /\ m \in Message /\ m.room = r /\ m.version = d.version /\ m.target = d.pending.target
      /\ m.cap = d.pending.cap
  BY RoomTyped DEF Decide, Message, Doc, Operation, Shape
<1>2. running[r].at = "call" /\ StartDecide(m, TRUE) /\ late' \subseteq late
  BY DEF Serve, netVars
<1> HIDE DEF m
<1>3. Asked(m, r) /\ d.pending.kind # "none" /\ d.version \in Nat /\ d.live
  BY <1>1, <1>2, LedgerFacts DEF Asked, Creating, HandlerFits
<1>4. Recalled(m, r)
  BY <1>1, <1>3 DEF Recalled, LastVersion
<1>5. (Decides(allocation[r], m.version) /\ m.target > allocation[r].allocated) => m.cap > 0
  BY <1>1, <1>3, <1>4, GrowthCapped
<1>6. QED
  BY <1>1, <1>2, <1>5, DecideCover

\* A record of the owner's cell moves on by one.
LEMMA RecordCover ==
  ASSUME Shape, Shape', Cover, NEW o \in Owner, NEW record \in FenceRecord,
         charge' = [charge EXCEPT ![o] = record], record.version = charge[o].version + 1,
         UNCHANGED <<ownerCharge, roomAllocated>>,
         \A m \in late' : m \in late \/ (m.type = "charge" => Expected(m)),
         (Charged /\ ownerCharge.owner = o) => Tracks(ownerCharge, record, roomAllocated)
  PROVE  /\ Tracked' /\ LateCharges'
         /\ Charged => OwnerRecord'.version >= OwnerRecord.version
<1>1. /\ charge'[o] = record /\ \A p \in Owner \ {o} : charge'[p] = charge[p]
      /\ record.version \in Nat /\ charge[o].version \in Nat
      /\ Charged => ownerCharge.owner \in Owner /\ OwnerRecord.version \in Nat
  BY OwnerFacts DEF FenceRecord
<1>2. Tracked'
  BY <1>1 DEF Cover, Tracked, Charged, OwnerRecord
<1>3. LateCharges'
  <2> SUFFICES ASSUME NEW m \in late', m.type = "charge" PROVE Expected(m)'
    BY DEF LateCharges
  <2>1. Expected(m)
    BY DEF Cover, LateCharges
  <2>2. m.owner \in Owner /\ m.version \in Nat
    BY DEF Shape, NetFits, Message
  <2>3. CASE m.owner = o
    BY <1>1, <2>1, <2>2, <2>3 DEF Expected
  <2>4. CASE m.owner # o
    BY <1>1, <2>1, <2>2, <2>4 DEF Expected
  <2>5. QED
    BY <2>3, <2>4
<1>4. Charged => OwnerRecord' = IF ownerCharge.owner = o THEN record ELSE OwnerRecord
  BY <1>1 DEF OwnerRecord
<1>5. QED
  BY <1>1, <1>2, <1>3, <1>4 DEF OwnerRecord

\* The next charge of the owner is recorded before the owner's cell is asked.
LEMMA ChargingCover ==
  ASSUME Shape, Shape', Cover, ChargesOwner, ownerCharge.settled,
         work.at # "idle", UNCHANGED <<charge, row, late>>,
         NEW target \in Nat, target >= roomAllocated, NEW step \in {"lower", "grow", "shrink"},
         Charging(target, step), step = "grow" => target = NextTotal(work.of)
  PROVE  Cover'
<1> DEFINE e == [owner |-> ChargedOwner, version |-> ownerCharge.version + 1,
                 target |-> target, settled |-> FALSE]
<1>1. /\ ownerCharge' = e /\ ToStep(step) /\ UNCHANGED <<allocation, roomAllocated>>
      /\ ownerCharge.owner = ChargedOwner /\ Charged
  BY DEF Charging, ChargesOwner
<1>2. /\ e.owner = ownerCharge.owner /\ e.version = ownerCharge.version + 1
      /\ e.target = target /\ e.settled = FALSE
  BY <1>1
<1>3. /\ ownerCharge \in OwnerCharge /\ ownerCharge.owner \in Owner /\ OwnerRecord \in FenceRecord
      /\ roomAllocated \in Nat /\ ownerCharge.version \in Nat
  BY <1>1, OwnerFacts
<1>4. e \in OwnerCharge
  BY <1>1, <1>3 DEF OwnerCharge
<1> HIDE DEF e
<1>5. Tracks(e, OwnerRecord, roomAllocated)
  BY <1>1, <1>2, <1>3, <1>4, ChargeDecided DEF Cover, Tracked
<1>6. Tracked'
  BY <1>1, <1>2, <1>5 DEF Tracked, OwnerRecord
<1>7. LateCharges'
  BY <1>1 DEF Cover, LateCharges, Expected
<1>8. work'.at = step /\ work'.of = work.of
  BY <1>1 DEF ToStep, Shape, ChargesFit, Work
<1>9. AtWork'
  <2>1. ChargesOwner'
    BY <1>1, <1>2 DEF ChargesOwner, Charged, ChargedOwner
  <2>2. step = "grow" => ownerCharge'.target = NextTotal(work.of)'
    BY <1>1, <1>2, <1>8 DEF NextTotal
  <2>3. QED
    BY <1>1, <1>2, <1>8, <2>1, <2>2 DEF AtWork
<1>10. QED
  BY <1>1, <1>6, <1>7, <1>9, StepCover

LEMMA SettleCover ==
  ASSUME Shape, Shape', Cover, Settle
  PROVE  Cover'
<1>1. /\ work.at = "settle" /\ UNCHANGED <<charge, row, late, roomAllocated>>
      /\ ChargedOwner \in Owner /\ roomAllocated \in Nat /\ ownerCharge.target \in Nat
      /\ ownerCharge = NoCharge <=> ~Charged
  BY OwnerFacts DEF Settle, SettleOwner, Charging, appVars, netVars
<1>2. ASSUME NEW step \in {"move", "replay", "seed", "body"}, ToStep(step), UNCHANGED appVars,
             step = "move" => Charged /\ ownerCharge.owner # ChargedOwner,
             step = "replay" => ChargesOwner /\ ~ownerCharge.settled,
             step = "body" => ChargesOwner /\ ownerCharge.settled,
             step = "seed" => ~Charged
      PROVE  Cover'
  <2>1. work'.at = step
    BY <1>2 DEF ToStep, Shape, ChargesFit, Work
  <2>2. Tracked' /\ LateCharges'
    BY <1>1, <1>2 DEF Cover, Tracked, LateCharges, Expected, Charged, OwnerRecord, appVars
  <2>3. AtWork'
    BY <1>1, <1>2, <2>1 DEF AtWork, Asking, ChargesOwner, Charged, ChargedOwner, appVars
  <2>4. QED
    BY <1>2, <2>2, <2>3, StepCover
<1>3. CASE ownerCharge # NoCharge /\ ownerCharge.owner # ChargedOwner /\ ToStep("move")
           /\ UNCHANGED appVars
  BY <1>1, <1>2, <1>3
<1>4. ownerCharge.owner = ChargedOwner => ChargesOwner
  BY <1>1, RoomFacts DEF ChargesOwner, Charged
<1>5. CASE ownerCharge.owner = ChargedOwner /\ ~ownerCharge.settled /\ ToStep("replay")
           /\ UNCHANGED appVars
  BY <1>2, <1>4, <1>5
<1>6. CASE ownerCharge = NoCharge /\ ToStep("seed") /\ UNCHANGED appVars
  BY <1>1, <1>2, <1>6
<1>7. CASE ownerCharge.owner = ChargedOwner /\ ownerCharge.settled
           /\ Charging(roomAllocated, "lower")
  BY <1>1, <1>4, <1>7, ChargingCover
<1>8. CASE ownerCharge.owner = ChargedOwner /\ ownerCharge.settled
           /\ ToStep("body") /\ UNCHANGED appVars
  BY <1>2, <1>4, <1>8
<1>9. QED
  BY <1>3, <1>5, <1>6, <1>7, <1>8 DEF Settle, SettleOwner

\* What a decision makes of the app's total.
LEMMA CommitTotal ==
  ASSUME Shape, Escrow, work.at \in {"body", "commit"}, work.of.room # None, Commit(work.of)
  PROVE  roomAllocated' = NextTotal(work.of)
BY DEF Escrow, Deciding, Commit

LEMMA BodyCover ==
  ASSUME Shape, Shape', Escrow, Cover, Body
  PROVE  Cover'
<1>1. /\ work.at = "body" /\ UNCHANGED <<charge, row, late>>
      /\ ChargesOwner /\ ownerCharge.settled
      /\ roomAllocated \in Nat /\ OwnerRecord \in FenceRecord /\ ownerCharge \in OwnerCharge
  BY OwnerFacts DEF Body, netVars, Cover, AtWork, ChargesOwner
<1>2. CASE work' = NoWork /\ UNCHANGED appVars
  <2>1. Charged => Tracks(ownerCharge, OwnerRecord, roomAllocated')
    BY <1>2 DEF appVars, Cover, Tracked
  <2>2. QED
    BY <1>1, <1>2, <2>1, RestCover, NoWorkTyped DEF appVars
<1>3. ASSUME work.of.room # None
      PROVE  NextTotal(work.of) \in Nat
  <2>1. work.of \in Message /\ work.of.room \in Room
    BY <1>3, ChargeTyped DEF Shape
  <2>2. QED
    BY <2>1, NextTotalNat DEF Shape
<1>4. CASE /\ work.of.room # None /\ NextTotal(work.of) > roomAllocated
           /\ Charging(NextTotal(work.of), "grow")
  BY <1>1, <1>3, <1>4, ChargingCover
<1>5. CASE /\ work.of.room # None /\ NextTotal(work.of) < roomAllocated
           /\ Commit(work.of) /\ ToStep("shrunk") /\ UNCHANGED ownerCharge
  <2>1. roomAllocated' = NextTotal(work.of) /\ roomAllocated' \in Nat
    BY <1>1, <1>3, <1>5, CommitTotal
  <2>2. Tracks(ownerCharge, OwnerRecord, roomAllocated')
    BY <1>1, <1>5, <2>1, TotalFollows DEF Cover, Tracked, ChargesOwner
  <2>3. Tracked' /\ LateCharges'
    BY <1>1, <1>5, <2>2 DEF Cover, Tracked, LateCharges, Expected, Charged, OwnerRecord
  <2>4. work'.at = "shrunk"
    BY <1>5 DEF ToStep, Shape, ChargesFit, Work
  <2>5. AtWork'
    BY <1>1, <1>5, <2>4 DEF AtWork, Asking, ChargesOwner, Charged, ChargedOwner
  <2>6. QED
    BY <1>5, <2>3, <2>5, StepCover
<1>6. QED
  BY <1>2, <1>4, <1>5 DEF Body

LEMMA GrowthCover ==
  ASSUME Shape, Shape', Escrow, Cover, Shrunk \/ CommitGrowth \/ RefuseGrowth
  PROVE  Cover'
<1>1. /\ UNCHANGED <<charge, row, late>>
      /\ work.at \in {"shrunk", "commit", "refuse"}
      /\ ChargesOwner /\ ownerCharge.settled
      /\ roomAllocated \in Nat /\ OwnerRecord \in FenceRecord /\ ownerCharge \in OwnerCharge
  BY OwnerFacts DEF Shrunk, CommitGrowth, RefuseGrowth, netVars, Cover, AtWork, ChargesOwner
<1>2. CASE Shrunk
  BY <1>1, <1>2, ChargingCover DEF Shrunk
<1>3. CASE CommitGrowth
  <2>1. work.at = "commit" /\ Commit(work.of) /\ work' = NoWork /\ UNCHANGED ownerCharge
    BY <1>3 DEF CommitGrowth, End
  <2>2. work.of.room # None
    BY <2>1 DEF Shape, ChargesFit
  <2>3. roomAllocated' = ownerCharge.target
    BY <2>1, <2>2, CommitTotal DEF Cover, AtWork
  <2>4. Tracks(ownerCharge, OwnerRecord, roomAllocated')
    BY <1>1, <2>3, OwnerFacts, TotalFollows DEF Cover, Tracked, ChargesOwner
  <2>5. QED
    BY <1>1, <2>1, <2>4, RestCover, NoWorkTyped
<1>4. CASE RefuseGrowth
  <2>1. work' = NoWork /\ UNCHANGED <<ownerCharge, roomAllocated>>
    BY <1>4 DEF RefuseGrowth, End
  <2>2. Charged => Tracks(ownerCharge, OwnerRecord, roomAllocated')
    BY <2>1 DEF Cover, Tracked
  <2>3. QED
    BY <1>1, <2>1, <2>2, RestCover, NoWorkTyped
<1>5. QED
  BY <1>2, <1>3, <1>4

\* The app's lock is released, or taken by an operator; the app has another
\* owner, or forgets a room.
LEMMA OutsideCover ==
  ASSUME Shape, Cover,
         \/ PasteStops \/ ChargeSync \/ \E r \in Room : RoomRemoved(r)
         \/ \E o \in Owner \union {None} : RowChanges(o)
  PROVE  Cover'
<1>1. /\ UNCHANGED <<ownerCharge, charge, roomAllocated, late>>
      /\ work' = NoWork \/ work' = [NoWork EXCEPT !.at = "settle"] \/ (UNCHANGED work /\ PasteFree)
  BY DEF PasteStops, End, ChargeSync, RoomRemoved, RowChanges, appVars, netVars
<1>2. work'.at \in {"idle", "settle"}
  BY <1>1 DEF NoWork, PasteFree
<1>3. Charged => Tracks(ownerCharge, OwnerRecord, roomAllocated')
  BY <1>1 DEF Cover, Tracked
<1>4. QED
  BY <1>1, <1>2, <1>3, RestCover

-----------------------------------------------------------------------------
(* The owner's cell.                                                       *)

LEMMA AskIs ==
  ASSUME Shape, work.at \in Calls
  PROVE  /\ Ask \in Message /\ Ask.owner \in Owner /\ Ask.type \in {"charge", "seed"}
         /\ work.at = "move" =>
               Ask.type = "seed" /\ Ask.owner = ownerCharge.owner /\ Ask.target = 0
         /\ work.at = "seed" =>
               Ask.type = "seed" /\ Ask.owner = ChargedOwner /\ Ask.target = roomAllocated
         /\ work.at \in Asking =>
               /\ Ask.type = "charge" /\ Ask.owner = ChargedOwner
               /\ Ask.version = ownerCharge.version /\ Ask.target = ownerCharge.target
<1> DEFINE to(type, owner, version, target) ==
             [type |-> type, room |-> None, owner |-> owner, version |-> version,
              target |-> target, cap |-> UserCap]
<1>1. Ask \in Message /\ Ask.owner \in Owner /\ Ask.type \in {"charge", "seed"}
  BY AskTyped DEF Shape
<1>2. ASSUME NEW type, NEW owner, NEW version, NEW target
      PROVE  LET m == to(type, owner, version, target) IN
             m.type = type /\ m.owner = owner /\ m.version = version /\ m.target = target
  OBVIOUS
<1>3. /\ work.at = "move" => Ask = to("seed", ownerCharge.owner, 0, 0)
      /\ work.at = "seed" => Ask = to("seed", ChargedOwner, 0, roomAllocated)
      /\ work.at \in Asking =>
            Ask = to("charge", ChargedOwner, ownerCharge.version, ownerCharge.target)
  <2>1. work.at = "move" => Ask = to("seed", ownerCharge.owner, 0, 0)
    BY DEF Ask
  <2>2. work.at = "seed" => Ask = to("seed", ChargedOwner, 0, roomAllocated)
    BY DEF Ask
  <2>3. CASE work.at \in Asking
    <3>1. work.at # "move" /\ work.at # "seed"
      BY <2>3 DEF Asking
    <3>2. QED
      BY <3>1 DEF Ask
  <2>4. QED
    BY <2>1, <2>2, <2>3 DEF Asking
<1> HIDE DEF to
<1>4. QED
  BY <1>1, <1>2, <1>3

\* What a charge or a seed makes of the owner's record.
Took(m, record) ==
    LET current == charge[m.owner] IN
    /\ charge' = [charge EXCEPT ![m.owner] = record]
    /\ record.version = current.version + 1 /\ record.target = m.target
    /\ \/ m.type = "seed" /\ record.allocated = m.target
       \/ /\ m.type = "charge" /\ Decides(current, m.version)
          /\ record.allocated =
                IF Grants(current, current.allocated, m.target, m.cap)
                THEN m.target ELSE current.allocated

LEMMA ChargeMade ==
  ASSUME Shape, NEW m \in Message, m.owner \in Owner, m.type \in {"charge", "seed"},
         RoomCharge(m)
  PROVE  \/ UNCHANGED charge /\ m.type = "charge" /\ ~Decides(charge[m.owner], m.version)
         \/ \E record \in FenceRecord : Took(m, record)
<1> DEFINE current == charge[m.owner]
           seeded == [version |-> current.version + 1, allocated |-> m.target,
                      target |-> m.target]
           decided == Decided(current, current.allocated, m.version, m.target, m.cap)
<1>1. current \in FenceRecord /\ m.target \in Nat /\ m.version \in Nat /\ current.version \in Nat
  BY OwnerFacts DEF FenceRecord, Message
<1>2. CASE m.type = "seed"
  <2>1. charge' = [charge EXCEPT ![m.owner] = seeded]
    BY <1>2 DEF RoomCharge
  <2>2. /\ seeded \in FenceRecord /\ seeded.version = current.version + 1
        /\ seeded.target = m.target /\ seeded.allocated = m.target
    BY <1>1 DEF FenceRecord
  <2> HIDE DEF seeded
  <2>3. QED
    BY <1>2, <2>1, <2>2 DEF Took
<1>3. CASE m.type = "charge" /\ Decides(current, m.version)
  <2>1. charge' = [charge EXCEPT ![m.owner] = decided]
    BY <1>3 DEF RoomCharge
  <2>2. /\ decided \in FenceRecord /\ decided.version = m.version /\ decided.target = m.target
        /\ decided.allocated = IF Grants(current, current.allocated, m.target, m.cap)
                               THEN m.target ELSE current.allocated
    BY <1>1, DecidedTyped DEF Decided
  <2>3. decided.version = current.version + 1
    BY <1>3, <2>2 DEF Decides
  <2> HIDE DEF decided
  <2>4. QED
    BY <1>3, <2>1, <2>2, <2>3 DEF Took
<1>4. CASE m.type = "charge" /\ ~Decides(current, m.version)
  <2>1. charge' = [charge EXCEPT ![m.owner] = current]
    BY <1>4 DEF RoomCharge
  <2>2. charge' = charge
    BY <2>1, OwnerFacts
  <2>3. QED
    BY <1>4, <2>2
<1>5. QED
  BY <1>2, <1>3, <1>4

\* An outstanding charge is taken, or a seed.
LEMMA TookCover ==
  ASSUME Shape, Shape', Cover, NEW m \in Message, m.owner \in Owner,
         m.type = "charge" => Expected(m), NEW record \in FenceRecord, Took(m, record),
         UNCHANGED <<ownerCharge, roomAllocated>>,
         \A n \in late' : n \in late \/ (n.type = "charge" => Expected(n))
  PROVE  /\ Tracked' /\ LateCharges' /\ charge'[m.owner] = record
         /\ Charged => OwnerRecord'.version >= OwnerRecord.version
         /\ m.type = "charge" => /\ Charged /\ ownerCharge.owner = m.owner /\ ~ownerCharge.settled
                                 /\ ownerCharge.version = OwnerRecord.version + 1
                                 /\ ownerCharge.target = m.target
<1> DEFINE current == charge[m.owner]
<1>1. /\ charge' = [charge EXCEPT ![m.owner] = record]
      /\ record.version = current.version + 1 /\ record.target = m.target
      /\ charge'[m.owner] = record
  BY OwnerFacts DEF Took
<1>2. current \in FenceRecord /\ m.version \in Nat /\ m.target \in Nat /\ roomAllocated \in Nat
      /\ ownerCharge \in OwnerCharge
  BY OwnerFacts, MessageFacts
<1>3. m.type = "charge" => /\ Charged /\ ownerCharge.owner = m.owner /\ ~ownerCharge.settled
                           /\ ownerCharge.version = OwnerRecord.version + 1
                           /\ ownerCharge.target = m.target /\ m.version = ownerCharge.version
  BY <1>2, RoomFacts DEF Took, Expected, Decides, Charged, OwnerRecord
<1>4. ASSUME Charged, ownerCharge.owner = m.owner
      PROVE  Tracks(ownerCharge, record, roomAllocated)
  <2>1. Tracks(ownerCharge, current, roomAllocated)
    BY <1>4 DEF Cover, Tracked, OwnerRecord
  <2>2. CASE m.type = "seed"
    <3>1. record.allocated = record.target
      BY <2>2 DEF Took
    <3>2. QED
      BY <1>1, <1>2, <2>1, <3>1, ChargeSeeded
  <2>3. CASE m.type = "charge"
    <3>1. /\ record.allocated \in {ownerCharge.target, current.allocated}
          /\ record.target = ownerCharge.target /\ record.version = ownerCharge.version
          /\ ownerCharge.version = current.version + 1 /\ ~ownerCharge.settled
      BY <1>1, <1>3, <2>3 DEF Took, OwnerRecord
    <3>2. QED
      BY <1>2, <2>1, <3>1, ChargeTaken
  <2>4. QED
    BY <2>2, <2>3 DEF Took
<1>5. QED
  BY <1>1, <1>3, <1>4, RecordCover

\* A delayed charge or seed arrives: what the app was answered stays true.
LEMMA LateChargeCover ==
  ASSUME Shape, Shape', Cover, NEW m \in late, m.type \in {"charge", "seed"}, LateArrives(m)
  PROVE  Cover'
<1>1. /\ RoomCharge(m) /\ late' = late \ {m}
      /\ UNCHANGED <<appVars, work, row>> /\ UNCHANGED <<ownerCharge, roomAllocated, allocation>>
  BY DEF LateArrives, appVars
<1>2. m \in Message /\ m.owner \in Owner /\ (m.type = "charge" => Expected(m))
  BY DEF Shape, NetFits, Cover, LateCharges
<1>3. CASE UNCHANGED charge
  BY <1>1, <1>3, StayCover
<1>4. ASSUME NEW record \in FenceRecord, Took(m, record)
      PROVE  Cover'
  <2>1. /\ Tracked' /\ LateCharges' /\ charge'[m.owner] = record
        /\ Charged => OwnerRecord'.version >= OwnerRecord.version
        /\ m.type = "charge" => /\ Charged /\ ownerCharge.owner = m.owner /\ ~ownerCharge.settled
                                /\ ownerCharge.version = OwnerRecord.version + 1
                                /\ ownerCharge.target = m.target
    BY <1>1, <1>2, <1>4, TookCover
  <2>2. /\ ownerCharge.version \in Nat /\ work.reply.version \in Nat
        /\ Charged => OwnerRecord.version \in Nat /\ OwnerRecord'.version \in Nat
                      /\ ownerCharge.owner \in Owner
        /\ charge[m.owner].version \in Nat /\ record.version \in Nat
        /\ work.at # "idle" => ChargedOwner \in Owner
    BY <1>1, <1>2, OwnerFacts, ChargeTyped DEF Shape, ChargesFit, FenceRecord, OwnerRecord
  <2>3. /\ record.version = charge[m.owner].version + 1
        /\ m.type = "seed" => record.allocated = record.target
        /\ \A o \in Owner : charge'[o] = IF o = m.owner THEN record ELSE charge[o]
    BY <1>2, <1>4, OwnerFacts DEF Took
  <2>4. ChargedOwner' = ChargedOwner /\ (ChargesOwner <=> ChargesOwner')
    BY <1>1 DEF ChargedOwner, ChargesOwner, Charged
  <2>5. AtWork'
    BY <1>1, <2>1, <2>2, <2>4 DEF Cover, AtWork, Charged, NextTotal
  <2>6. Answered'
    <3>1. CASE work.at = "move"
      BY <1>1, <2>1, <2>2, <3>1 DEF Cover, Answered, AtWork, Asking
    <3>2. CASE work.at = "seed"
      <4>1. m.type = "seed" \/ ~Charged
        BY <2>1, <2>2, <3>2 DEF Cover, AtWork
      <4>2. m.type = "seed"
        BY <2>1, <4>1
      <4>3. work.reply.kind = "granted" =>
               SeedTold(work.reply, charge'[ChargedOwner], roomAllocated)
        <5>1. CASE ChargedOwner = m.owner
          BY <2>2, <2>3, <3>2, <4>2, <5>1 DEF Cover, Answered, SeedTold
        <5>2. CASE ChargedOwner # m.owner
          BY <2>2, <2>3, <3>2, <5>2 DEF Cover, Answered
        <5>3. QED
          BY <5>1, <5>2
      <4>4. QED
        BY <1>1, <2>4, <3>2, <4>3 DEF Answered, Asking
    <3>3. CASE work.at \in Asking
      <4>1. Charged /\ ChargeTold(work.reply, ownerCharge, OwnerRecord)
        BY <3>3 DEF Cover, AtWork, Answered, ChargesOwner
      <4>2. ChargeTold(work.reply, ownerCharge, OwnerRecord')
        <5>1. OwnerRecord' = IF ownerCharge.owner = m.owner THEN record ELSE OwnerRecord
          BY <1>1, <2>2, <2>3, <4>1 DEF OwnerRecord
        <5>2. CASE ownerCharge.owner # m.owner
          BY <4>1, <5>1, <5>2
        <5>3. CASE ownerCharge.owner = m.owner
          <6>1. record.version = OwnerRecord.version + 1 /\ OwnerRecord' = record
            BY <2>3, <5>1, <5>3 DEF OwnerRecord
          <6>2. CASE m.type = "charge"
            BY <2>1, <2>2, <4>1, <6>1, <6>2 DEF ChargeTold
          <6>3. CASE m.type = "seed"
            BY <2>2, <4>1, <6>1, <6>3 DEF ChargeTold
          <6>4. QED
            BY <6>2, <6>3
        <5>4. QED
          BY <5>2, <5>3
      <4>3. QED
        BY <1>1, <3>3, <4>2 DEF Cover, Answered, Asking
    <3>4. QED
      BY <1>1, <3>1, <3>2, <3>3 DEF Answered, Asking
  <2>7. QED
    BY <2>1, <2>5, <2>6 DEF Cover
<1>5. QED
  BY <1>1, <1>2, <1>3, <1>4, ChargeMade

\* The outstanding charge is one the owner's cell expects.
LEMMA AskExpected ==
  ASSUME Shape, Cover, work.at \in Calls
  PROVE  Ask.type = "charge" => Expected(Ask)
<1> SUFFICES ASSUME Ask.type = "charge" PROVE Expected(Ask)
  OBVIOUS
<1>1. work.at \in Asking
  BY AskIs DEF Calls, Asking
<1>2. /\ Ask.owner = ownerCharge.owner /\ Ask.version = ownerCharge.version
      /\ Ask.target = ownerCharge.target /\ ~ownerCharge.settled /\ Charged
  BY <1>1, AskIs DEF Cover, AtWork, ChargesOwner
<1>3. ownerCharge.version <= OwnerRecord.version + 1
  BY <1>2 DEF Cover, Tracked, Tracks
<1>4. QED
  BY <1>2, <1>3 DEF Expected, OwnerRecord

\* The owner's cell answers the outstanding call.
LEMMA IdentityCover ==
  ASSUME Shape, Shape', Cover, IdentityAnswers
  PROVE  Cover'
<1> DEFINE a == charge'[Ask.owner]
           reply == [kind |-> ChargeAnswer(Ask), version |-> a.version,
                     allocated |-> a.allocated]
           current == charge[Ask.owner]
<1>1. /\ work.at \in Calls /\ RoomCharge(Ask) /\ work' = [work EXCEPT !.reply = reply]
      /\ UNCHANGED <<ownerCharge, roomAllocated, allocation, row, late>>
  BY DEF IdentityAnswers, appVars, netVars
<1>2. /\ Ask \in Message /\ Ask.owner \in Owner /\ Ask.type \in {"charge", "seed"}
      /\ Ask.type = "charge" => Expected(Ask)
  BY <1>1, AskIs, AskExpected
<1>3. /\ work'.at = work.at /\ work'.of = work.of
      /\ work'.reply.kind = ChargeAnswer(Ask) /\ work'.reply.version = a.version
      /\ work'.reply.allocated = a.allocated
  <2>1. reply.kind = ChargeAnswer(Ask) /\ reply.version = a.version
        /\ reply.allocated = a.allocated
    OBVIOUS
  <2> HIDE DEF reply
  <2>2. QED
    BY <1>1, <2>1 DEF Shape, ChargesFit, Work
<1>4. /\ ownerCharge.version \in Nat /\ ownerCharge.target \in Nat
      /\ Charged => OwnerRecord.version \in Nat /\ ownerCharge.owner \in Owner
      /\ current.version \in Nat /\ current.allocated \in Nat /\ current.target \in Nat
      /\ a.version \in Nat /\ a.allocated \in Nat /\ a.target \in Nat
      /\ Ask.version \in Nat /\ Ask.target \in Nat /\ roomAllocated \in Nat
  BY <1>2, OwnerFacts, MessageFacts DEF Shape, ChargesFit, FenceRecord
<1>5. /\ Tracked' /\ LateCharges'
      /\ Charged => OwnerRecord'.version >= OwnerRecord.version
      /\ \/ UNCHANGED charge /\ Ask.type = "charge" /\ ~Decides(current, Ask.version)
         \/ Took(Ask, a)
  <2>1. CASE UNCHANGED charge /\ Ask.type = "charge" /\ ~Decides(current, Ask.version)
    <3>1. Tracked' /\ LateCharges'
      BY <1>1, <2>1 DEF Cover, Tracked, LateCharges, Expected, Charged, OwnerRecord
    <3>2. QED
      BY <1>1, <1>4, <2>1, <3>1 DEF OwnerRecord
  <2>2. ASSUME NEW record \in FenceRecord, Took(Ask, record)
        PROVE  /\ Tracked' /\ LateCharges'
               /\ Charged => OwnerRecord'.version >= OwnerRecord.version
               /\ Took(Ask, a)
    <3>1. /\ Tracked' /\ LateCharges' /\ a = record
          /\ Charged => OwnerRecord'.version >= OwnerRecord.version
      BY <1>1, <1>2, <2>2, TookCover
    <3>2. QED
      BY <2>2, <3>1
  <2>3. QED
    BY <1>1, <1>2, <2>1, <2>2, ChargeMade
<1>6. ChargedOwner' = ChargedOwner /\ (ChargesOwner <=> ChargesOwner')
  BY <1>1 DEF ChargedOwner, ChargesOwner, Charged
<1>7. Charged => OwnerRecord'.version \in Nat
  BY <1>1, <1>4 DEF Shape, ChargesFit, FenceRecord, OwnerRecord
<1> HIDE DEF reply, a
<1>8. AtWork'
  BY <1>1, <1>3, <1>4, <1>5, <1>6, <1>7 DEF Cover, AtWork, Charged, NextTotal
<1>9. Answered'
  <2>1. CASE work.at = "move"
    <3>1. Ask.type = "seed" /\ Ask.owner = ownerCharge.owner /\ Charged
      BY <1>1, <2>1, AskIs DEF Cover, AtWork
    <3>2. a.version = current.version + 1
      BY <1>5, <3>1 DEF Took
    <3>3. current = OwnerRecord /\ OwnerRecord' = a
      BY <1>1, <3>1 DEF OwnerRecord, a
    <3>4. ownerCharge.version <= OwnerRecord.version + 1
      BY <3>1 DEF Cover, Tracked, Tracks
    <3>5. ownerCharge'.version <= OwnerRecord'.version
      BY <1>1, <1>4, <3>2, <3>3, <3>4
    <3>6. QED
      BY <1>3, <2>1, <3>5 DEF Answered, Asking
  <2>2. CASE work.at = "seed"
    <3>1. Ask.type = "seed" /\ Ask.owner = ChargedOwner /\ Ask.target = roomAllocated
      BY <1>1, <2>2, AskIs
    <3>2. a.allocated = roomAllocated
      BY <1>5, <3>1 DEF Took
    <3>3. charge'[ChargedOwner] = a
      BY <3>1 DEF a
    <3>4. SeedTold(work'.reply, a, roomAllocated)
      BY <1>3, <1>4, <3>2 DEF SeedTold
    <3>5. QED
      BY <1>1, <1>3, <1>6, <2>2, <3>3, <3>4 DEF Answered, Asking
  <2>3. CASE work.at \in Asking
    <3>1. /\ Ask.type = "charge" /\ Ask.owner = ownerCharge.owner
          /\ Ask.version = ownerCharge.version /\ Ask.target = ownerCharge.target
          /\ Charged
      BY <1>1, <2>3, AskIs DEF Cover, AtWork, ChargesOwner
    <3>2. /\ current = OwnerRecord /\ OwnerRecord' = a
          /\ ownerCharge.version <= current.version + 1
      BY <1>1, <3>1 DEF OwnerRecord, a, Cover, Tracked, Tracks
    <3>3. work'.reply.kind = FenceAnswer(current, current.allocated, Ask.version,
                                         Ask.target, Ask.cap)
      BY <1>3, <3>1 DEF ChargeAnswer
    <3>4. CASE Decides(current, Ask.version)
      <4>1. Took(Ask, a)
        BY <1>5, <3>4
      <4>2. /\ a.version = ownerCharge.version /\ a.target = ownerCharge.target
            /\ a.allocated = IF Grants(current, current.allocated, Ask.target, Ask.cap)
                             THEN ownerCharge.target ELSE current.allocated
        BY <3>1, <3>4, <4>1 DEF Took, Decides
      <4>3. work'.reply.kind = IF Grants(current, current.allocated, Ask.target, Ask.cap)
                               THEN "granted" ELSE "refused"
        <5>1. Ask.version # current.version
          BY <1>4, <3>4 DEF Decides
        <5>2. QED
          BY <3>3, <3>4, <5>1 DEF FenceAnswer
      <4>4. ChargeTold(work'.reply, ownerCharge, a)
        BY <1>3, <1>4, <4>2, <4>3 DEF ChargeTold
      <4>5. work'.reply.kind = "granted" => work'.reply.allocated = ownerCharge.target
        BY <1>3, <4>2, <4>3
      <4>6. QED
        BY <1>1, <1>3, <2>3, <3>2, <4>4, <4>5 DEF Answered, Asking
    <3>5. CASE ~Decides(current, Ask.version)
      <4>1. a = current
        BY <1>5, <3>5, <3>1 DEF Took, a
      <4>2. /\ work'.reply.kind = "granted" =>
                  /\ ownerCharge.version = a.version /\ ownerCharge.target = a.target
                  /\ a.target = a.allocated
            /\ work'.reply.kind = "refused" =>
                  ownerCharge.version = a.version /\ ownerCharge.target = a.target
        BY <3>1, <3>3, <3>5, <4>1 DEF FenceAnswer
      <4>3. ownerCharge.version <= a.version
        BY <1>4, <3>1, <3>2, <3>5, <4>1 DEF Decides
      <4>4. ChargeTold(work'.reply, ownerCharge, a)
        BY <1>3, <1>4, <4>2, <4>3 DEF ChargeTold
      <4>5. work'.reply.kind = "granted" => work'.reply.allocated = ownerCharge.target
        BY <1>3, <4>2
      <4>6. QED
        BY <1>1, <1>3, <2>3, <3>2, <4>4, <4>5 DEF Answered, Asking
    <3>6. QED
      BY <3>4, <3>5
  <2>4. QED
    BY <1>1, <2>1, <2>2, <2>3 DEF Calls, Asking
<1>10. QED
  BY <1>5, <1>8, <1>9 DEF Cover

\* The call or its answer is lost; a copy of the call may be delayed.
LEMMA LostCover ==
  ASSUME Shape, Cover, ChargeLost
  PROVE  Cover'
<1> DEFINE reply == [NoReply EXCEPT !.kind = "lost"]
<1>1. /\ work.at \in Calls /\ UNCHANGED <<appVars, row, charge>>
      /\ UNCHANGED <<ownerCharge, roomAllocated, allocation>>
      /\ work' = [work EXCEPT !.reply = reply]
      /\ late' \in {late, late \union {Ask}}
  BY DEF ChargeLost, Delayed, appVars
<1>2. reply.kind = "lost"
  BY DEF NoReply
<1> HIDE DEF reply
<1>3. work'.at = work.at /\ work'.of = work.of /\ work'.reply.kind = "lost"
  BY <1>1, <1>2 DEF Shape, ChargesFit, Work
<1>4. \A m \in late' : m \in late \/ (m.type = "charge" => Expected(m))
  BY <1>1, AskExpected
<1>5. QED
  BY <1>1, <1>3, <1>4, StayCover

\* Once the owner's record has caught up, no delayed charge would be taken.
LEMMA NoneExpected ==
  ASSUME Shape, Cover, Charged => ownerCharge.version <= OwnerRecord.version,
         UNCHANGED <<charge, late>>
  PROVE  LateCharges'
<1> SUFFICES ASSUME NEW m \in late, m.type = "charge" PROVE Expected(m)'
  BY DEF LateCharges
<1>1. Expected(m) /\ m.owner \in Owner /\ m.version \in Nat
  BY DEF Cover, LateCharges, Shape, NetFits, Message
<1>2. charge[m.owner].version \in Nat
  BY <1>1, OwnerFacts DEF FenceRecord
<1>3. m.version # charge[m.owner].version + 1
  <2> SUFFICES ASSUME m.version = charge[m.owner].version + 1 PROVE FALSE
    OBVIOUS
  <2>1. ownerCharge.owner = m.owner /\ ownerCharge.version = charge[m.owner].version + 1
    BY <1>1 DEF Expected
  <2>2. Charged
    BY <1>1, <2>1, RoomFacts DEF Charged
  <2>3. QED
    BY <1>2, <2>1, <2>2 DEF OwnerRecord
<1>4. QED
  BY <1>1, <1>3 DEF Expected

\* The app learns of its charge's fate.
LEMMA LearnedCover ==
  ASSUME Shape, Shape', Cover, work.at \in Asking,
         work.reply.kind \in {"granted", "refused"},
         ownerCharge' = SettledCharge(work.reply.allocated),
         UNCHANGED <<charge, row, late, roomAllocated>>
  PROVE  /\ Tracked' /\ LateCharges' /\ ChargesOwner' /\ ownerCharge'.settled
         /\ ownerCharge'.target = work.reply.allocated
<1> DEFINE e == SettledCharge(work.reply.allocated)
<1>1. /\ ChargesOwner /\ Charged /\ ~ownerCharge.settled
      /\ ChargeTold(work.reply, ownerCharge, OwnerRecord)
      /\ Tracks(ownerCharge, OwnerRecord, roomAllocated)
  BY DEF Cover, AtWork, Answered, Tracked, ChargesOwner
<1>2. /\ ownerCharge \in OwnerCharge /\ OwnerRecord \in FenceRecord /\ work.reply \in Reply
      /\ roomAllocated \in Nat /\ work.reply.allocated \in Nat
  BY <1>1, OwnerFacts, ChargeTyped DEF Shape
<1>3. /\ e \in OwnerCharge /\ e.owner = ownerCharge.owner /\ e.version = ownerCharge.version
      /\ e.target = work.reply.allocated /\ e.settled = TRUE
  BY <1>2 DEF SettledCharge, OwnerCharge
<1>4. ownerCharge' = e
  OBVIOUS
<1> HIDE DEF e
<1>5. Tracks(e, OwnerRecord, roomAllocated)
  BY <1>1, <1>2, <1>3, ChargeLearned
<1>6. Tracked'
  BY <1>3, <1>4, <1>5 DEF Tracked, OwnerRecord
<1>7. ownerCharge.version <= OwnerRecord.version
  BY <1>1, <1>2 DEF ChargeTold, OwnerCharge, FenceRecord
<1>8. LateCharges'
  BY <1>7, NoneExpected
<1>9. ChargesOwner'
  BY <1>1, <1>3, <1>4 DEF ChargesOwner, Charged, ChargedOwner
<1>10. QED
  BY <1>3, <1>4, <1>6, <1>8, <1>9

LEMMA RepliedCover ==
  ASSUME Shape, Shape', Cover, Replied
  PROVE  Cover'
<1>1. /\ work.at \in Calls /\ UNCHANGED <<charge, row, late, allocation, roomAllocated>>
      /\ work.at # "idle"
  BY DEF Replied, End, appVars, netVars, Calls
<1>2. ASSUME NEW step, ToStep(step)
      PROVE  work'.at = step /\ work'.of = work.of
  BY <1>2 DEF ToStep, Shape, ChargesFit, Work
<1>3. ASSUME UNCHANGED ownerCharge
      PROVE  /\ Tracked' /\ LateCharges' /\ OwnerRecord' = OwnerRecord
             /\ Charged => Tracks(ownerCharge, OwnerRecord, roomAllocated')
  BY <1>1, <1>3 DEF Cover, Tracked, LateCharges, Expected, Charged, OwnerRecord
<1>4. ASSUME NEW step \in {"settle", "body", "commit", "refuse"}, ToStep(step),
             work.at \in Asking, work.reply.kind \in {"granted", "refused"},
             ownerCharge' = SettledCharge(work.reply.allocated),
             step = "commit" => work.at = "grow" /\ work.reply.kind = "granted"
      PROVE  Cover'
  <2>1. /\ Tracked' /\ LateCharges' /\ ChargesOwner' /\ ownerCharge'.settled
        /\ ownerCharge'.target = work.reply.allocated
    BY <1>1, <1>4, LearnedCover
  <2>2. step = "commit" => ownerCharge'.target = NextTotal(work.of)
    BY <1>4, <2>1 DEF Cover, AtWork, Answered
  <2>3. NextTotal(work.of)' = NextTotal(work.of)
    BY <1>1, <1>2, <1>4 DEF NextTotal
  <2>4. AtWork'
    BY <1>2, <1>4, <2>1, <2>2, <2>3 DEF AtWork, Asking
  <2>5. QED
    BY <1>4, <2>1, <2>4, StepCover
<1>5. ASSUME ToStep("seed"), UNCHANGED ownerCharge,
             Charged => ownerCharge.version <= OwnerRecord.version
      PROVE  Cover'
  <2>1. AtWork'
    BY <1>2, <1>3, <1>5 DEF AtWork, Asking, Charged
  <2>2. QED
    BY <1>3, <1>5, <2>1, StepCover
<1>6. CASE work.at = "move" /\ work.reply.kind = "granted" /\ ToStep("seed") /\ UNCHANGED appVars
  BY <1>5, <1>6 DEF Cover, Answered, appVars
<1>7. CASE /\ work.at = "seed" /\ work.reply.kind = "granted" /\ ToStep("body")
           /\ ownerCharge' = [owner |-> ChargedOwner, version |-> work.reply.version,
                              target |-> roomAllocated, settled |-> TRUE]
  <2> DEFINE e == [owner |-> ChargedOwner, version |-> work.reply.version,
                   target |-> roomAllocated, settled |-> TRUE]
  <2>1. /\ ChargedOwner \in Owner /\ work.reply \in Reply /\ work.reply.version \in Nat
        /\ roomAllocated \in Nat /\ charge[ChargedOwner] \in FenceRecord
    BY <1>1, OwnerFacts, ChargeTyped DEF Shape
  <2>2. /\ e \in OwnerCharge /\ e.owner = ChargedOwner /\ e.version = work.reply.version
        /\ e.target = roomAllocated /\ e.settled = TRUE /\ ownerCharge' = e
    BY <1>7, <2>1 DEF OwnerCharge
  <2> HIDE DEF e
  <2>3. SeedTold(work.reply, charge[ChargedOwner], roomAllocated)
    BY <1>7 DEF Cover, Answered
  <2>4. Tracks(e, charge[ChargedOwner], roomAllocated)
    BY <2>1, <2>2, <2>3, SeedLearned
  <2>5. Tracked'
    BY <1>1, <2>2, <2>4 DEF Tracked, OwnerRecord
  <2>6. Charged => ownerCharge.version <= OwnerRecord.version
    BY <1>7 DEF Cover, AtWork
  <2>7. LateCharges'
    BY <1>1, <2>6, NoneExpected
  <2>8. ChargesOwner'
    BY <1>1, <2>1, <2>2, RoomFacts DEF ChargesOwner, Charged, ChargedOwner
  <2>9. AtWork'
    BY <1>2, <1>7, <2>2, <2>8 DEF AtWork, Asking
  <2>10. QED
    BY <1>7, <2>5, <2>7, <2>9, StepCover
<1>8. CASE /\ work.at = "replay" /\ work.reply.kind \in {"granted", "refused"}
           /\ ownerCharge' = SettledCharge(work.reply.allocated) /\ ToStep("settle")
  BY <1>4, <1>8 DEF Asking
<1>9. CASE work.at = "replay" /\ work.reply.kind = "conflict" /\ ToStep("seed")
           /\ UNCHANGED appVars
  BY <1>5, <1>9 DEF Cover, Answered, ChargeTold, Asking, appVars
<1>10. CASE /\ work.at = "lower" /\ work.reply.kind \in {"granted", "refused"}
            /\ ownerCharge' = SettledCharge(work.reply.allocated) /\ ToStep("body")
  BY <1>4, <1>10 DEF Asking
<1>11. CASE /\ work.at = "grow" /\ work.reply.kind \in {"granted", "refused"}
            /\ ownerCharge' = SettledCharge(work.reply.allocated)
            /\ ToStep(IF ReplyGranted THEN "commit" ELSE "refuse")
  <2>1. CASE ReplyGranted
    BY <1>4, <1>11, <2>1 DEF Asking, ReplyGranted
  <2>2. CASE ~ReplyGranted
    BY <1>4, <1>11, <2>2 DEF Asking
  <2>3. QED
    BY <2>1, <2>2
<1>12. ASSUME work' = NoWork, UNCHANGED ownerCharge
       PROVE  Cover'
  BY <1>1, <1>3, <1>12, RestCover, NoWorkTyped
<1>13. CASE /\ work.at = "shrink" /\ work' = NoWork
            /\ \/ /\ work.reply.kind \in {"granted", "refused"}
                  /\ ownerCharge' = SettledCharge(work.reply.allocated)
               \/ UNCHANGED ownerCharge
  <2>1. CASE /\ work.reply.kind \in {"granted", "refused"}
             /\ ownerCharge' = SettledCharge(work.reply.allocated)
    <3>1. Tracked' /\ LateCharges'
      BY <1>1, <1>13, <2>1, LearnedCover DEF Asking
    <3>2. AtWork' /\ Answered'
      BY <1>13, NoWorkTyped DEF AtWork, Answered, Asking
    <3>3. QED
      BY <3>1, <3>2 DEF Cover
  <2>2. QED
    BY <1>12, <1>13, <2>1
<1>14. CASE End("unavailable") /\ UNCHANGED appVars
  BY <1>12, <1>14 DEF End, appVars
<1>15. QED
  BY <1>6, <1>7, <1>8, <1>9, <1>10, <1>11, <1>13, <1>14 DEF Replied, End

\* The rooms' own steps, and delayed records, leave the charge alone.
LEMMA RoomCover ==
  ASSUME Shape, Cover, NEW r \in Room,
         \/ RoomRequest(r) \/ RoomLocal(r) \/ Alarm(r) \/ RoomEnds(r)
         \/ Preflight(r) \/ RoomCreated(r)
  PROVE  Cover'
<1>1. UNCHANGED <<ownerCharge, charge, row, allocation, roomAllocated>>
  BY DEF RoomRequest, Create, Put, Del, Remove, Arrive, RoomLocal, SaveRoom, GoOn, Granted,
         Refused, Unavailable, DropRoom, Alarm, RoomEnds, Preflight, RoomCreated, RecordRoom,
         appVars
<1>2. work'.at = work.at /\ work'.of = work.of /\ work'.reply = work.reply
  <2>1. UNCHANGED work \/ work' = [work EXCEPT !.waited = FALSE]
    BY DEF RoomRequest, Create, Put, Del, Remove, Arrive, RoomLocal, SaveRoom, GoOn, Granted,
           Refused, Unavailable, DropRoom, Alarm, RoomEnds, Preflight, RoomCreated, RecordRoom
  <2>2. QED
    BY <2>1 DEF Shape, ChargesFit, Work
<1>3. \A m \in late' : m \in late \/ m.type # "charge"
  <2>1. UNCHANGED late \/ RoomEnds(r)
    BY DEF RoomRequest, Create, Put, Del, Remove, Arrive, RoomLocal, SaveRoom, GoOn, Granted,
           Refused, Unavailable, DropRoom, Alarm, Preflight, RoomCreated, RecordRoom, netVars
  <2>2. /\ [NoMessage EXCEPT !.type = "record", !.room = r].type = "record"
        /\ Decide(r, doc[r].version, doc[r].pending.target, doc[r].pending.cap).type = "decide"
    BY DEF NoMessage, Decide
  <2>3. QED
    BY <2>1, <2>2 DEF RoomEnds, Delayed
<1>4. QED
  BY <1>1, <1>2, <1>3, StayCover

-----------------------------------------------------------------------------
(* The removed rooms.                                                      *)

LEMMA DepartedKept ==
  ASSUME Departed, gone \subseteq gone',
         \A s \in Room : doc[s].live => doc'[s].live \/ s \in gone',
         \A s \in Room : running'[s].at = "gone" => running[s].at = "gone" \/ s \in gone',
         \A m \in Message, s \in Room : Underway(m, s)' => Underway(m, s) \/ doc[s].live,
         \A m \in late' : m \in late \/ m.type \in LateKinds
  PROVE  Departed'
<1>1. \A s \in Room : running'[s].at = "gone" => s \in gone'
  BY DEF Departed
<1>2. \A s \in Room, m \in Message : Underway(m, s)' => doc'[s].live \/ s \in gone'
  BY DEF Departed
<1>3. \A m \in late' : m.type \in LateKinds
  BY DEF Departed
<1>4. QED
  BY <1>1, <1>2, <1>3 DEF Departed

\* A handler takes a step.
LEMMA AsideDeparted ==
  ASSUME Departed, UNCHANGED <<gone, work, late>>, NEW r \in Room,
         doc[r].live => doc'[r].live \/ r \in gone, running'[r].at # "gone",
         \A s \in Room \ {r} : doc'[s] = doc[s] /\ running'[s] = running[s]
  PROVE  Departed'
<1>1. \A m \in Message, s \in Room : Underway(m, s)' => Underway(m, s)
  BY DEF Underway
<1>2. \A s \in Room : doc[s].live => doc'[s].live \/ s \in gone'
  OBVIOUS
<1>3. \A s \in Room : running'[s].at = "gone" => running[s].at = "gone" \/ s \in gone'
  OBVIOUS
<1>4. QED
  BY <1>1, <1>2, <1>3, DepartedKept

LEMMA PerformDeparted ==
  ASSUME Shape, Departed, UNCHANGED <<gone, work, late>>, NEW r \in Room, doc[r].live,
         NEW q \in Request, Perform(r, q), q.kind \in {"put", "del"} => q.key \in Key
  PROVE  Departed'
<1>1. /\ running'[r].at # "gone" /\ doc'[r].live
      /\ \A s \in Room \ {r} : doc'[s] = doc[s] /\ running'[s] = running[s]
  BY PerformDoes DEF Shape, Asks
<1>2. QED
  BY <1>1, AsideDeparted

LEMMA RequestDeparted ==
  ASSUME Shape, Departed, NEW r \in Room, RoomRequest(r)
  PROVE  Departed'
<1>1. UNCHANGED <<gone, work, late>>
  BY DEF RoomRequest, Create, Put, Del, Remove, Arrive, ledgerVars, netVars
<1>2. ASSUME NEW cap \in AppCaps, Create(r, cap)
      PROVE  Departed'
  <2>1. /\ UNCHANGED doc /\ running'[r].at # "gone"
        /\ \A s \in Room \ {r} : running'[s] = running[s]
    BY <1>2 DEF Create, Shape, RoomsFit
  <2>2. QED
    BY <1>1, <2>1, AsideDeparted
<1>3. ASSUME NEW q \in Request, Arrive(r, q), q.kind \in {"put", "del"} => q.key \in Key
      PROVE  Departed'
  <2>1. doc[r].live
    BY <1>3 DEF Arrive
  <2>2. CASE RoomStep(r, doc[r], "call", q)
    BY <1>1, <2>1, <2>2, StepEffect, AsideDeparted DEF Shape
  <2>3. CASE Perform(r, q)
    BY <1>1, <1>3, <2>1, <2>3, PerformDeparted
  <2>4. QED
    BY <1>3, <2>2, <2>3 DEF Arrive
<1>4. ASSUME NEW k \in Key, NEW n \in Sizes, NEW cap \in AppCaps,
             Arrive(r, [kind |-> "put", key |-> k, size |-> n, cap |-> cap])
      PROVE  Departed'
  <2> DEFINE q == [kind |-> "put", key |-> k, size |-> n, cap |-> cap]
  <2>1. q \in Request /\ q.key \in Key
    BY RoomFacts DEF Request
  <2> HIDE DEF q
  <2>2. QED
    BY <1>3, <1>4, <2>1 DEF q
<1>5. ASSUME NEW k \in Key, Arrive(r, [kind |-> "del", key |-> k, size |-> 0, cap |-> 0])
      PROVE  Departed'
  <2> DEFINE q == [kind |-> "del", key |-> k, size |-> 0, cap |-> 0]
  <2>1. q \in Request /\ q.key \in Key
    BY DEF Request
  <2> HIDE DEF q
  <2>2. QED
    BY <1>3, <1>5, <2>1 DEF q
<1>6. CASE Remove(r)
  <2> DEFINE q == [NoRequest EXCEPT !.kind = "remove"]
  <2>1. q \in Request /\ q.kind = "remove"
    BY DEF Request, NoRequest
  <2>2. Arrive(r, q)
    BY <1>6 DEF Remove
  <2> HIDE DEF q
  <2>3. QED
    BY <1>3, <2>1, <2>2
<1>7. QED
  BY <1>2, <1>4, <1>5, <1>6 DEF RoomRequest, Put, Del

LEMMA LocalDeparted ==
  ASSUME Shape, Departed, NEW r \in Room, RoomLocal(r) \/ Alarm(r)
  PROVE  Departed'
<1>1. UNCHANGED <<gone, work, late>>
  BY DEF RoomLocal, SaveRoom, GoOn, Granted, Refused, Unavailable, DropRoom, Alarm,
         ledgerVars, netVars
<1>2. /\ HandlerFits(doc[r], running[r]) /\ running[r].then \in Request
      /\ doc[r] \in Doc /\ DocFits(doc[r])
  BY LedgerFacts, RoomTyped DEF Shape
<1>3. CASE SaveRoom(r)
  <2>1. /\ running[r].at = "save" /\ running'[r].at # "gone" /\ ~doc[r].live
        /\ \A s \in Room \ {r} : doc'[s] = doc[s] /\ running'[s] = running[s]
    BY <1>2, <1>3 DEF SaveRoom, Shape, RoomsFit, At, HandlerFits
  <2>2. QED
    BY <1>1, <2>1, AsideDeparted
<1>4. ASSUME NEW d, doc[r].live => d.live \/ r \in gone, NEW then, NEW step, step # "gone",
             RoomStep(r, d, step, then)
      PROVE  Departed'
  BY <1>1, <1>4, StepEffect, AsideDeparted DEF Shape
<1>5. CASE GoOn(r)
  <2>1. doc[r].live /\ running[r].at = "next"
    BY <1>2, <1>5 DEF GoOn, HandlerFits
  <2>2. CASE Perform(r, running[r].then)
    BY <1>1, <1>2, <2>1, <2>2, PerformDeparted DEF HandlerFits
  <2>3. QED
    BY <1>4, <1>5, <2>1, <2>2 DEF GoOn
<1>6. CASE Alarm(r) \/ Unavailable(r)
  BY <1>4, <1>6 DEF Alarm, Unavailable, RetryLater
<1>7. CASE Granted(r)
  <2> DEFINE op == doc[r].pending
             a == ApplyPut(doc[r], op.key, op.size, op.target)
             d == Cleared(IF op.kind = "grow" THEN a ELSE doc[r])
  <2>1. running[r].at = "granted" /\ RoomStep(r, d, Settled(r), running[r].then)
    BY <1>7 DEF Granted
  <2>2. doc[r].live /\ op.kind # "none"
    BY <1>2, <2>1 DEF HandlerFits
  <2>3. d.live
    BY <1>2, <2>2 DEF Cleared, ApplyPut, Doc
  <2> HIDE DEF d
  <2>4. QED
    BY <1>4, <2>1, <2>3 DEF Settled
<1>8. CASE Refused(r)
  <2>1. Cleared(doc[r]).live = doc[r].live
    BY <1>2 DEF Cleared, Doc
  <2>2. QED
    BY <1>4, <1>8, <2>1 DEF Refused, Settled
<1>9. CASE DropRoom(r)
  <2>1. r \in gone
    BY <1>9 DEF DropRoom, Departed
  <2>2. QED
    BY <1>4, <1>9, <2>1 DEF DropRoom
<1>10. QED
  BY <1>3, <1>5, <1>6, <1>7, <1>8, <1>9 DEF RoomLocal

\* A decision starts of a room that is there, or was underway.
LEMMA DecideDeparted ==
  ASSUME Shape, Departed, NEW m \in Message, m.room \in Room, NEW waited \in BOOLEAN,
         StartDecide(m, waited), late' \subseteq late,
         doc[m.room].live \/ Underway(m, m.room)
  PROVE  Departed'
<1>1. UNCHANGED <<doc, gone>> /\ \A s \in Room : running'[s].at = "gone" => running[s].at = "gone"
  <2>1. UNCHANGED running \/ \E answer : Tell(waited, m.room, answer)
    BY DEF StartDecide
  <2>2. QED
    BY <2>1 DEF StartDecide, Tell, Shape, RoomsFit, Running, ledgerVars
<1>2. \/ UNCHANGED work
      \/ work' = [at |-> "settle", of |-> m, waited |-> waited, reply |-> NoReply]
  BY DEF StartDecide
<1>3. \A n \in Message, s \in Room : Underway(n, s)' => Underway(n, s) \/ doc[s].live
  BY <1>2 DEF Underway
<1>4. QED
  BY <1>1, <1>3, DepartedKept

LEMMA CallsDeparted ==
  ASSUME Shape, Departed, NEW r \in Room, RoomCalls(r) \/ RoomEnds(r)
  PROVE  Departed'
<1>1. CASE Preflight(r) \/ RoomCreated(r)
  <2>1. /\ UNCHANGED <<doc, gone, work, late>> /\ running'[r].at # "gone"
        /\ \A s \in Room \ {r} : running'[s] = running[s]
    BY <1>1 DEF Preflight, RoomCreated, RecordRoom, Shape, RoomsFit, Running, ledgerVars,
                netVars
  <2>2. QED
    BY <2>1, AsideDeparted
<1>2. CASE Serve(r)
  <2> DEFINE d == doc[r]
             m == Decide(r, d.version, d.pending.target, d.pending.cap)
  <2>1. m \in Message /\ m.room = r
    BY RoomTyped DEF Decide, Message, Doc, Operation, Shape
  <2>2. running[r].at = "call" /\ StartDecide(m, TRUE) /\ late' \subseteq late
    BY <1>2 DEF Serve, netVars
  <2> HIDE DEF m
  <2>3. d.live
    BY <2>2, LedgerFacts DEF HandlerFits
  <2>4. QED
    BY <2>1, <2>2, <2>3, DecideDeparted
<1>3. CASE RoomRemoved(r)
  <2>1. /\ UNCHANGED <<doc, work, late>> /\ gone \subseteq gone'
        /\ \A s \in Room : running'[s].at = "gone" => running[s].at = "gone" \/ s \in gone'
    BY <1>3 DEF RoomRemoved, AlreadyGone, Shape, RoomsFit, Running, At, netVars
  <2>2. \A m \in Message, s \in Room : Underway(m, s)' => Underway(m, s)
    BY <2>1 DEF Underway
  <2>3. QED
    BY <2>1, <2>2, DepartedKept
<1>4. CASE RoomEnds(r)
  <2> DEFINE m == Decide(r, doc[r].version, doc[r].pending.target, doc[r].pending.cap)
             n == [NoMessage EXCEPT !.type = "record", !.room = r]
             served == work.waited /\ work.of.room = r
  <2>1. /\ UNCHANGED <<doc, gone>>
        /\ \A s \in Room : running'[s].at = "gone" => running[s].at = "gone"
    BY <1>4 DEF RoomEnds, Shape, RoomsFit, At, ledgerVars
  <2>2. work'.at = work.at /\ work'.of = work.of
    <3>1. CASE served
      BY <1>4, <3>1 DEF RoomEnds, Shape, ChargesFit, Work
    <3>2. CASE ~served
      BY <1>4, <3>2 DEF RoomEnds
    <3>3. QED
      BY <3>1, <3>2
  <2>3. m.room = r /\ n.type = "record"
    BY DEF Decide, NoMessage
  <2>4. \A k \in late' : \/ k \in late
                         \/ k = m /\ running[r].at = "call" /\ k.type \in LateKinds
                         \/ k = n /\ k.type \in LateKinds
    BY <1>4 DEF RoomEnds, Delayed
  <2> HIDE DEF m, n
  <2>5. running[r].at = "call" => doc[r].live
    BY LedgerFacts DEF HandlerFits
  <2>6. \A k \in Message, s \in Room : Underway(k, s)' => Underway(k, s) \/ doc[s].live
    BY <2>2, <2>3, <2>4, <2>5 DEF Underway
  <2>7. QED
    BY <2>1, <2>4, <2>6, DepartedKept
<1>5. QED
  BY <1>1, <1>2, <1>3, <1>4 DEF RoomCalls

LEMMA AppDeparted ==
  ASSUME Shape, Departed,
         \/ PasteStep \/ IdentityAnswers \/ ChargeSync \/ ChargeLost \/ PasteStops
         \/ \E o \in Owner \union {None} : RowChanges(o)
  PROVE  Departed'
<1>1. UNCHANGED <<doc, gone>>
  BY DEF PasteStep, Settle, Body, Shrunk, CommitGrowth, RefuseGrowth, Replied, PasteStops,
         ChargeSync, IdentityAnswers, ChargeLost, RowChanges, roomVars, ledgerVars
<1>2. \A s \in Room : running'[s].at = "gone" => running[s].at = "gone"
  <2>1. UNCHANGED running \/ \E answer : Tell(work.waited, work.of.room, answer)
    BY DEF PasteStep, Settle, Body, Shrunk, CommitGrowth, RefuseGrowth, Replied, PasteStops,
           ChargeSync, IdentityAnswers, ChargeLost, RowChanges, End, roomVars
  <2>2. work.waited => work.of.room \in Room
    BY DEF Shape, Waits
  <2>3. QED
    BY <2>1, <2>2, TellAt
<1>3. \/ UNCHANGED work
      \/ work.at # "idle" /\ work'.of = work.of
      \/ work' = NoWork
      \/ work'.of.room = None
  <2>1. \/ UNCHANGED work
        \/ work.at # "idle" /\ \E step : ToStep(step)
        \/ work.at # "idle" /\ \E reply : work' = [work EXCEPT !.reply = reply]
        \/ work' = NoWork
        \/ work' = [NoWork EXCEPT !.at = "settle"]
    BY DEF PasteStep, Settle, SettleOwner, Charging, Body, Shrunk, CommitGrowth, RefuseGrowth,
           Replied, PasteStops, ChargeSync, End, IdentityAnswers, ChargeLost, RowChanges, Calls
  <2>2. work \in Work /\ [NoWork EXCEPT !.at = "settle"].of.room = None
    BY DEF Shape, ChargesFit, NoWork, NoMessage
  <2>3. QED
    BY <2>1, <2>2 DEF ToStep, Work
<1>4. \A m \in late' : m \in late \/ (m.type \in LateKinds /\ m.type # "decide")
  <2>1. UNCHANGED late \/ (/\ work.at \in Calls /\ Ask.type \in LateKinds
                           /\ late' = late \union {Ask})
    BY DEF PasteStep, Settle, Body, Shrunk, CommitGrowth, RefuseGrowth, Replied, PasteStops,
           ChargeSync, IdentityAnswers, ChargeLost, RowChanges, Delayed, netVars
  <2>2. work.at \in Calls => Ask.type \in {"charge", "seed"}
    BY AskTyped DEF Shape
  <2>3. QED
    BY <2>1, <2>2
<1>5. \A m \in Message, s \in Room : Underway(m, s)' => Underway(m, s)
  BY <1>3, <1>4, NoWorkTyped, RoomFacts DEF Underway
<1>6. QED
  BY <1>1, <1>2, <1>4, <1>5, DepartedKept

LEMMA LateDeparted ==
  ASSUME Shape, Departed, NEW m \in late, LateArrives(m)
  PROVE  Departed'
<1>1. late' \subseteq late /\ m \in Message /\ (m.type = "decide" => m.room \in Room)
  BY DEF LateArrives, Shape, NetFits
<1>2. CASE m.type = "decide" /\ StartDecide(m, FALSE)
  BY <1>1, <1>2, DecideDeparted DEF Underway
<1>3. CASE UNCHANGED <<doc, running, gone, work>>
  <2>1. \A n \in Message, s \in Room : Underway(n, s)' => Underway(n, s)
    BY <1>1, <1>3 DEF Underway
  <2>2. QED
    BY <1>1, <1>3, <2>1, DepartedKept
<1>4. QED
  BY <1>2, <1>3 DEF LateArrives, RecordRoom, roomVars, ledgerVars

LEMMA NextDeparted == Shape /\ Departed /\ [Next]_vars => Departed'
<1> SUFFICES ASSUME Shape, Departed, [Next]_vars PROVE Departed'
  OBVIOUS
<1>1. CASE UNCHANGED vars
  <2>1. UNCHANGED <<doc, running, gone, work, late>>
    BY <1>1 DEF vars, roomVars, ledgerVars, netVars
  <2>2. \A m \in Message, s \in Room : Underway(m, s)' => Underway(m, s)
    BY <2>1 DEF Underway
  <2>3. QED
    BY <2>1, <2>2, DepartedKept
<1>2. QED
  BY <1>1, RequestDeparted, LocalDeparted, CallsDeparted, AppDeparted, LateDeparted DEF Next

-----------------------------------------------------------------------------

\* A delayed decision is of a room that is there, or one removed.
LEMMA LateDecideCover ==
  ASSUME Shape, Escrow, RoomsHold, 0 \notin AppCaps, Departed, Timely, Cover,
         NEW m \in late, m.type = "decide", LateArrives(m)
  PROVE  Cover'
<1>1. /\ m \in Message /\ m.room \in Room /\ Underway(m, m.room)
      /\ StartDecide(m, FALSE) /\ late' \subseteq late
  BY DEF LateArrives, Shape, NetFits, Underway
<1>2. gone = {} /\ doc[m.room].live
  BY <1>1 DEF Departed, Timely
<1>3. Asked(m, m.room) /\ Recalled(m, m.room)
  BY <1>1, <1>2 DEF Escrow, OnlyAsked, RoomsHold, Holds, Remembers
<1>4. (Decides(allocation[m.room], m.version) /\ m.target > allocation[m.room].allocated)
         => m.cap > 0
  BY <1>1, <1>2, <1>3, GrowthCapped
<1>5. QED
  BY <1>1, <1>4, DecideCover

LEMMA InitCover == Init => Departed /\ Cover
<1> SUFFICES ASSUME Init PROVE Departed /\ Cover
  OBVIOUS
<1>1. Departed
  BY NoWorkTyped DEF Init, Departed, Underway, At
<1>2. Cover
  BY NoWorkTyped DEF Init, Cover, Tracked, Charged, NoCharge, LateCharges, AtWork, Answered,
                     Asking
<1>3. QED
  BY <1>1, <1>2

LEMMA NextCover ==
  ASSUME Shape, Shape', Escrow, RoomsHold, 0 \notin AppCaps, Departed, Timely, Cover, [Next]_vars
  PROVE  Cover'
<1>1. CASE UNCHANGED vars
  BY <1>1, StayCover DEF vars, appVars, netVars
<1>2. ASSUME NEW r \in Room, RoomRequest(r) \/ RoomLocal(r) \/ Alarm(r) \/ RoomEnds(r)
      PROVE  Cover'
  BY <1>2, RoomCover
<1>3. ASSUME NEW r \in Room, RoomCalls(r) PROVE Cover'
  BY <1>3, RoomCover, ServeCover, OutsideCover DEF RoomCalls
<1>4. CASE PasteStep
  BY <1>4, SettleCover, BodyCover, GrowthCover, RepliedCover DEF PasteStep
<1>5. CASE IdentityAnswers \/ ChargeLost
  BY <1>5, IdentityCover, LostCover
<1>6. CASE ChargeSync \/ PasteStops \/ \E o \in Owner \union {None} : RowChanges(o)
  BY <1>6, OutsideCover
<1>7. ASSUME NEW m \in late, LateArrives(m) PROVE Cover'
  <2>1. CASE m.type = "record"
    <3>1. UNCHANGED <<ownerCharge, charge, row, allocation, roomAllocated, work>>
          /\ late' \subseteq late
      BY <1>7, <2>1 DEF LateArrives, RecordRoom, appVars
    <3>2. QED
      BY <3>1, StayCover
  <2>2. m \in Message
    BY DEF Shape, NetFits
  <2>3. QED
    BY <1>7, <2>1, <2>2, LateDecideCover, LateChargeCover DEF Message
<1>8. QED
  BY <1>1, <1>2, <1>3, <1>4, <1>5, <1>6, <1>7 DEF Next

LEMMA TimelyBefore == Timely' /\ [Next]_vars => Timely
<1> SUFFICES ASSUME [Next]_vars PROVE gone \subseteq gone'
  BY DEF Timely
<1>1. ASSUME NEW r \in Room, RoomRequest(r) \/ RoomLocal(r) \/ Alarm(r) \/ RoomEnds(r)
      PROVE  gone' = gone
  BY <1>1 DEF RoomRequest, Create, Put, Del, Remove, Arrive, RoomLocal, SaveRoom, GoOn, Granted,
              Refused, Unavailable, DropRoom, Alarm, RoomEnds, ledgerVars
<1>2. ASSUME NEW r \in Room, RoomCalls(r) PROVE gone \subseteq gone'
  BY <1>2 DEF RoomCalls, Preflight, RoomCreated, RecordRoom, Serve, StartDecide, RoomRemoved,
              ledgerVars
<1>3. CASE PasteStep
  BY <1>3 DEF PasteStep, Settle, Body, Shrunk, CommitGrowth, RefuseGrowth, Replied, ledgerVars
<1>4. CASE IdentityAnswers \/ ChargeLost \/ ChargeSync \/ PasteStops
           \/ \E o \in Owner \union {None} : RowChanges(o)
  BY <1>4 DEF IdentityAnswers, ChargeLost, ChargeSync, PasteStops, RowChanges, ledgerVars
<1>5. ASSUME NEW m \in late, LateArrives(m) PROVE gone' = gone
  BY <1>5 DEF LateArrives, StartDecide, RecordRoom, ledgerVars
<1>6. CASE UNCHANGED vars
  BY <1>6 DEF vars, ledgerVars
<1>7. QED
  BY <1>1, <1>2, <1>3, <1>4, <1>5, <1>6 DEF Next

\* The owner's charge is tracked as long as no decision of a removed room can
\* arrive late.
THEOREM OwnerTracked ==
  ASSUME 0 \notin AppCaps
  PROVE  Spec => [](Timely => Cover)
<1>1. Init => Departed /\ (Timely => Cover)
  BY InitCover
<1>2. Shape /\ Escrow /\ RoomsHold /\ Shape' /\ Departed /\ (Timely => Cover) /\ [Next]_vars
         => Departed' /\ (Timely => Cover)'
  <2> SUFFICES ASSUME Shape, Shape', Escrow, RoomsHold, Departed, Timely => Cover, [Next]_vars
               PROVE  Departed' /\ (Timely' => Cover')
    OBVIOUS
  <2>1. Departed'
    BY NextDeparted
  <2>2. Timely' => Cover'
    BY TimelyBefore, NextCover
  <2>3. QED
    BY <2>1, <2>2
<1>3. QED
  BY <1>1, <1>2, CeilingsHold, PTL DEF Spec

LEMMA CoverCovers == Shape /\ Cover => OwnerCovers
<1> SUFFICES ASSUME Shape, Cover, Charged, OwnerKnown PROVE OwnerCovered
  BY OwnerFacts DEF OwnerCovers
<1>1. Tracks(ownerCharge, OwnerRecord, roomAllocated)
  BY DEF Cover, Tracked
<1>2. /\ ownerCharge.version \in Nat /\ OwnerRecord.version \in Nat
      /\ roomAllocated \in Nat /\ OwnerRecord.allocated \in Nat
  BY OwnerFacts DEF FenceRecord
<1>3. \/ OwnerRecord.version < ownerCharge.version
      \/ OwnerRecord.version = ownerCharge.version /\ OwnerRecord.target = ownerCharge.target
  BY DEF OwnerKnown, OwnerRecord
<1>4. OwnerRecord.allocated >= roomAllocated
  BY <1>1, <1>2, <1>3 DEF Tracks
<1>5. QED
  BY <1>4 DEF OwnerCovered, OwnerRecord

\* The owner of an app is charged for at least what the app allocates to its
\* rooms, whatever answer is lost and however late a charge or a seed arrives
\* (chargeRoomOwner, settleRoomOwner, roomCharge): every put has a ceiling, and
\* no decision arrives late.
THEOREM AlwaysOwnerCovers ==
  ASSUME 0 \notin AppCaps, "decide" \notin LateKinds
  PROVE  Spec => []OwnerCovers
<1>1. Shape /\ (Timely => Cover) => OwnerCovers
  BY CoverCovers DEF Timely
<1>2. QED
  BY <1>1, OwnerTracked, ShapeAlways, PTL

\* So it is with decisions that arrive late, until a room is removed.
THEOREM CoveredUntilRemoval ==
  ASSUME 0 \notin AppCaps
  PROVE  Spec => [](gone = {} => OwnerCovers)
<1>1. Shape /\ (Timely => Cover) /\ gone = {} => OwnerCovers
  BY CoverCovers DEF Timely
<1>2. QED
  BY <1>1, OwnerTracked, ShapeAlways, PTL
=============================================================================
