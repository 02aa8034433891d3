--------------------------- MODULE FrontEndProofs ---------------------------
(***************************************************************************)
(* Proofs about uploads and the viewer of a knowledge base, for all their  *)
(* constants.                                                              *)
(*                                                                         *)
(* The bytes stored follow the rows: BytesInv says for each upload where   *)
(* its session, its write and its row may be at once, what the store has   *)
(* then, and what is left when all of them are over.  The gates hold: an   *)
(* entry of the admission counts exactly the sessions inside it (GateInv), *)
(* and a semaphore at which somebody waits is held by somebody else        *)
(* (SemInv).                                                               *)
(*                                                                         *)
(* The page of the viewer holds a listing, an error or the document        *)
(* fetched last, unless that one is still on its way (PageInv).  Its index *)
(* holds what the walk has passed, and the search says so (IndexInv).      *)
(***************************************************************************)
EXTENDS UploadLifecycle, KnowledgeBase, TotalsProofs,
        SequenceTheorems, FiniteSetTheorems, FunctionTheorems, TLAPS

(* Uploads                                                                 *)

Gated == {"gate", "insert", "created", "refused"}
Courses == Gated \union {"new", "open", "staging", "discard", "done"}
Writes == {"none", "writing", "stored", "failed", "discard", "settled"}
Statuses == {"none", "pending", "ready", "failed", "gone"}

UploadTypes ==
    /\ kind \in [Uploads -> {"paste", "site", "never"}]
    /\ at \in [Uploads -> Courses] /\ put \in [Uploads -> Writes]
    /\ row \in [Uploads -> Statuses] /\ bytes \in [Uploads -> BOOLEAN]
    /\ removing \subseteq Uploads /\ busy \subseteq Uploads /\ excused \subseteq Uploads

-----------------------------------------------------------------------------
(* The bytes of an upload and its row. *)

\* Where the session of an upload, its write and its row may be at once.
Course(u) ==
    /\ at[u] \in {"new", "open", "gate", "insert"} => put[u] = "none" /\ row[u] = "none"
    /\ at[u] \in Gated => kind[u] = "paste" /\ put[u] = "none"
    /\ at[u] \in {"staging", "discard"} => kind[u] = "site" /\ row[u] = "none"
    /\ at[u] = "staging" => put[u] \in {"writing", "stored", "failed"}
    /\ at[u] = "discard" => put[u] = "stored"
    /\ kind[u] # "paste" => put[u] \in {"none", "writing", "stored", "failed"}
    /\ kind[u] # "paste" /\ at[u] = "done" => put[u] # "writing"
    /\ row[u] = "pending" => kind[u] = "paste"
    /\ row[u] = "failed" => put[u] \in {"discard", "settled"}
    /\ u \in removing => row[u] = "gone"
    /\ u \in busy => row[u] \in {"pending", "ready"}

\* What the store has follows the write, until the row is gone.
Stored(u) ==
    /\ put[u] = "none" => ~bytes[u]
    /\ put[u] = "stored" /\ row[u] # "gone" /\ (kind[u] = "paste" \/ at[u] = "staging") => bytes[u]
    /\ row[u] = "ready" =>
          /\ bytes[u]
          /\ kind[u] = "paste" => put[u] = "settled"
          /\ kind[u] # "paste" => put[u] = "stored" /\ at[u] = "done"

\* A pending row waits for a write, or was left by an answer that was lost.
Awaited(u) ==
    row[u] = "pending" /\ put[u] = "none" => at[u] = "created" \/ u \in excused

\* What is over leaves no bytes without a row.
Tidy(u) == Ended(u) /\ u \notin removing /\ bytes[u] => row[u] \in {"pending", "ready"} \/ u \in excused

\* A process that waits for its finalizers has no session left.
Drained ==
    /\ phase \in {"waiting", "exited"} => \A u \in Uploads : at[u] \in {"new", "done"}
    /\ phase = "exited" => \A u \in Uploads : ~Finalizing(u)

BytesInv ==
    /\ UploadTypes /\ Drained
    /\ \A u \in Uploads : Course(u) /\ Stored(u) /\ Awaited(u) /\ Tidy(u)

LEMMA BytesFollow == BytesInv => BytesFollowRows
<1> SUFFICES ASSUME BytesInv PROVE BytesFollowRows
  OBVIOUS
<1>1. ReadyStored
  BY DEF BytesInv, ReadyStored, Stored
<1>2. NothingLeaks
  BY DEF BytesInv, NothingLeaks, Tidy
<1>3. DrainFinalizes
  <2> SUFFICES ASSUME phase = "exited", NEW u \in Uploads, row[u] = "pending"
               PROVE  put[u] = "settled" \/ u \in excused
    BY DEF DrainFinalizes
  <2>1. kind[u] = "paste" /\ ~Finalizing(u) /\ at[u] \in {"new", "done"}
    BY DEF BytesInv, Course, Drained
  <2>2. QED
    BY <2>1 DEF BytesInv, Awaited, Finalizing
<1>4. QED
  BY <1>1, <1>2, <1>3 DEF BytesFollowRows

LEMMA InitBytes == Init => BytesInv
BY UploadAssumption DEF Init, BytesInv, UploadTypes, Drained, Course, Stored, Awaited, Tidy, Ended, Finalizing,
                        Gated, Courses, Writes, Statuses

\* A step of one upload leaves the others alone.
Alone(u) ==
    /\ kind' = kind /\ phase' = phase
    /\ \A v \in Uploads \ {u} :
          /\ at'[v] = at[v] /\ put'[v] = put[v] /\ row'[v] = row[v] /\ bytes'[v] = bytes[v]
          /\ v \in removing' <=> v \in removing
          /\ v \in busy' <=> v \in busy
          /\ v \in excused' <=> v \in excused

LEMMA OneUpload ==
  ASSUME BytesInv, NEW u \in Uploads, Alone(u), UploadTypes', Running,
         phase = "waiting" => at'[u] \in {"new", "done"},
         Course(u)', Stored(u)', Awaited(u)', Tidy(u)'
  PROVE  BytesInv'
<1>1. \A v \in Uploads : Course(v)' /\ Stored(v)' /\ Awaited(v)' /\ Tidy(v)'
  <2> SUFFICES ASSUME NEW v \in Uploads, v # u PROVE Course(v)' /\ Stored(v)' /\ Awaited(v)' /\ Tidy(v)'
    OBVIOUS
  <2>1. Course(v) /\ Stored(v) /\ Awaited(v) /\ Tidy(v)
    BY DEF BytesInv
  <2>2. /\ kind'[v] = kind[v] /\ at'[v] = at[v] /\ put'[v] = put[v] /\ row'[v] = row[v] /\ bytes'[v] = bytes[v]
        /\ v \in removing' <=> v \in removing
        /\ v \in busy' <=> v \in busy
        /\ v \in excused' <=> v \in excused
    BY DEF Alone
  <2>3. Course(v)'
    BY <2>1, <2>2 DEF Course
  <2>4. Stored(v)' /\ Awaited(v)'
    BY <2>1, <2>2 DEF Stored, Awaited
  <2>5. Tidy(v)'
    BY <2>1, <2>2 DEF Tidy, Ended, Finalizing
  <2>6. QED
    BY <2>3, <2>4, <2>5
<1>2. Drained'
  <2>1. phase' = phase /\ phase # "exited" /\ \A v \in Uploads \ {u} : at'[v] = at[v]
    BY DEF Alone, Running
  <2>2. QED
    BY <2>1 DEF Drained, BytesInv
<1>3. QED
  BY <1>1, <1>2 DEF BytesInv

LEMMA BytesOpen == ASSUME BytesInv, Running, NEW u \in Uploads, Open(u) PROVE BytesInv'
<1>1. UploadTypes' /\ Alone(u)
  BY DEF BytesInv, UploadTypes, Alone, Open, storeVars, Gated, Courses, Writes, Statuses
<1>2. Course(u) /\ Stored(u) /\ Awaited(u) /\ Tidy(u)
  BY DEF BytesInv
<1>3. phase = "waiting" => at'[u] \in {"new", "done"}
  BY DEF BytesInv, UploadTypes, Drained, Open
<1>4. Course(u)'
  BY <1>2 DEF BytesInv, UploadTypes, Course, Open, storeVars, Gated, Courses, Writes, Statuses
<1>5. Stored(u)' /\ Awaited(u)'
  BY <1>2 DEF BytesInv, UploadTypes, Course, Stored, Awaited, Open, storeVars, Gated, Courses, Writes, Statuses
<1>6. Tidy(u)'
  BY <1>2 DEF BytesInv, UploadTypes, Course, Stored, Tidy, Ended, Finalizing, Open, storeVars, Gated, Courses, Writes, Statuses
<1>7. QED
  BY <1>1, <1>3, <1>4, <1>5, <1>6, OneUpload

LEMMA BytesGiveUp == ASSUME BytesInv, Running, NEW u \in Uploads, GiveUp(u) PROVE BytesInv'
<1>1. UploadTypes' /\ Alone(u)
  BY DEF BytesInv, UploadTypes, Alone, GiveUp, Ends, storeVars, Gated, Courses, Writes, Statuses
<1>2. Course(u) /\ Stored(u) /\ Awaited(u) /\ Tidy(u)
  BY DEF BytesInv
<1>3. phase = "waiting" => at'[u] \in {"new", "done"}
  BY DEF BytesInv, UploadTypes, Drained, GiveUp, Ends
<1>4. Course(u)'
  BY <1>2 DEF BytesInv, UploadTypes, Course, GiveUp, Ends, storeVars, Gated, Courses, Writes, Statuses
<1>5. Stored(u)' /\ Awaited(u)'
  BY <1>2 DEF BytesInv, UploadTypes, Course, Stored, Awaited, GiveUp, Ends, storeVars, Gated, Courses, Writes, Statuses
<1>6. Tidy(u)'
  BY <1>2 DEF BytesInv, UploadTypes, Course, Stored, Tidy, Ended, Finalizing, GiveUp, Ends, storeVars, Gated, Courses, Writes, Statuses
<1>7. QED
  BY <1>1, <1>3, <1>4, <1>5, <1>6, OneUpload

LEMMA BytesRead == ASSUME BytesInv, Running, NEW u \in Uploads, Read(u) PROVE BytesInv'
<1>1. UploadTypes' /\ Alone(u)
  BY DEF BytesInv, UploadTypes, Alone, Read, EnterGate, storeVars, Gated, Courses, Writes, Statuses
<1>2. Course(u) /\ Stored(u) /\ Awaited(u) /\ Tidy(u)
  BY DEF BytesInv
<1>3. phase = "waiting" => at'[u] \in {"new", "done"}
  BY DEF BytesInv, UploadTypes, Drained, Read, EnterGate
<1>4. Course(u)'
  BY <1>2 DEF BytesInv, UploadTypes, Course, Read, EnterGate, storeVars, Gated, Courses, Writes, Statuses
<1>5. Stored(u)' /\ Awaited(u)'
  BY <1>2 DEF BytesInv, UploadTypes, Course, Stored, Awaited, Read, EnterGate, storeVars, Gated, Courses, Writes, Statuses
<1>6. Tidy(u)'
  BY <1>2 DEF BytesInv, UploadTypes, Course, Stored, Tidy, Ended, Finalizing, Read, EnterGate, storeVars, Gated, Courses, Writes, Statuses
<1>7. QED
  BY <1>1, <1>3, <1>4, <1>5, <1>6, OneUpload

LEMMA BytesAdmitted == ASSUME BytesInv, Running, NEW u \in Uploads, Admitted(u) PROVE BytesInv'
<1>1. UploadTypes' /\ Alone(u)
  BY DEF BytesInv, UploadTypes, Alone, Admitted, TakeToken, storeVars, Gated, Courses, Writes, Statuses
<1>2. Course(u) /\ Stored(u) /\ Awaited(u) /\ Tidy(u)
  BY DEF BytesInv
<1>3. phase = "waiting" => at'[u] \in {"new", "done"}
  BY DEF BytesInv, UploadTypes, Drained, Admitted, TakeToken
<1>4. Course(u)'
  BY <1>2 DEF BytesInv, UploadTypes, Course, Admitted, TakeToken, storeVars, Gated, Courses, Writes, Statuses
<1>5. Stored(u)' /\ Awaited(u)'
  BY <1>2 DEF BytesInv, UploadTypes, Course, Stored, Awaited, Admitted, TakeToken, storeVars, Gated, Courses, Writes, Statuses
<1>6. Tidy(u)'
  BY <1>2 DEF BytesInv, UploadTypes, Course, Stored, Tidy, Ended, Finalizing, Admitted, TakeToken, storeVars, Gated, Courses, Writes, Statuses
<1>7. QED
  BY <1>1, <1>3, <1>4, <1>5, <1>6, OneUpload

\* What a create may leave.
LEMMA Inserted ==
  ASSUME BytesInv, NEW u \in Uploads, NEW outcome \in {"ok", "refused", "unknown"},
         Inserts(u, outcome)
  PROVE  LET status == IF kind[u] = "paste" THEN "pending" ELSE "ready" IN
         /\ row' \in [Uploads -> Statuses] /\ \A v \in Uploads \ {u} : row'[v] = row[v]
         /\ \/ outcome = "ok" /\ row'[u] = status /\ excused' = excused
            \/ outcome = "refused" /\ row'[u] = row[u] /\ excused' = excused
            \/ outcome = "unknown" /\ row'[u] \in {row[u], status} /\ excused' = excused \union {u}
<1> DEFINE status == IF kind[u] = "paste" THEN "pending" ELSE "ready"
<1>1. row \in [Uploads -> Statuses] /\ status \in Statuses
  BY DEF BytesInv, UploadTypes, Statuses
<1> HIDE DEF status
<1>2. CASE outcome = "ok"
  <2>1. row' = [row EXCEPT ![u] = status] /\ excused' = excused
    BY <1>2 DEF Inserts, status
  <2>2. QED
    BY <1>1, <1>2, <2>1 DEF status
<1>3. CASE outcome = "refused"
  BY <1>1, <1>3 DEF Inserts
<1>4. CASE outcome = "unknown"
  <2>1. row' \in {row, [row EXCEPT ![u] = status]} /\ excused' = excused \union {u}
    BY <1>4 DEF Inserts, status
  <2>2. QED
    BY <1>1, <1>4, <2>1 DEF status
<1>5. QED
  BY <1>2, <1>3, <1>4

LEMMA BytesInsertPaste == ASSUME BytesInv, Running, NEW u \in Uploads, InsertPaste(u) PROVE BytesInv'
<1>1. PICK outcome \in {"ok", "refused", "unknown"} :
        /\ at[u] = "insert" /\ Inserts(u, outcome)
        /\ at' = [at EXCEPT ![u] = IF outcome = "ok" THEN "created" ELSE "refused"]
        /\ UNCHANGED <<kind, put, bytes, removing, busy, phase>>
  BY DEF InsertPaste
<1>2. Course(u) /\ Stored(u) /\ Awaited(u) /\ Tidy(u) /\ kind[u] = "paste"
  BY <1>1 DEF BytesInv, Course, Gated
<1>3. /\ row' \in [Uploads -> Statuses] /\ \A v \in Uploads \ {u} : row'[v] = row[v]
      /\ \/ outcome = "ok" /\ row'[u] = "pending" /\ excused' = excused
         \/ outcome = "refused" /\ row'[u] = row[u] /\ excused' = excused
         \/ outcome = "unknown" /\ row'[u] \in {row[u], "pending"} /\ excused' = excused \union {u}
  BY <1>1, <1>2, Inserted
<1>4. UploadTypes' /\ Alone(u)
  BY <1>1, <1>3 DEF BytesInv, UploadTypes, Alone, Courses, Gated
<1>5. phase # "waiting"
  BY <1>1 DEF BytesInv, Drained
<1>6. Course(u)'
  BY <1>1, <1>2, <1>3, <1>4 DEF BytesInv, UploadTypes, Course, Gated
<1>7. Stored(u)' /\ Awaited(u)' /\ Tidy(u)'
  BY <1>1, <1>2, <1>3, <1>4 DEF BytesInv, UploadTypes, Course, Stored, Awaited, Tidy, Ended, Finalizing, Gated
<1>8. QED
  BY <1>4, <1>5, <1>6, <1>7, OneUpload

LEMMA BytesLeaveGate == ASSUME BytesInv, Running, NEW u \in Uploads, LeaveGate(u) PROVE BytesInv'
<1>1. UploadTypes' /\ Alone(u)
  BY DEF BytesInv, UploadTypes, Alone, LeaveGate, Ends, storeVars, Gated, Courses, Writes, Statuses
<1>2. Course(u) /\ Stored(u) /\ Awaited(u) /\ Tidy(u)
  BY DEF BytesInv
<1>3. phase = "waiting" => at'[u] \in {"new", "done"}
  BY DEF BytesInv, UploadTypes, Drained, LeaveGate, Ends
<1>4. Course(u)'
  BY <1>2 DEF BytesInv, UploadTypes, Course, LeaveGate, Ends, storeVars, Gated, Courses, Writes, Statuses
<1>5. Stored(u)' /\ Awaited(u)'
  BY <1>2 DEF BytesInv, UploadTypes, Course, Stored, Awaited, LeaveGate, Ends, storeVars, Gated, Courses, Writes, Statuses
<1>6. Tidy(u)'
  BY <1>2 DEF BytesInv, UploadTypes, Course, Stored, Tidy, Ended, Finalizing, LeaveGate, Ends, storeVars, Gated, Courses, Writes, Statuses
<1>7. QED
  BY <1>1, <1>3, <1>4, <1>5, <1>6, OneUpload

LEMMA BytesInsertSite == ASSUME BytesInv, Running, NEW u \in Uploads, InsertSite(u) PROVE BytesInv'
<1>1. PICK outcome \in {"ok", "refused", "unknown"} :
        /\ at[u] = "staging" /\ put[u] = "stored" /\ Inserts(u, outcome)
        /\ at' = [at EXCEPT ![u] = IF outcome = "refused" THEN "discard" ELSE "done"]
        /\ UNCHANGED <<kind, put, bytes, removing, busy, phase>>
  BY DEF InsertSite, Ends
<1>2. Course(u) /\ Stored(u) /\ Awaited(u) /\ Tidy(u) /\ kind[u] # "paste"
  BY <1>1 DEF BytesInv, Course, Gated
<1>3. /\ row' \in [Uploads -> Statuses] /\ \A v \in Uploads \ {u} : row'[v] = row[v]
      /\ \/ outcome = "ok" /\ row'[u] = "ready" /\ excused' = excused
         \/ outcome = "refused" /\ row'[u] = row[u] /\ excused' = excused
         \/ outcome = "unknown" /\ row'[u] \in {row[u], "ready"} /\ excused' = excused \union {u}
  BY <1>1, <1>2, Inserted
<1>4. UploadTypes' /\ Alone(u)
  BY <1>1, <1>3 DEF BytesInv, UploadTypes, Alone, Courses, Gated
<1>5. phase # "waiting"
  BY <1>1 DEF BytesInv, Drained
<1>6. Course(u)'
  BY <1>1, <1>2, <1>3, <1>4 DEF BytesInv, UploadTypes, Course, Gated
<1>7. Stored(u)' /\ Awaited(u)' /\ Tidy(u)'
  BY <1>1, <1>2, <1>3, <1>4 DEF BytesInv, UploadTypes, Course, Stored, Awaited, Tidy, Ended, Finalizing, Gated
<1>8. QED
  BY <1>4, <1>5, <1>6, <1>7, OneUpload

LEMMA BytesDiscardSite == ASSUME BytesInv, Running, NEW u \in Uploads, DiscardSite(u) PROVE BytesInv'
<1>1. UploadTypes' /\ Alone(u)
  BY DEF BytesInv, UploadTypes, Alone, DiscardSite, Discard, Ends, storeVars, Gated, Courses, Writes, Statuses
<1>2. Course(u) /\ Stored(u) /\ Awaited(u) /\ Tidy(u)
  BY DEF BytesInv
<1>3. phase = "waiting" => at'[u] \in {"new", "done"}
  BY DEF BytesInv, UploadTypes, Drained, DiscardSite, Discard, Ends
<1>4. Course(u)'
  BY <1>2 DEF BytesInv, UploadTypes, Course, DiscardSite, Discard, Ends, storeVars, Gated, Courses, Writes, Statuses
<1>5. Stored(u)' /\ Awaited(u)'
  BY <1>2 DEF BytesInv, UploadTypes, Course, Stored, Awaited, DiscardSite, Discard, Ends, storeVars, Gated, Courses, Writes, Statuses
<1>6. Tidy(u)'
  BY <1>2 DEF BytesInv, UploadTypes, Course, Stored, Tidy, Ended, Finalizing, DiscardSite, Discard, Ends, storeVars, Gated, Courses, Writes, Statuses
<1>7. QED
  BY <1>1, <1>3, <1>4, <1>5, <1>6, OneUpload

LEMMA BytesWrite == ASSUME BytesInv, Running, NEW u \in Uploads, Write(u) PROVE BytesInv'
<1>1. UploadTypes' /\ Alone(u)
  BY DEF BytesInv, UploadTypes, Alone, Write, storeVars, Gated, Courses, Writes, Statuses
<1>2. Course(u) /\ Stored(u) /\ Awaited(u) /\ Tidy(u)
  BY DEF BytesInv
<1>3. phase = "waiting" => at'[u] \in {"new", "done"}
  BY DEF BytesInv, UploadTypes, Drained, Write
<1>4. Course(u)'
  BY <1>2 DEF BytesInv, UploadTypes, Course, Write, storeVars, Gated, Courses, Writes, Statuses
<1>5. Stored(u)' /\ Awaited(u)'
  BY <1>2 DEF BytesInv, UploadTypes, Course, Stored, Awaited, Write, storeVars, Gated, Courses, Writes, Statuses
<1>6. Tidy(u)'
  BY <1>2 DEF BytesInv, UploadTypes, Course, Stored, Tidy, Ended, Finalizing, Write, storeVars, Gated, Courses, Writes, Statuses
<1>7. QED
  BY <1>1, <1>3, <1>4, <1>5, <1>6, OneUpload

LEMMA BytesMarkReady == ASSUME BytesInv, Running, NEW u \in Uploads, MarkReady(u) PROVE BytesInv'
<1>1. PICK answer \in {"ready", "gone", "blocked", "lost"} :
        /\ kind[u] = "paste" /\ put[u] = "stored"
        /\ \/ answer = "gone" /\ row[u] = "gone" /\ UNCHANGED <<row, busy, excused>>
           \/ answer = "blocked" /\ u \in busy /\ UNCHANGED <<row, busy, excused>>
           \/ /\ answer = "ready" /\ row[u] = "pending" /\ row' = [row EXCEPT ![u] = "ready"]
              /\ busy' = busy \ {u} /\ UNCHANGED excused
           \/ /\ answer = "lost" /\ excused' = excused \union {u} /\ UNCHANGED busy
              /\ row' = row \/ (row[u] = "pending" /\ row' = [row EXCEPT ![u] = "ready"])
        /\ put' = [put EXCEPT ![u] = IF answer = "gone" THEN "discard" ELSE "settled"]
        /\ UNCHANGED <<kind, at, bytes, removing, phase>>
  BY DEF MarkReady, AfterReady
<1>2. Course(u) /\ Stored(u) /\ Awaited(u) /\ Tidy(u)
  BY DEF BytesInv
<1>3. UploadTypes' /\ Alone(u)
  BY <1>1 DEF BytesInv, UploadTypes, Alone, Writes, Statuses
<1>4. phase = "waiting" => at'[u] \in {"new", "done"}
  BY <1>1 DEF BytesInv, Drained
<1>5. Course(u)'
  BY <1>1, <1>2 DEF BytesInv, UploadTypes, Course, Gated
<1>6. Stored(u)' /\ Awaited(u)'
  BY <1>1, <1>2 DEF BytesInv, UploadTypes, Course, Stored, Awaited, Gated
<1>7. Tidy(u)'
  BY <1>1, <1>2 DEF BytesInv, UploadTypes, Course, Stored, Tidy, Ended, Finalizing, Gated
<1>8. QED
  BY <1>3, <1>4, <1>5, <1>6, <1>7, OneUpload

LEMMA BytesMarkFailed == ASSUME BytesInv, Running, NEW u \in Uploads, MarkFailed(u) PROVE BytesInv'
<1>1. UploadTypes' /\ Alone(u)
  BY DEF BytesInv, UploadTypes, Alone, MarkFailed, storeVars, Gated, Courses, Writes, Statuses
<1>2. Course(u) /\ Stored(u) /\ Awaited(u) /\ Tidy(u)
  BY DEF BytesInv
<1>3. phase = "waiting" => at'[u] \in {"new", "done"}
  BY DEF BytesInv, UploadTypes, Drained, MarkFailed
<1>4. Course(u)'
  BY <1>2 DEF BytesInv, UploadTypes, Course, MarkFailed, storeVars, Gated, Courses, Writes, Statuses
<1>5. Stored(u)' /\ Awaited(u)'
  BY <1>2 DEF BytesInv, UploadTypes, Course, Stored, Awaited, MarkFailed, storeVars, Gated, Courses, Writes, Statuses
<1>6. Tidy(u)'
  BY <1>2 DEF BytesInv, UploadTypes, Course, Stored, Tidy, Ended, Finalizing, MarkFailed, storeVars, Gated, Courses, Writes, Statuses
<1>7. QED
  BY <1>1, <1>3, <1>4, <1>5, <1>6, OneUpload

LEMMA BytesFinish == ASSUME BytesInv, Running, NEW u \in Uploads, Finish(u) PROVE BytesInv'
<1>1. UploadTypes' /\ Alone(u)
  BY DEF BytesInv, UploadTypes, Alone, Finish, Discard, storeVars, Gated, Courses, Writes, Statuses
<1>2. Course(u) /\ Stored(u) /\ Awaited(u) /\ Tidy(u)
  BY DEF BytesInv
<1>3. phase = "waiting" => at'[u] \in {"new", "done"}
  BY DEF BytesInv, UploadTypes, Drained, Finish, Discard
<1>4. Course(u)'
  BY <1>2 DEF BytesInv, UploadTypes, Course, Finish, Discard, storeVars, Gated, Courses, Writes, Statuses
<1>5. Stored(u)' /\ Awaited(u)'
  BY <1>2 DEF BytesInv, UploadTypes, Course, Stored, Awaited, Finish, Discard, storeVars, Gated, Courses, Writes, Statuses
<1>6. Tidy(u)'
  BY <1>2 DEF BytesInv, UploadTypes, Course, Stored, Tidy, Ended, Finalizing, Finish, Discard, storeVars, Gated, Courses, Writes, Statuses
<1>7. QED
  BY <1>1, <1>3, <1>4, <1>5, <1>6, OneUpload

LEMMA BytesInterrupt == ASSUME BytesInv, Running, NEW u \in Uploads, Interrupt(u) PROVE BytesInv'
<1>1. UploadTypes' /\ Alone(u)
  BY DEF BytesInv, UploadTypes, Alone, Interrupt, storeVars, Gated, Courses, Writes, Statuses
<1>2. Course(u) /\ Stored(u) /\ Awaited(u) /\ Tidy(u)
  BY DEF BytesInv
<1>3. phase = "waiting" => at'[u] \in {"new", "done"}
  BY DEF BytesInv, UploadTypes, Drained, Interrupt
<1>4. Course(u)'
  BY <1>2 DEF BytesInv, UploadTypes, Course, Interrupt, storeVars, Gated, Courses, Writes, Statuses
<1>5. Stored(u)' /\ Awaited(u)'
  BY <1>2 DEF BytesInv, UploadTypes, Course, Stored, Awaited, Interrupt, storeVars, Gated, Courses, Writes, Statuses
<1>6. Tidy(u)'
  BY <1>2 DEF BytesInv, UploadTypes, Course, Stored, Tidy, Ended, Finalizing, Interrupt, storeVars, Gated, Courses, Writes, Statuses
<1>7. QED
  BY <1>1, <1>3, <1>4, <1>5, <1>6, OneUpload

LEMMA BytesResume == ASSUME BytesInv, Running, NEW u \in Uploads, Resume(u) PROVE BytesInv'
<1>1. UploadTypes' /\ Alone(u)
  BY DEF BytesInv, UploadTypes, Alone, Resume, storeVars, Gated, Courses, Writes, Statuses
<1>2. Course(u) /\ Stored(u) /\ Awaited(u) /\ Tidy(u)
  BY DEF BytesInv
<1>3. phase = "waiting" => at'[u] \in {"new", "done"}
  BY DEF BytesInv, UploadTypes, Drained, Resume
<1>4. Course(u)'
  BY <1>2 DEF BytesInv, UploadTypes, Course, Resume, storeVars, Gated, Courses, Writes, Statuses
<1>5. Stored(u)' /\ Awaited(u)'
  BY <1>2 DEF BytesInv, UploadTypes, Course, Stored, Awaited, Resume, storeVars, Gated, Courses, Writes, Statuses
<1>6. Tidy(u)'
  BY <1>2 DEF BytesInv, UploadTypes, Course, Stored, Tidy, Ended, Finalizing, Resume, storeVars, Gated, Courses, Writes, Statuses
<1>7. QED
  BY <1>1, <1>3, <1>4, <1>5, <1>6, OneUpload

LEMMA BytesDelete == ASSUME BytesInv, Running, NEW u \in Uploads, Delete(u) PROVE BytesInv'
<1>1. UploadTypes' /\ Alone(u)
  BY DEF BytesInv, UploadTypes, Alone, Delete, storeVars, Gated, Courses, Writes, Statuses
<1>2. Course(u) /\ Stored(u) /\ Awaited(u) /\ Tidy(u)
  BY DEF BytesInv
<1>3. phase = "waiting" => at'[u] \in {"new", "done"}
  BY DEF Delete
<1>4. Course(u)'
  BY <1>2 DEF BytesInv, UploadTypes, Course, Delete, storeVars, Gated, Courses, Writes, Statuses
<1>5. Stored(u)' /\ Awaited(u)'
  BY <1>2 DEF BytesInv, UploadTypes, Course, Stored, Awaited, Delete, storeVars, Gated, Courses, Writes, Statuses
<1>6. Tidy(u)'
  BY <1>2 DEF BytesInv, UploadTypes, Course, Stored, Tidy, Ended, Finalizing, Delete, storeVars, Gated, Courses, Writes, Statuses
<1>7. QED
  BY <1>1, <1>3, <1>4, <1>5, <1>6, OneUpload

LEMMA BytesDeleteBytes == ASSUME BytesInv, Running, NEW u \in Uploads, DeleteBytes(u) PROVE BytesInv'
<1>1. UploadTypes' /\ Alone(u)
  BY DEF BytesInv, UploadTypes, Alone, DeleteBytes, Discard, storeVars, Gated, Courses, Writes, Statuses
<1>2. Course(u) /\ Stored(u) /\ Awaited(u) /\ Tidy(u)
  BY DEF BytesInv
<1>3. phase = "waiting" => at'[u] \in {"new", "done"}
  BY DEF BytesInv, UploadTypes, Drained, DeleteBytes, Discard
<1>4. Course(u)'
  BY <1>2 DEF BytesInv, UploadTypes, Course, DeleteBytes, Discard, storeVars, Gated, Courses, Writes, Statuses
<1>5. Stored(u)' /\ Awaited(u)'
  BY <1>2 DEF BytesInv, UploadTypes, Course, Stored, Awaited, DeleteBytes, Discard, storeVars, Gated, Courses, Writes, Statuses
<1>6. Tidy(u)'
  BY <1>2 DEF BytesInv, UploadTypes, Course, Stored, Tidy, Ended, Finalizing, DeleteBytes, Discard, storeVars, Gated, Courses, Writes, Statuses
<1>7. QED
  BY <1>1, <1>3, <1>4, <1>5, <1>6, OneUpload

LEMMA BytesShutdown == BytesInv /\ Running /\ Shutdown => BytesInv'
<1> SUFFICES ASSUME BytesInv, Shutdown PROVE BytesInv'
  OBVIOUS
<1>1. UNCHANGED <<kind, at, put, row, bytes, removing, busy, excused>>
  BY DEF Shutdown, storeVars
<1>2. UploadTypes' /\ \A u \in Uploads : Course(u)' /\ Stored(u)' /\ Awaited(u)' /\ Tidy(u)'
  BY <1>1 DEF BytesInv, UploadTypes, Course, Stored, Awaited, Tidy, Ended, Finalizing
<1>3. Drained'
  BY <1>1 DEF BytesInv, Drained, Shutdown, SessionsOver, Finalizing
<1>4. QED
  BY <1>2, <1>3 DEF BytesInv

LEMMA NextBytes == BytesInv /\ [Next]_uploadVars => BytesInv'
<1> SUFFICES ASSUME BytesInv, [Next]_uploadVars PROVE BytesInv'
  OBVIOUS
<1>1. CASE UNCHANGED uploadVars
  BY <1>1 DEF uploadVars, BytesInv, UploadTypes, Drained, Course, Stored, Awaited, Tidy, Ended, Finalizing
<1>2. CASE Running /\ Shutdown
  BY <1>2, BytesShutdown
<1>3. ASSUME Running, NEW u \in Uploads, Open(u) \/ Delete(u) \/ DeleteBytes(u) \/ Interrupt(u) \/ Resume(u)
      PROVE  BytesInv'
  BY <1>3, BytesOpen, BytesDelete, BytesDeleteBytes, BytesInterrupt, BytesResume
<1>4. ASSUME Running, NEW u \in Uploads, Session(u) PROVE BytesInv'
  BY <1>4, BytesGiveUp, BytesRead, BytesAdmitted, BytesInsertPaste, BytesLeaveGate, BytesInsertSite,
     BytesDiscardSite DEF Session
<1>5. ASSUME Running, NEW u \in Uploads, Background(u) PROVE BytesInv'
  BY <1>5, BytesWrite, BytesMarkReady, BytesMarkFailed, BytesFinish DEF Background
<1>6. QED
  BY <1>1, <1>2, <1>3, <1>4, <1>5 DEF Next

\* A row that says ready has its bytes, nothing that is over leaves bytes
\* without a row, and no process that exits in time leaves a paste pending
\* (upload.go finalize, manage.go Delete, shutdown.go).
THEOREM AlwaysBytesFollow == Spec => []BytesFollowRows
<1>1. BytesInv /\ [Next]_uploadVars => BytesInv'
  BY NextBytes
<1>2. QED
  BY InitBytes, BytesFollow, <1>1, PTL DEF Spec

-----------------------------------------------------------------------------
(* The create admission. *)

GateTypes ==
    /\ keys \in [Owners -> Uploads \union {NoEntry}]
    /\ entry \in [Uploads -> Uploads \union {NoEntry}]
    /\ refs \in [Uploads -> Nat] /\ tokens \in [Uploads -> Nat]

\* Who is counted by the entry e, and who holds a token of it.
Inside(e) == {u \in Uploads : at[u] \in Gated /\ entry[u] = e}
Creating(e) == {u \in Uploads : at[u] = "insert" /\ entry[u] = e}

\* Whoever is in the admission has the one entry of its owner.
EntryShared == \A u \in Uploads : at[u] \in Gated => entry[u] \in Uploads /\ keys[OwnerOf[u]] = entry[u]
EntryOwned == \A o \in Owners : keys[o] # NoEntry =>
    OwnerOf[keys[o]] = o /\ \E u \in Uploads : OwnerOf[u] = o /\ at[u] \in Gated

Counted == \A e \in Uploads :
    refs[e] = Cardinality(Inside(e)) /\ tokens[e] = Cardinality(Creating(e)) /\ tokens[e] <= Width

GateInv == GateTypes /\ EntryShared /\ EntryOwned /\ Counted

LEMMA UploadsFinite ==
  ASSUME NEW S \in SUBSET Uploads
  PROVE  IsFiniteSet(S) /\ Cardinality(S) \in Nat
BY UploadAssumption, FS_Subset, FS_CardinalityType

LEMMA GateWidth == BytesInv /\ GateInv => WidthKept
<1> SUFFICES ASSUME BytesInv, GateInv, NEW o \in Owners
             PROVE  LET here == {u \in Uploads : OwnerOf[u] = o} IN
                    /\ Cardinality({u \in here : at[u] = "insert"}) <= Width
                    /\ keys[o] # NoEntry <=> \E u \in here : at[u] \in {"gate", "insert", "created", "refused"}
  BY DEF WidthKept
<1> DEFINE here == {u \in Uploads : OwnerOf[u] = o}
           busyHere == {u \in here : at[u] = "insert"}
<1>1. keys[o] # NoEntry <=> \E u \in here : at[u] \in Gated
  BY UploadAssumption DEF GateInv, EntryShared, EntryOwned, NoEntry
<1>2. Cardinality(busyHere) <= Width
  <2>1. CASE busyHere = {}
    BY <2>1, FS_EmptySet, UploadAssumption
  <2>2. CASE busyHere # {}
    <3>1. keys[o] \in Uploads /\ busyHere \subseteq Creating(keys[o])
      BY <2>2 DEF GateInv, EntryShared, Creating, Gated
    <3>2. Cardinality(busyHere) <= Cardinality(Creating(keys[o]))
      BY <3>1, FS_Subset, UploadsFinite DEF Creating
    <3>3. Cardinality(Creating(keys[o])) <= Width
      BY <3>1 DEF GateInv, Counted
    <3>4. Cardinality(busyHere) \in Nat /\ Cardinality(Creating(keys[o])) \in Nat /\ Width \in Nat
      BY UploadsFinite, UploadAssumption DEF Creating
    <3>5. QED
      BY <3>2, <3>3, <3>4
  <2>3. QED
    BY <2>1, <2>2
<1>3. QED
  BY <1>1, <1>2 DEF Gated

LEMMA InitGate == Init => GateInv
<1> SUFFICES ASSUME Init PROVE GateInv
  OBVIOUS
<1>1. GateTypes /\ EntryShared /\ EntryOwned
  BY UploadAssumption DEF Init, GateTypes, EntryShared, EntryOwned, Gated, NoEntry
<1>2. \A e \in Uploads : Inside(e) = {} /\ Creating(e) = {} /\ refs[e] = 0 /\ tokens[e] = 0
  BY DEF Init, Inside, Creating, Gated
<1>3. Cardinality({}) = 0 /\ Width \in Nat
  BY FS_EmptySet, UploadAssumption
<1>4. QED
  BY <1>1, <1>2, <1>3 DEF GateInv, Counted

\* A step in which nobody enters, leaves or passes the admission.
LEMMA GateStays ==
  ASSUME GateInv, UNCHANGED gateVars,
         \A v \in Uploads : (at'[v] \in Gated <=> at[v] \in Gated) /\ (at'[v] = "insert" <=> at[v] = "insert")
  PROVE  GateInv'
<1>1. UNCHANGED <<keys, entry, refs, tokens>>
  BY DEF gateVars
<1>2. GateTypes' /\ EntryShared' /\ EntryOwned'
  BY <1>1 DEF GateInv, GateTypes, EntryShared, EntryOwned
<1>3. \A e \in Uploads : Inside(e)' = Inside(e) /\ Creating(e)' = Creating(e)
  BY <1>1 DEF Inside, Creating
<1>4. QED
  BY <1>1, <1>2, <1>3 DEF GateInv, Counted

LEMMA GateOutside ==
  ASSUME BytesInv, GateInv, NEW u \in Uploads,
         \/ Open(u) \/ GiveUp(u) \/ InsertSite(u) \/ DiscardSite(u) \/ Background(u) \/ Delete(u)
         \/ DeleteBytes(u) \/ Interrupt(u) \/ Resume(u)
  PROVE  GateInv'
<1>1. UNCHANGED gateVars
  BY DEF Open, GiveUp, InsertSite, DiscardSite, Background, Write, MarkReady, MarkFailed, Finish, Delete,
         DeleteBytes, Interrupt, Resume
<1>2. \/ at' = at
      \/ /\ at[u] \in {"new", "open", "staging", "discard"}
         /\ at' \in {[at EXCEPT ![u] = c] : c \in {"open", "done", "discard"}}
  BY DEF Open, GiveUp, InsertSite, DiscardSite, Background, Write, MarkReady, MarkFailed, Finish, Delete,
         DeleteBytes, Interrupt, Resume, Ends
<1>3. \A v \in Uploads : (at'[v] \in Gated <=> at[v] \in Gated) /\ (at'[v] = "insert" <=> at[v] = "insert")
  BY <1>2 DEF BytesInv, UploadTypes, Gated
<1>4. QED
  BY <1>1, <1>3, GateStays

\* A paste enters, with the entry its owner has or a new one.
LEMMA GateRead == ASSUME BytesInv, GateInv, NEW u \in Uploads, Read(u) PROVE GateInv'
<1>1. CASE kind[u] # "paste"
  <2>1. UNCHANGED gateVars /\ at' = [at EXCEPT ![u] = "staging"] /\ at[u] = "open"
    BY <1>1 DEF Read
  <2>2. \A v \in Uploads : (at'[v] \in Gated <=> at[v] \in Gated) /\ (at'[v] = "insert" <=> at[v] = "insert")
    BY <2>1 DEF BytesInv, UploadTypes, Gated
  <2>3. QED
    BY <2>1, <2>2, GateStays
<1>2. CASE kind[u] = "paste"
  <2> DEFINE o == OwnerOf[u]
  <2>0. PICK e : e = IF keys[o] = NoEntry THEN u ELSE keys[o]
    OBVIOUS
  <2>1. /\ at[u] = "open" /\ at' = [at EXCEPT ![u] = "gate"]
        /\ keys' = [keys EXCEPT ![o] = e] /\ entry' = [entry EXCEPT ![u] = e]
        /\ refs' = [refs EXCEPT ![e] = @ + 1] /\ tokens' = tokens
    BY <1>2, <2>0 DEF Read, EnterGate
  <2>2. e \in Uploads /\ OwnerOf[e] = o /\ o \in Owners /\ u \notin Inside(e)
    BY <2>0, <2>1 DEF GateInv, GateTypes, EntryOwned, Owners, Inside, Gated
  <2>3. \A v \in Uploads \ {u} : at'[v] = at[v] /\ entry'[v] = entry[v]
    BY <2>1
  <2>4. at'[u] = "gate" /\ entry'[u] = e /\ keys'[o] = e /\ \A p \in Owners \ {o} : keys'[p] = keys[p]
    BY <2>1, <2>2 DEF GateInv, GateTypes, BytesInv, UploadTypes
  <2>5. GateTypes'
    BY <2>1, <2>2 DEF GateInv, GateTypes
  <2>6. EntryShared'
    <3> SUFFICES ASSUME NEW v \in Uploads, v # u, at[v] \in Gated
                 PROVE  entry'[v] \in Uploads /\ keys'[OwnerOf[v]] = entry'[v]
      BY <2>2, <2>3, <2>4 DEF EntryShared
    <3>1. entry[v] \in Uploads /\ keys[OwnerOf[v]] = entry[v] /\ OwnerOf[v] \in Owners
      BY DEF GateInv, EntryShared, Owners
    <3>2. CASE OwnerOf[v] = o
      <4>1. e = keys[o]
        BY <2>0, <3>1, <3>2, UploadAssumption DEF NoEntry
      <4>2. QED
        BY <2>3, <2>4, <3>1, <3>2, <4>1
    <3>3. CASE OwnerOf[v] # o
      BY <2>3, <2>4, <3>1, <3>3
    <3>4. QED
      BY <3>2, <3>3
  <2>7. EntryOwned'
    <3> SUFFICES ASSUME NEW p \in Owners, keys'[p] # NoEntry
                 PROVE  OwnerOf[keys'[p]] = p /\ \E v \in Uploads : OwnerOf[v] = p /\ at'[v] \in Gated
      BY DEF EntryOwned
    <3>1. CASE p = o
      BY <2>2, <2>4, <3>1 DEF Gated
    <3>2. CASE p # o
      <4>1. keys'[p] = keys[p]
        BY <2>4, <3>2
      <4>2. OwnerOf[keys[p]] = p
        BY <4>1 DEF GateInv, EntryOwned
      <4>3. PICK v \in Uploads : OwnerOf[v] = p /\ at[v] \in Gated
        BY <4>1 DEF GateInv, EntryOwned
      <4>4. at'[v] = at[v]
        BY <2>3, <3>2, <4>3
      <4>5. QED
        BY <4>1, <4>2, <4>3, <4>4
    <3>3. QED
      BY <3>1, <3>2
  <2>8. Counted'
    <3>1. Inside(e)' = Inside(e) \union {u}
      BY <2>3, <2>4 DEF Inside, Gated
    <3>2. \A f \in Uploads \ {e} : Inside(f)' = Inside(f)
      BY <2>1, <2>3, <2>4 DEF Inside, Gated
    <3>3. \A f \in Uploads : Creating(f)' = Creating(f)
      BY <2>1, <2>3, <2>4 DEF Creating
    <3>4. Cardinality(Inside(e) \union {u}) = Cardinality(Inside(e)) + 1
      BY <2>2, UploadsFinite, FS_AddElement DEF Inside
    <3>5. refs'[e] = refs[e] + 1 /\ \A f \in Uploads \ {e} : refs'[f] = refs[f]
      BY <2>1, <2>2 DEF GateInv, GateTypes
    <3>6. QED
      BY <2>1, <2>2, <3>1, <3>2, <3>3, <3>4, <3>5 DEF GateInv, Counted
  <2>9. QED
    BY <2>5, <2>6, <2>7, <2>8 DEF GateInv
<1>3. QED
  BY <1>1, <1>2

\* Who takes a token, and who gives one back, stays inside.
LEMMA TokenMoves ==
  ASSUME BytesInv, GateInv, NEW u \in Uploads, at[u] \in Gated, NEW c \in Gated,
         at' = [at EXCEPT ![u] = c], UNCHANGED <<keys, entry, refs>>,
         tokens' \in [Uploads -> Nat],
         \A e \in Uploads : tokens'[e] = Cardinality(Creating(e)') /\ tokens'[e] <= Width
  PROVE  GateInv'
<1>1. \A v \in Uploads : at'[v] \in Gated <=> at[v] \in Gated
  BY DEF BytesInv, UploadTypes
<1>2. \A e \in Uploads : Inside(e)' = Inside(e)
  BY <1>1 DEF Inside
<1>3. GateTypes' /\ EntryShared' /\ EntryOwned'
  BY <1>1 DEF GateInv, GateTypes, EntryShared, EntryOwned
<1>4. QED
  BY <1>2, <1>3 DEF GateInv, Counted

LEMMA GateAdmitted == ASSUME BytesInv, GateInv, NEW u \in Uploads, Admitted(u) PROVE GateInv'
<1>0. PICK e : e = entry[u]
  OBVIOUS
<1>1. /\ at[u] = "gate" /\ at' = [at EXCEPT ![u] = "insert"] /\ tokens[e] < Width
      /\ tokens' = [tokens EXCEPT ![e] = @ + 1] /\ UNCHANGED <<keys, entry, refs>>
  BY <1>0 DEF Admitted, TakeToken
<1>2. e \in Uploads /\ u \notin Creating(e)
  BY <1>0, <1>1 DEF GateInv, EntryShared, Gated, Creating
<1>3. Creating(e)' = Creating(e) \union {u} /\ \A f \in Uploads \ {e} : Creating(f)' = Creating(f)
  BY <1>0, <1>1 DEF Creating, BytesInv, UploadTypes
<1>4. Cardinality(Creating(e) \union {u}) = Cardinality(Creating(e)) + 1
  BY <1>2, UploadsFinite, FS_AddElement DEF Creating
<1>5. /\ tokens \in [Uploads -> Nat] /\ Width \in Nat
      /\ \A f \in Uploads : tokens[f] = Cardinality(Creating(f)) /\ tokens[f] <= Width
  BY UploadAssumption DEF GateInv, GateTypes, Counted
<1>6. tokens' \in [Uploads -> Nat] /\ tokens'[e] = tokens[e] + 1 /\ \A f \in Uploads \ {e} : tokens'[f] = tokens[f]
  BY <1>1, <1>2, <1>5
<1>7. \A f \in Uploads : tokens'[f] = Cardinality(Creating(f)') /\ tokens'[f] <= Width
  <2>1. tokens'[e] = Cardinality(Creating(e)') /\ tokens'[e] <= Width
    BY <1>1, <1>2, <1>3, <1>4, <1>5, <1>6
  <2>2. QED
    BY <1>3, <1>5, <1>6, <2>1
<1>8. "gate" \in Gated /\ "insert" \in Gated
  BY DEF Gated
<1>9. QED
  BY <1>1, <1>6, <1>7, <1>8, TokenMoves

LEMMA GateInsertPaste == ASSUME BytesInv, GateInv, NEW u \in Uploads, InsertPaste(u) PROVE GateInv'
<1>0. PICK e : e = entry[u]
  OBVIOUS
<1>1. PICK c \in {"created", "refused"} :
        /\ at[u] = "insert" /\ at' = [at EXCEPT ![u] = c]
        /\ tokens' = [tokens EXCEPT ![e] = @ - 1] /\ UNCHANGED <<keys, entry, refs>>
  BY <1>0 DEF InsertPaste, Releases
<1>2. e \in Uploads /\ u \in Creating(e)
  BY <1>0, <1>1 DEF GateInv, EntryShared, Gated, Creating
<1>3. Creating(e)' = Creating(e) \ {u} /\ \A f \in Uploads \ {e} : Creating(f)' = Creating(f)
  BY <1>0, <1>1 DEF Creating, BytesInv, UploadTypes
<1>4. Cardinality(Creating(e) \ {u}) = Cardinality(Creating(e)) - 1 /\ Cardinality(Creating(e) \ {u}) \in Nat
  BY <1>2, UploadsFinite, FS_RemoveElement DEF Creating
<1>5. /\ tokens \in [Uploads -> Nat] /\ Width \in Nat
      /\ \A f \in Uploads : tokens[f] = Cardinality(Creating(f)) /\ tokens[f] <= Width
  BY UploadAssumption DEF GateInv, GateTypes, Counted
<1>6. tokens[e] - 1 \in Nat
  BY <1>2, <1>4, <1>5
<1>7. tokens' \in [Uploads -> Nat] /\ tokens'[e] = tokens[e] - 1 /\ \A f \in Uploads \ {e} : tokens'[f] = tokens[f]
  BY <1>1, <1>2, <1>5, <1>6
<1>8. \A f \in Uploads : tokens'[f] = Cardinality(Creating(f)') /\ tokens'[f] <= Width
  <2>1. tokens'[e] = Cardinality(Creating(e)') /\ tokens'[e] <= Width
    BY <1>2, <1>3, <1>4, <1>5, <1>7
  <2>2. QED
    BY <1>3, <1>5, <1>7, <2>1
<1>9. "insert" \in Gated /\ c \in Gated
  BY DEF Gated
<1>10. QED
  BY <1>1, <1>7, <1>8, <1>9, TokenMoves

\* The last one out takes the entry away: nobody else has it.
LEMMA GateLeaveGate == ASSUME BytesInv, GateInv, NEW u \in Uploads, LeaveGate(u) PROVE GateInv'
<1> DEFINE o == OwnerOf[u]
<1>0. PICK e : e = entry[u]
  OBVIOUS
<1>1. /\ at[u] \in {"created", "refused"} /\ at' = [at EXCEPT ![u] = "done"]
      /\ refs' = [refs EXCEPT ![e] = @ - 1]
      /\ keys' = IF refs[e] = 1 THEN [keys EXCEPT ![o] = NoEntry] ELSE keys
      /\ UNCHANGED <<entry, tokens>>
  BY <1>0 DEF LeaveGate, LastOut, Ends
<1>2. e \in Uploads /\ keys[o] = e /\ o \in Owners /\ u \in Inside(e)
  BY <1>0, <1>1 DEF GateInv, EntryShared, Gated, Inside, Owners
<1>3. OwnerOf[e] = o
  BY <1>2, UploadAssumption DEF GateInv, EntryOwned, NoEntry
<1>4. \A v \in Inside(e) : OwnerOf[v] = o
  <2> SUFFICES ASSUME NEW v \in Inside(e) PROVE OwnerOf[v] = o
    OBVIOUS
  <2>1. v \in Uploads /\ keys[OwnerOf[v]] = e /\ OwnerOf[v] \in Owners
    BY DEF Inside, GateInv, EntryShared, Owners
  <2>2. e # NoEntry
    BY <1>2, UploadAssumption DEF NoEntry
  <2>3. QED
    BY <1>3, <2>1, <2>2 DEF GateInv, EntryOwned
<1>5. refs \in [Uploads -> Nat] /\ refs[e] = Cardinality(Inside(e)) /\ IsFiniteSet(Inside(e))
  BY <1>2, UploadsFinite DEF GateInv, GateTypes, Counted, Inside
<1>6. \A v \in Uploads \ {u} : at'[v] = at[v]
  BY <1>1
<1>7. at'[u] = "done"
  BY <1>1 DEF BytesInv, UploadTypes
<1>8. Cardinality(Inside(e) \ {u}) = Cardinality(Inside(e)) - 1 /\ Cardinality(Inside(e) \ {u}) \in Nat
  BY <1>2, <1>5, FS_RemoveElement, UploadsFinite DEF Inside
<1>9. GateTypes'
  <2>1. refs[e] - 1 \in Nat
    BY <1>5, <1>8
  <2>2. refs' \in [Uploads -> Nat]
    BY <1>1, <1>2, <1>5, <2>1
  <2>3. QED
    BY <1>1, <2>2 DEF GateInv, GateTypes
<1>10. keys \in [Owners -> Uploads \union {NoEntry}] /\ \A p \in Owners \ {o} : keys'[p] = keys[p]
  BY <1>1 DEF GateInv, GateTypes
<1>11. EntryShared'
  <2> SUFFICES ASSUME NEW v \in Uploads, v # u, at[v] \in Gated
               PROVE  entry[v] \in Uploads /\ keys'[OwnerOf[v]] = entry[v]
    BY <1>1, <1>6, <1>7 DEF EntryShared, Gated
  <2>1. entry[v] \in Uploads /\ keys[OwnerOf[v]] = entry[v] /\ OwnerOf[v] \in Owners
    BY DEF GateInv, EntryShared, Owners
  <2>2. CASE OwnerOf[v] = o
    <3>1. v \in Inside(e) \ {u}
      BY <1>2, <2>1, <2>2 DEF Inside
    <3>2. Cardinality(Inside(e) \ {u}) # 0
      BY <1>5, <3>1, FS_EmptySet, UploadsFinite DEF Inside
    <3>3. refs[e] # 1
      BY <1>5, <1>8, <3>2
    <3>4. QED
      BY <1>1, <2>1, <3>3
  <2>3. CASE OwnerOf[v] # o
    BY <1>10, <2>1, <2>3
  <2>4. QED
    BY <2>2, <2>3
<1>12. EntryOwned'
  <2> SUFFICES ASSUME NEW p \in Owners, keys'[p] # NoEntry
               PROVE  OwnerOf[keys'[p]] = p /\ \E v \in Uploads : OwnerOf[v] = p /\ at'[v] \in Gated
    BY DEF EntryOwned
  <2>1. CASE p = o
    <3>1. refs[e] # 1 /\ keys'[o] = e
      BY <1>1, <1>2, <1>10, <2>1
    <3>2. PICK v \in Inside(e) \ {u} : TRUE
      <4>1. Cardinality(Inside(e) \ {u}) # 0
        BY <1>5, <1>8, <3>1
      <4>2. Inside(e) \ {u} # {}
        BY <4>1, FS_EmptySet
      <4>3. QED
        BY <4>2
    <3>3. OwnerOf[v] = o /\ v \in Uploads /\ at'[v] \in Gated
      BY <1>4, <1>6, <3>2 DEF Inside
    <3>4. QED
      BY <1>3, <2>1, <3>1, <3>3
  <2>2. CASE p # o
    <3>1. keys'[p] = keys[p]
      BY <1>10, <2>2
    <3>2. OwnerOf[keys[p]] = p
      BY <3>1 DEF GateInv, EntryOwned
    <3>3. PICK v \in Uploads : OwnerOf[v] = p /\ at[v] \in Gated
      BY <3>1 DEF GateInv, EntryOwned
    <3>4. at'[v] = at[v]
      BY <1>6, <2>2, <3>3
    <3>5. QED
      BY <3>1, <3>2, <3>3, <3>4
  <2>3. QED
    BY <2>1, <2>2
<1>13. Counted'
  <2>1. Inside(e)' = Inside(e) \ {u}
    BY <1>1, <1>6, <1>7 DEF Inside, Gated
  <2>2. \A f \in Uploads \ {e} : Inside(f)' = Inside(f)
    BY <1>0, <1>1, <1>6, <1>7 DEF Inside, Gated
  <2>3. \A f \in Uploads : Creating(f)' = Creating(f)
    BY <1>1, <1>6, <1>7 DEF Creating
  <2>4. refs'[e] = refs[e] - 1 /\ \A f \in Uploads \ {e} : refs'[f] = refs[f]
    BY <1>1, <1>2, <1>5
  <2>5. \A f \in Uploads : tokens'[f] = Cardinality(Creating(f)') /\ tokens'[f] <= Width
    BY <1>1, <2>3 DEF GateInv, Counted
  <2>6. refs'[e] = Cardinality(Inside(e)')
    BY <1>5, <1>8, <2>1, <2>4
  <2>7. \A f \in Uploads \ {e} : refs'[f] = Cardinality(Inside(f)')
    BY <2>2, <2>4 DEF GateInv, Counted
  <2>8. QED
    BY <2>5, <2>6, <2>7 DEF Counted
<1>14. QED
  BY <1>9, <1>11, <1>12, <1>13 DEF GateInv

LEMMA NextGate == BytesInv /\ GateInv /\ [Next]_uploadVars => GateInv'
<1> SUFFICES ASSUME BytesInv, GateInv, [Next]_uploadVars PROVE GateInv'
  OBVIOUS
<1>1. CASE UNCHANGED uploadVars \/ Shutdown
  BY <1>1, GateStays DEF uploadVars, Shutdown, gateVars
<1>2. ASSUME NEW u \in Uploads, Session(u) PROVE GateInv'
  BY <1>2, GateRead, GateAdmitted, GateInsertPaste, GateLeaveGate, GateOutside DEF Session
<1>3. ASSUME NEW u \in Uploads, \/ Open(u) \/ Background(u) \/ Delete(u) \/ DeleteBytes(u) \/ Interrupt(u)
                              \/ Resume(u)
      PROVE  GateInv'
  BY <1>3, GateOutside
<1>4. QED
  BY <1>1, <1>2, <1>3 DEF Next

-----------------------------------------------------------------------------
(* The two semaphores. *)

\* A semaphore lets somebody through if anybody waits.
Moving(sem) == sem.queue \in Seq(Uploads) /\ (sem.queue # <<>> => sem.held # {})

SemaphoresInv == Moving(slots) /\ Moving(blobs)

\* A weight no larger than the semaphore fits by itself.
LEMMA FitsAlone ==
  ASSUME NEW u, NEW weight, weight[u] \in Nat
  PROVE  Total([v \in {u} |-> weight[v]]) = weight[u]
<1> DEFINE zero == [v \in {u} |-> 0]
<1>1. zero \in [{u} -> Nat] /\ u \in {u} /\ IsFiniteSet({u})
  BY FS_Singleton
<1>2. Total(zero) = 0
  BY TotalZero
<1>3. [v \in {u} |-> weight[v]] = [zero EXCEPT ![u] = weight[u]] /\ zero[u] = 0
  OBVIOUS
<1> HIDE DEF zero
<1>4. Total([zero EXCEPT ![u] = weight[u]]) = Total(zero) - zero[u] + weight[u]
  BY <1>1, TotalUpdate
<1>5. QED
  BY <1>2, <1>3, <1>4

LEMMA GrantedMoves ==
  ASSUME NEW sem, sem.queue \in Seq(Uploads), NEW size \in Nat, NEW weight \in [Uploads -> 0..size]
  PROVE  Moving(Granted(sem, weight, size))
<1> DEFINE q == sem.queue
           taken(n) == Total([u \in sem.held \union {q[i] : i \in 1..n} |-> weight[u]])
           fits == {i \in 0..Len(q) : i = 0 \/ taken(i) <= size}
           n == Max(fits)
           held == sem.held \union {q[i] : i \in 1..n}
<1>1. Granted(sem, weight, size) = [queue |-> SubSeq(q, n + 1, Len(q)), held |-> held]
  BY DEF Granted
<1>2. Len(q) \in Nat /\ fits \subseteq 0..Len(q) /\ 0 \in fits
  OBVIOUS
<1>3. n \in fits /\ \A i \in fits : i <= n
  <2> HIDE DEF fits
  <2>1. \E m \in fits : \A i \in fits : m >= i
    <3> DEFINE below == {Len(q) - i : i \in fits}
    <3>1. below \in SUBSET Nat /\ below # {}
      BY <1>2
    <3>2. PICK b \in below : \A c \in below : b <= c
      BY <3>1, LowestExists
    <3>3. PICK m \in fits : b = Len(q) - m
      BY <3>2
    <3>4. \A i \in fits : Len(q) - m <= Len(q) - i
      BY <3>2, <3>3
    <3>5. \A i \in fits : m >= i
      BY <1>2, <3>4
    <3>6. QED
      BY <3>5
  <2>2. n \in fits /\ \A i \in fits : n >= i
    BY <2>1 DEF Max
  <2>3. QED
    BY <1>2, <2>2
<1>4. n \in 0..Len(q)
  BY <1>2, <1>3
<1>5. n = 0 /\ q # <<>> => sem.held # {}
  <2> SUFFICES ASSUME n = 0, q # <<>>, sem.held = {} PROVE FALSE
    OBVIOUS
  <2>1. 1 \in 0..Len(q) /\ q[1] \in Uploads
    OBVIOUS
  <2>2. sem.held \union {q[i] : i \in 1..1} = {q[1]}
    OBVIOUS
  <2>3. taken(1) = weight[q[1]]
    <3>1. Total([v \in {q[1]} |-> weight[v]]) = weight[q[1]]
      <4>1. PICK first \in Uploads : first = q[1]
        BY <2>1
      <4>2. weight[first] \in Nat
        OBVIOUS
      <4>3. Total([v \in {first} |-> weight[v]]) = weight[first]
        BY <4>2, FitsAlone
      <4>4. QED
        BY <4>1, <4>3
    <3>2. \A S : S = {q[1]} => Total([v \in S |-> weight[v]]) = weight[q[1]]
      BY <3>1
    <3>3. QED
      BY <2>2, <3>2
  <2>4. 1 \in fits
    BY <2>1, <2>3
  <2> HIDE DEF fits, n
  <2>5. QED
    BY <1>3, <2>4
<1> HIDE DEF n, fits
<1>6. SubSeq(q, n + 1, Len(q)) \in Seq(Uploads)
  BY <1>4
<1>7. SubSeq(q, n + 1, Len(q)) # <<>> => held # {}
  <2>1. CASE n = 0
    BY <1>5, <2>1
  <2>2. CASE n # 0
    <3>1. 1 \in 1..n
      BY <1>4, <2>2
    <3>2. q[1] \in held
      BY <3>1
    <3>3. QED
      BY <3>2
  <2>3. QED
    BY <2>1, <2>2
<1> HIDE DEF held
<1>8. QED
  BY <1>1, <1>6, <1>7 DEF Moving

LEMMA QueueKept ==
  ASSUME NEW sem, sem.queue \in Seq(Uploads), NEW u \in Uploads,
         sem = [queue |-> sem.queue, held |-> sem.held]
  PROVE  Joined(sem, u).queue \in Seq(Uploads) /\ Left(sem, u).queue \in Seq(Uploads)
<1>1. Joined(sem, u).queue = Append(sem.queue, u)
  BY DEF Joined
<1>2. RemoveFirst(sem.queue, u) \in Seq(Uploads)
  <2> DEFINE q == sem.queue
             places == {i \in 1..Len(q) : q[i] = u}
  <2>1. CASE places = {}
    BY <2>1 DEF RemoveFirst
  <2>2. CASE places # {}
    <3>0. places \in SUBSET Nat
      OBVIOUS
    <3>1. PICK p \in places : \A i \in places : p <= i
      BY <2>2, <3>0, LowestExists
    <3>2. Min(places) \in places
      BY <3>1 DEF Min
    <3>3. RemoveFirst(q, u) = RemoveAt(q, Min(places))
      BY <2>2 DEF RemoveFirst, SelectInSeq
    <3> HIDE DEF places
    <3>4. Min(places) \in 1..Len(q)
      BY <3>2 DEF places
    <3>5. PICK m \in 1..Len(q) : m = Min(places)
      BY <3>4
    <3>6. RemoveAt(q, m) \in Seq(Uploads)
      BY DEF RemoveAt
    <3>7. QED
      BY <3>3, <3>5, <3>6
  <2>3. QED
    BY <2>1, <2>2
<1>3. QED
  BY <1>1, <1>2 DEF Left

\* Sizes as the semaphore of the store weighs them fit its budget.
LEMMA WeightsFit == One \in [Uploads -> 0..Slots] /\ Weight \in [Uploads -> 0..Budget]
BY UploadAssumption DEF One, Weight

SemTypes ==
    /\ slots = [queue |-> slots.queue, held |-> slots.held]
    /\ blobs = [queue |-> blobs.queue, held |-> blobs.held]

LEMMA GrantedShape ==
  ASSUME NEW sem, NEW weight, NEW size
  PROVE  LET g == Granted(sem, weight, size) IN g = [queue |-> g.queue, held |-> g.held]
BY DEF Granted

SemInv == SemTypes /\ SemaphoresInv

LEMMA InitSem == Init => SemInv
BY DEF Init, SemInv, SemTypes, SemaphoresInv, Moving, Free

\* The steps that change a semaphore.
LEMMA SemMoves ==
  ASSUME SemInv, NEW u \in Uploads,
         slots' \in {slots, Granted(Joined(slots, u), One, Slots), Granted(Left(slots, u), One, Slots)},
         blobs' \in {blobs, Granted(Joined(blobs, u), Weight, Budget), Granted(Left(blobs, u), Weight, Budget)}
  PROVE  SemInv'
<1>1. /\ Moving(Granted(Joined(slots, u), One, Slots)) /\ Moving(Granted(Left(slots, u), One, Slots))
      /\ Moving(Granted(Joined(blobs, u), Weight, Budget)) /\ Moving(Granted(Left(blobs, u), Weight, Budget))
  <2>1. /\ Joined(slots, u).queue \in Seq(Uploads) /\ Left(slots, u).queue \in Seq(Uploads)
        /\ Joined(blobs, u).queue \in Seq(Uploads) /\ Left(blobs, u).queue \in Seq(Uploads)
    BY QueueKept DEF SemInv, SemTypes, SemaphoresInv, Moving
  <2>2. Slots \in Nat /\ Budget \in Nat
    BY UploadAssumption
  <2>3. QED
    BY <2>1, <2>2, WeightsFit, GrantedMoves
<1>2. SemTypes'
  BY GrantedShape DEF SemInv, SemTypes
<1>3. Moving(slots') /\ Moving(blobs')
  BY <1>1 DEF SemInv, SemaphoresInv
<1>4. QED
  BY <1>2, <1>3 DEF SemInv, SemaphoresInv, Moving

LEMMA NextSem == SemInv /\ [Next]_uploadVars => SemInv'
<1> SUFFICES ASSUME SemInv, [Next]_uploadVars PROVE SemInv'
  OBVIOUS
<1>1. CASE UNCHANGED uploadVars \/ Shutdown
  BY <1>1 DEF uploadVars, Shutdown, SemInv, SemTypes, SemaphoresInv, Moving
<1>2. ASSUME NEW u \in Uploads,
             \/ Open(u) \/ Session(u) \/ Background(u) \/ Delete(u) \/ DeleteBytes(u) \/ Interrupt(u) \/ Resume(u)
      PROVE  SemInv'
  <2>1. slots' \in {slots, Granted(Joined(slots, u), One, Slots), Granted(Left(slots, u), One, Slots)}
    BY <1>2 DEF Open, Session, Background, Delete, DeleteBytes, Interrupt, Resume, GiveUp, Read, Admitted,
                InsertPaste, LeaveGate, InsertSite, DiscardSite, Write, MarkReady, MarkFailed, Finish,
                Ends, TakeSlot, LeaveSlot
  <2>2. blobs' \in {blobs, Granted(Joined(blobs, u), Weight, Budget), Granted(Left(blobs, u), Weight, Budget)}
    BY <1>2 DEF Open, Session, Background, Delete, DeleteBytes, Interrupt, Resume, GiveUp, Read, Admitted,
                InsertPaste, LeaveGate, InsertSite, DiscardSite, Write, MarkReady, MarkFailed, Finish,
                JoinBlobs, LeaveBlobs
  <2>3. QED
    BY <2>1, <2>2, SemMoves
<1>3. QED
  BY <1>1, <1>2 DEF Next

LEMMA SemGates == SemInv => GatesMove
BY DEF SemInv, SemaphoresInv, Moving, GatesMove

\* However uploads come, wait, fail and leave, no owner has more than Width
\* creates at the metadata, no entry outlives its users, and no gate stands
\* still (admission.go Acquire, upload_admission.go, blob_gated.go).
THEOREM AlwaysGatesHold == Spec => []GatesHold
<1> DEFINE Inv == BytesInv /\ GateInv /\ SemInv
<1>1. Init => Inv
  BY InitBytes, InitGate, InitSem
<1>2. Inv /\ [Next]_uploadVars => Inv'
  BY NextBytes, NextGate, NextSem
<1>3. Inv => GatesHold
  BY GateWidth, SemGates DEF GatesHold
<1> HIDE DEF Inv
<1>4. QED
  BY <1>1, <1>2, <1>3, PTL DEF Spec

-----------------------------------------------------------------------------
(* The viewer of a knowledge base                                          *)

-----------------------------------------------------------------------------
(* The page. *)

\* The page holds a listing, an error, or the document fetched last, unless
\* that one is still on its way.
PageHolds ==
    IF pending = None THEN shown.kind \in {"panel", "error"}
                      ELSE fetches[pending] > 0 \/ shown = Doc(pending)

PageInv ==
    /\ pending \in Documents \union {None} /\ fetches \in [Documents -> Nat]
    /\ listed = "asked" => shown = Blank /\ pending = None
    /\ listed = "yes" => PageHolds

LEMMA PageLast == PageInv => LastAskedShown
<1> SUFFICES ASSUME PageInv, Quiet, pending # None PROVE shown = Doc(pending)
  BY DEF LastAskedShown, PageInv, PageHolds, Quiet
<1>1. pending \in Documents
  BY DEF PageInv
<1>2. QED
  BY <1>1 DEF PageInv, PageHolds, Quiet

LEMMA InitPage == BaseInit => PageInv
BY DEF BaseInit, PageInv

LEMMA NoneApart == None \notin Documents
BY BaseAssumption DEF None

\* Whatever place is shown, what was there is left or replaced by it.
LEMMA ShowKeeps ==
  ASSUME PageInv, NEW p, Show(p), listed' = "yes",
         listed = "yes" \/ shown = Blank
  PROVE  PageInv'
<1>1. CASE Named(p) \in Documents
  <2> DEFINE d == Named(p)
  <2>1. CASE d = Rendered
    <3>1. listed = "yes"
      BY <1>1, <2>1, NoneApart DEF Rendered, Blank
    <3>2. UNCHANGED <<shown, pending, fetches>>
      BY <1>1, <2>1 DEF Show, OpenDoc
    <3>3. QED
      BY <3>1, <3>2 DEF PageInv, PageHolds
  <2>2. CASE d # Rendered
    <3>1. pending' = d /\ fetches' = [fetches EXCEPT ![d] = @ + 1]
      BY <1>1, <2>2 DEF Show, OpenDoc
    <3> HIDE DEF d
    <3>2. d \in Documents /\ d # None
      BY <1>1, NoneApart DEF d
    <3>3. fetches' \in [Documents -> Nat] /\ fetches'[d] > 0
      BY <3>1, <3>2 DEF PageInv
    <3>4. QED
      BY <3>1, <3>2, <3>3 DEF PageInv, PageHolds
  <2>3. QED
    BY <2>1, <2>2
<1>2. CASE Named(p) \notin Documents
  <2>1. pending' = None /\ shown' = [kind |-> "panel", place |-> p] /\ fetches' = fetches
    BY <1>2 DEF Show, Begin
  <2>2. QED
    BY <2>1 DEF PageInv, PageHolds
<1>3. QED
  BY <1>1, <1>2

LEMMA AnswerKeeps ==
  ASSUME PageInv, NEW d \in Documents, NEW ok \in BOOLEAN, DocAnswered(d, ok)
  PROVE  PageInv'
<1>1. fetches' \in [Documents -> Nat] /\ \A e \in Documents \ {d} : fetches'[e] = fetches[e]
  BY DEF PageInv, DocAnswered
<1>2. CASE pending # d
  <2>1. UNCHANGED <<listed, shown, pending>>
    BY <1>2 DEF DocAnswered, Wins
  <2>2. QED
    BY <1>1, <1>2, <2>1 DEF PageInv, PageHolds
<1>3. CASE pending = d
  <2>1. listed' = listed /\ listed # "asked"
    BY <1>3, NoneApart DEF DocAnswered, PageInv
  <2>2. CASE ok
    <3>1. shown' = Doc(d) /\ pending' = d
      BY <1>3, <2>2 DEF DocAnswered, Wins
    <3>2. QED
      BY <1>1, <2>1, <3>1, NoneApart DEF PageInv, PageHolds
  <2>3. CASE ~ok
    <3>1. shown' = [kind |-> "error", place |-> d] /\ pending' = None
      BY <1>3, <2>3 DEF DocAnswered, Wins, Begin
    <3>2. QED
      BY <1>1, <2>1, <3>1 DEF PageInv, PageHolds
  <2>4. QED
    BY <2>2, <2>3
<1>4. QED
  BY <1>2, <1>3

LEMMA NextPage == PageInv /\ [BaseNext]_baseVars => PageInv'
<1> SUFFICES ASSUME PageInv, [BaseNext]_baseVars PROVE PageInv'
  OBVIOUS
<1>1. ASSUME UNCHANGED <<listed, shown, pending, fetches>> PROVE PageInv'
  BY <1>1 DEF PageInv, PageHolds
<1>2. CASE UNCHANGED baseVars
  BY <1>1, <1>2 DEF baseVars
<1>3. CASE Reader
  <2>1. ASSUME NEW p \in Places, Navigate(p) PROVE PageInv'
    BY <2>1, ShowKeeps DEF Navigate
  <2>2. ASSUME NEW i \in 1..Len(entries.seq), Travel(i) PROVE PageInv'
    BY <2>2, <1>1, ShowKeeps DEF Travel
  <2>3. ASSUME NEW q, Type(q) PROVE PageInv'
    BY <2>3, <1>1 DEF Type
  <2>4. CASE Focus \/ Leave
    BY <2>4, <1>1 DEF Focus, Leave
  <2>5. QED
    BY <1>3, <2>1, <2>2, <2>3, <2>4 DEF Reader
<1>4. CASE PageAnswers
  <2>1. CASE Listed
    BY <2>1, ShowKeeps DEF Listed, PageInv
  <2>2. CASE NotListed
    BY <2>2 DEF NotListed, Begin, PageInv
  <2>3. QED
    BY <1>4, <2>1, <2>2, AnswerKeeps DEF PageAnswers
<1>5. CASE TimerRuns
  BY <1>1, <1>5 DEF TimerRuns
<1>6. CASE Walks
  <2>1. ASSUME NEW ok \in BOOLEAN, Walked(ok) PROVE UNCHANGED <<listed, shown, pending, fetches>>
    BY <2>1 DEF Walked
  <2>2. QED
    BY <1>1, <1>6, <2>1 DEF Walks, Stop, Step
<1>7. QED
  BY <1>2, <1>3, <1>4, <1>5, <1>6 DEF BaseNext

\* Whatever documents and listings the reader asked for and in whatever order
\* the answers came, a quiet page holds the one it fetched last (kb.js openDoc
\* and begin).
THEOREM AlwaysLastShown == BaseSpec => []LastAskedShown
BY InitPage, NextPage, PageLast, PTL DEF BaseSpec

-----------------------------------------------------------------------------
(* The index and the search. *)

Notes == [done : BOOLEAN, indexed : SUBSET Documents, failures : Nat, bounded : BOOLEAN]

Indexes ==
    [texts : SUBSET Documents, seeds : SUBSET Documents, cursor : 0..Len(Docs), failures : Nat,
     bounded : BOOLEAN, done : BOOLEAN, walk : {"off", "timer", "fetching", "over"}]

Searches ==
    [value : Queries \union {Short}, typing : BOOLEAN, open : BOOLEAN, hits : SUBSET Documents,
     of : Queries \union {Short}, note : Notes]

\* What the walk of an index x has come to.
Passed(n) == {Docs[i] : i \in 1..n}
Absent(x) == Passed(x.cursor) \ x.texts

\* The index is in the order of the list, and open until its walk is over.
InOrder(x) ==
    /\ x.texts \subseteq Passed(x.cursor)
    /\ x.walk = "fetching" => x.cursor > 0 /\ Docs[x.cursor] \notin x.texts
    /\ Cardinality(Absent(x)) = x.failures + IF x.walk = "fetching" THEN 1 ELSE 0
    /\ x.cursor > 0 => ~AtBound(x.texts \ {Docs[x.cursor]})
    /\ x.bounded => x.done /\ AtBound(x.texts)
    /\ x.done => x.walk = "over" /\ x.seeds = {}
    /\ x.walk = "over" => x.done

\* The search says what the index has, once that is over.
Tells(s, x) ==
    /\ s.note = State(x)
    /\ s.open /\ ~s.typing => s.hits = x.texts /\ s.of = s.value

IndexInv ==
    /\ index \in Indexes /\ search \in Searches
    /\ listed = "asked" => index.walk = "off"
    /\ InOrder(index)
    /\ index.done => Tells(search, index)

LEMMA IndexHolds == IndexInv => IndexFaithful
<1> SUFFICES ASSUME IndexInv PROVE IndexFaithful
  OBVIOUS
<1>1. NothingBeyond /\ TellsAll
  BY DEF IndexInv, InOrder, Tells, NothingBeyond, TellsAll
<1>2. IndexInOrder
  <2> DEFINE passed == {Docs[i] : i \in 1..index.cursor}
             absent == passed \ index.texts
             before == IF index.cursor = 0 THEN {} ELSE index.texts \ {Docs[index.cursor]}
  <2>1. index.texts \subseteq passed
    BY DEF IndexInv, InOrder, Passed
  <2>2. Cardinality(absent) = index.failures + IF index.walk = "fetching" THEN 1 ELSE 0
    BY DEF IndexInv, InOrder, Passed, Absent
  <2>3. index.cursor > 0 => ~AtBound(before)
    BY DEF IndexInv, Indexes, InOrder
  <2>4. index.bounded => AtBound(index.texts)
    BY DEF IndexInv, InOrder
  <2>5. QED
    BY <2>1, <2>2, <2>3, <2>4 DEF IndexInOrder
<1>3. QED
  BY <1>1, <1>2 DEF IndexFaithful

LEMMA StateNoted == ASSUME NEW x \in Indexes PROVE State(x) \in Notes
BY DEF State, Indexes, Notes

\* What a hidden and an answered search are.
LEMMA HiddenSearch ==
  ASSUME NEW s \in Searches
  PROVE  Hidden(s) \in Searches /\ ~Hidden(s).open /\ Hidden(s).note = s.note
BY DEF Hidden, Searches

LEMMA AnsweredSearch ==
  ASSUME NEW s \in Searches, NEW x \in Indexes
  PROVE  /\ Results(s, x) \in Searches
         /\ s.note = State(x) \/ s.value # Short => Tells(Results(s, x), x)
<1>1. CASE s.value = Short
  <2>1. Results(s, x) = Hidden(s)
    BY <1>1 DEF Results
  <2>2. PICK h \in Searches : h = Hidden(s) /\ ~h.open /\ h.note = s.note
    BY HiddenSearch
  <2>3. s.note = State(x) => Tells(h, x)
    BY <2>2 DEF Tells
  <2>4. QED
    BY <1>1, <2>1, <2>2, <2>3
<1>2. CASE s.value # Short
  <2>1. PICK n \in Notes : n = State(x)
    BY StateNoted
  <2>2. PICK hits \in SUBSET Documents : hits = x.texts
    BY DEF Indexes
  <2> DEFINE r == [s EXCEPT !.open = TRUE, !.of = s.value, !.hits = hits, !.note = n]
  <2>3. Results(s, x) = r
    BY <1>2, <2>1, <2>2 DEF Results
  <2>4. r \in Searches /\ r.hits = hits /\ r.note = n /\ r.of = r.value
    BY DEF Searches
  <2> HIDE DEF r
  <2>5. Tells(r, x)
    BY <2>1, <2>2, <2>4 DEF Tells
  <2>6. QED
    BY <1>2, <2>3, <2>4, <2>5
<1>3. QED
  BY <1>1, <1>2

\* A report leaves a search that tells all.
LEMMA ReportTells ==
  ASSUME NEW x \in Indexes, search \in Searches, Report(x)
  PROVE  search' \in Searches /\ Tells(search', x)
<1>1. PICK n \in Notes : n = State(x)
  BY StateNoted
<1> DEFINE noted == [search EXCEPT !.note = n]
<1>2. noted \in Searches /\ noted.note = n /\ noted.open = search.open
  BY DEF Searches
<1>3. search' = IF search.open THEN Results(noted, x) ELSE noted
  BY <1>1 DEF Report
<1> HIDE DEF noted
<1>4. CASE search.open
  BY <1>1, <1>2, <1>3, <1>4, AnsweredSearch
<1>5. CASE ~search.open
  BY <1>1, <1>2, <1>3, <1>5 DEF Tells
<1>6. QED
  BY <1>4, <1>5

LEMMA InitIndex == BaseInit => IndexInv
<1> SUFFICES ASSUME BaseInit PROVE IndexInv
  OBVIOUS
<1>1. index = NewIndex /\ NewIndex \in Indexes
  BY DEF BaseInit, NewIndex, Indexes
<1>2. search \in Searches
  BY <1>1, StateNoted DEF BaseInit, Searches
<1>3. InOrder(index)
  <2>1. index.texts = {} /\ index.cursor = 0 /\ ~index.bounded /\ ~index.done /\ index.walk = "off" /\ index.failures = 0
    BY <1>1 DEF NewIndex
  <2>2. Absent(index) = {}
    BY <2>1 DEF Absent, Passed
  <2>3. QED
    BY <2>1, <2>2, FS_EmptySet DEF InOrder
<1>4. ~index.done
  BY <1>1 DEF NewIndex
<1>5. QED
  BY <1>1, <1>2, <1>3, <1>4 DEF IndexInv, NewIndex

\* A step of the reader leaves the index alone, and the search in order.
LEMMA ReaderKeeps ==
  ASSUME IndexInv, index' = index, search' \in Searches, listed' # "asked" \/ listed' = listed,
         index.done => Tells(search', index)
  PROVE  IndexInv'
BY DEF IndexInv, InOrder, Absent, Tells

\* A walk that goes on has nothing to tell.
LEMMA WalkGoesOn ==
  ASSUME NEW x \in Indexes, index' = x, InOrder(x), ~x.done, search' \in Searches,
         listed' # "asked" \/ x.walk = "off"
  PROVE  IndexInv'
BY DEF IndexInv, InOrder, Absent

LEMMA HiddenTells ==
  ASSUME IndexInv, NEW s \in Searches, s.note = search.note
  PROVE  Hidden(s) \in Searches /\ (index.done => Tells(Hidden(s), index))
<1>1. PICK h \in Searches : h = Hidden(s) /\ ~h.open /\ h.note = s.note
  BY HiddenSearch
<1>2. index.done => Tells(h, index)
  BY <1>1 DEF Tells, IndexInv
<1>3. QED
  BY <1>1, <1>2

LEMMA AnsweredTells ==
  ASSUME IndexInv, NEW s \in Searches, s.note = search.note
  PROVE  Results(s, index) \in Searches /\ (index.done => Tells(Results(s, index), index))
BY AnsweredSearch DEF IndexInv, Tells

LEMMA IndexReader == ASSUME IndexInv, Reader PROVE IndexInv'
<1>0. search \in Searches
  BY DEF IndexInv
<1>1. ASSUME NEW p \in Places, Navigate(p) PROVE IndexInv'
  BY <1>0, <1>1, HiddenTells, ReaderKeeps DEF Navigate
<1>2. ASSUME NEW i \in 1..Len(entries.seq), Travel(i) PROVE IndexInv'
  BY <1>0, <1>2, ReaderKeeps DEF Travel, IndexInv
<1>3. ASSUME NEW q \in Queries \union {Short}, Type(q) PROVE IndexInv'
  <2> DEFINE s == [search EXCEPT !.value = q, !.typing = TRUE]
  <2>1. search' = s /\ index' = index /\ listed' = listed
    BY <1>3 DEF Type
  <2>2. s \in Searches /\ s.typing /\ s.note = search.note
    BY <1>0 DEF Searches
  <2> HIDE DEF s
  <2>3. index.done => Tells(s, index)
    BY <2>2 DEF IndexInv, Tells
  <2>4. QED
    BY <2>1, <2>2, <2>3, ReaderKeeps
<1>4. CASE Focus
  BY <1>0, <1>4, AnsweredTells, ReaderKeeps DEF Focus
<1>5. CASE Leave
  <2>1. CASE search' = Hidden(search)
    BY <1>0, <1>5, <2>1, HiddenTells, ReaderKeeps DEF Leave
  <2>2. CASE search' = Hidden([search EXCEPT !.value = Short])
    <3> DEFINE s == [search EXCEPT !.value = Short]
    <3>1. s \in Searches /\ s.note = search.note
      BY <1>0 DEF Searches
    <3>2. search' = Hidden(s) /\ index' = index /\ listed' = listed
      BY <1>5, <2>2 DEF Leave
    <3> HIDE DEF s
    <3>3. QED
      BY <3>1, <3>2, HiddenTells, ReaderKeeps
  <2>3. QED
    BY <1>5, <2>1, <2>2 DEF Leave
<1>6. QED
  BY <1>1, <1>2, <1>3, <1>4, <1>5 DEF Reader

LEMMA IndexTimer == ASSUME IndexInv, TimerRuns PROVE IndexInv'
<1> DEFINE s == [search EXCEPT !.typing = FALSE]
<1>1. s \in Searches /\ s.note = search.note
  BY DEF IndexInv, Searches
<1>2. search' = Results(s, index) /\ index' = index /\ listed' = listed
  BY DEF TimerRuns
<1> HIDE DEF s
<1>3. QED
  BY <1>1, <1>2, AnsweredTells, ReaderKeeps

\* The list and the answers of the page: seeds, before the walk is over.
LEMMA IndexAnswers == ASSUME IndexInv, PageAnswers PROVE IndexInv'
<1>0. index \in Indexes /\ search \in Searches /\ InOrder(index)
  BY DEF IndexInv
<1>1. CASE Listed
  <2> DEFINE x == [index EXCEPT !.walk = "timer"]
  <2>1. index' = x /\ search' = [search EXCEPT !.note = State(index)] /\ listed' = "yes" /\ index.walk = "off"
    BY <1>1 DEF Listed, IndexInv
  <2>2. search' \in Searches
    <3>1. PICK n \in Notes : n = State(index)
      BY StateNoted DEF IndexInv
    <3>2. QED
      BY <2>1, <3>1 DEF IndexInv, Searches
  <2>3. /\ x \in Indexes /\ x.walk = "timer" /\ x.texts = index.texts /\ x.cursor = index.cursor
        /\ x.failures = index.failures /\ x.bounded = index.bounded /\ x.done = index.done
    BY <1>0 DEF Indexes
  <2> HIDE DEF x
  <2>4. InOrder(x) /\ ~x.done
    BY <1>0, <2>1, <2>3 DEF InOrder, Absent
  <2>5. QED
    BY <2>1, <2>2, <2>3, <2>4, WalkGoesOn
<1>2. CASE NotListed
  BY <1>0, <1>2, ReaderKeeps DEF NotListed, IndexInv
<1>3. ASSUME NEW d \in Documents, NEW ok \in BOOLEAN, DocAnswered(d, ok) PROVE IndexInv'
  <2>1. listed' = listed /\ search' = search
    BY <1>3 DEF DocAnswered
  <2>2. CASE index' = index
    BY <1>0, <2>1, <2>2, ReaderKeeps DEF IndexInv
  <2>3. CASE index' # index
    <3> DEFINE x == [index EXCEPT !.seeds = @ \union {d}]
    <3>1. ~index.done /\ index' = x
      BY <1>3, <2>3 DEF DocAnswered, Seed
    <3>2. /\ x \in Indexes /\ x.walk = index.walk /\ x.texts = index.texts /\ x.cursor = index.cursor
          /\ x.failures = index.failures /\ x.bounded = index.bounded /\ x.done = index.done
      BY <1>0 DEF Indexes
    <3> HIDE DEF x
    <3>3. InOrder(x)
      BY <1>0, <3>1, <3>2 DEF InOrder, Absent
    <3>4. listed' # "asked" \/ x.walk = "off"
      BY <2>1, <3>2 DEF IndexInv
    <3>5. QED
      BY <1>0, <2>1, <3>1, <3>2, <3>3, <3>4, WalkGoesOn
  <2>4. QED
    BY <2>2, <2>3
<1>4. QED
  BY <1>1, <1>2, <1>3 DEF PageAnswers

-----------------------------------------------------------------------------
(* The walk. *)

LEMMA PassedGrows ==
  ASSUME NEW n \in 0..(Len(Docs) - 1)
  PROVE  /\ Passed(n + 1) = Passed(n) \union {Docs[n + 1]} /\ Docs[n + 1] \notin Passed(n)
         /\ Docs[n + 1] \in Documents
<1>1. Len(Docs) \in Nat /\ \A i, j \in 1..Len(Docs) : Docs[i] = Docs[j] => i = j
  BY BaseAssumption
<1>2. 1..(n + 1) = (1..n) \union {n + 1} /\ n + 1 \in 1..Len(Docs) /\ 1..n \subseteq 1..Len(Docs) /\ n + 1 \notin 1..n
  BY <1>1
<1>3. QED
  BY <1>1, <1>2 DEF Passed, Documents

LEMMA PassedFinite == ASSUME NEW n \in Nat, NEW S \in SUBSET Passed(n) PROVE IsFiniteSet(S) /\ Cardinality(S) \in Nat
<1>1. IsFiniteSet(1..n)
  BY FS_Interval
<1>2. IsFiniteSet(Passed(n))
  <2> DEFINE passes == [i \in 1..n |-> Docs[i]]
  <2>1. passes \in Surjection(1..n, Passed(n))
    BY Fun_IsSurj DEF Passed
  <2> HIDE DEF passes
  <2>2. QED
    BY <1>1, <2>1, FS_Surjection
<1>3. QED
  BY <1>2, FS_Subset, FS_CardinalityType

\* The turns of the walk tell nothing wrong: it is not over.
LEMMA TurnKeeps ==
  ASSUME IndexInv, NEW x \in Indexes, NextTurn(x), ~x.done, listed' # "asked",
         InOrder([x EXCEPT !.walk = "timer"])
  PROVE  IndexInv'
<1> DEFINE y == [x EXCEPT !.walk = "timer"]
<1>1. y \in Indexes /\ y.done = x.done
  BY DEF Indexes
<1>2. index' = y
  BY DEF NextTurn
<1>3. search' \in Searches
  <2>1. PICK z \in Indexes : z = index'
    BY <1>1, <1>2
  <2>2. Report(z) \/ search' = search
    BY <2>1 DEF NextTurn
  <2>3. search \in Searches
    BY DEF IndexInv
  <2>4. QED
    BY <2>2, <2>3, ReportTells
<1>4. InOrder(y)
  OBVIOUS
<1> HIDE DEF y
<1>5. QED
  BY <1>1, <1>2, <1>3, <1>4, WalkGoesOn

\* A text that is absorbed at the cursor.
LEMMA Absorbs ==
  ASSUME NEW x \in Indexes, ~x.done, ~x.bounded, x.cursor > 0,
         Docs[x.cursor] \notin x.texts, x.texts \subseteq Passed(x.cursor),
         Cardinality(Absent(x)) = x.failures + 1, ~AtBound(x.texts)
  PROVE  LET y == Absorbed(x, Docs[x.cursor]) IN
         y \in Indexes /\ ~y.done /\ InOrder([y EXCEPT !.walk = "timer"])
<1> DEFINE d == Docs[x.cursor]
           y == Absorbed(x, d)
           z == [y EXCEPT !.walk = "timer"]
<1>1. x.cursor \in Nat /\ x.cursor \in 1..Len(Docs) /\ d \in Documents /\ d \in Passed(x.cursor)
  BY BaseAssumption DEF Indexes, Documents, Passed
<1> HIDE DEF d
<1>2. /\ y \in Indexes /\ y.texts = x.texts \union {d} /\ y.cursor = x.cursor /\ y.failures = x.failures
      /\ y.done = x.done /\ y.bounded = x.bounded
  BY <1>1 DEF Indexes, Absorbed
<1> HIDE DEF y
<1>3. /\ z \in Indexes /\ z.texts = y.texts /\ z.cursor = y.cursor /\ z.failures = y.failures
      /\ z.done = y.done /\ z.bounded = y.bounded /\ z.walk = "timer"
  BY <1>2 DEF Indexes
<1> HIDE DEF z
<1>4. Absent(z) = Absent(x) \ {d} /\ d \in Absent(x)
  BY <1>1, <1>2, <1>3 DEF Absent, d
<1>5. Cardinality(Absent(x) \ {d}) = Cardinality(Absent(x)) - 1
  <2>1. Absent(x) \in SUBSET Passed(x.cursor)
    BY DEF Absent
  <2>2. IsFiniteSet(Absent(x))
    BY <1>1, <2>1, PassedFinite
  <2>3. QED
    BY <1>4, <2>2, FS_RemoveElement
<1>6. z.texts \ {d} = x.texts
  BY <1>2, <1>3 DEF d
<1>7. InOrder(z)
  <2>1. Cardinality(Absent(z)) = z.failures
    BY <1>2, <1>3, <1>4, <1>5 DEF Indexes
  <2>2. z.texts \subseteq Passed(z.cursor)
    BY <1>1, <1>2, <1>3
  <2>3. ~AtBound(z.texts \ {Docs[z.cursor]})
    BY <1>2, <1>3, <1>6 DEF d
  <2>4. QED
    BY <1>2, <1>3, <2>1, <2>2, <2>3 DEF InOrder, Indexes
<1>8. QED
  BY <1>2, <1>3, <1>7 DEF y, z, d

LEMMA StopKeeps == ASSUME IndexInv, Stop PROVE IndexInv'
<1> DEFINE b == index.cursor < Len(Docs)
           y == [index EXCEPT !.bounded = b, !.seeds = {}, !.done = TRUE, !.walk = "over"]
<1>1. index \in Indexes /\ InOrder(index) /\ search \in Searches
  BY DEF IndexInv
<1>2. /\ index.walk = "timer" /\ (index.cursor = Len(Docs) \/ AtBound(index.texts))
      /\ index' = y /\ Report(index') /\ listed' = listed
  BY DEF Stop
<1>3. b \in BOOLEAN
  OBVIOUS
<1>4. b => AtBound(index.texts)
  BY <1>2, BaseAssumption
<1> HIDE DEF b
<1>5. /\ y \in Indexes /\ y.texts = index.texts /\ y.seeds = {} /\ y.cursor = index.cursor
      /\ y.failures = index.failures /\ y.bounded = b /\ y.done = TRUE /\ y.walk = "over"
  BY <1>1, <1>3 DEF Indexes
<1> HIDE DEF y
<1>6. InOrder(y)
  BY <1>1, <1>2, <1>4, <1>5 DEF InOrder, Absent
<1>7. PICK z \in Indexes : z = y
  BY <1>5
<1>8. search' \in Searches /\ Tells(search', z)
  BY <1>1, <1>2, <1>7, ReportTells
<1>9. index' = z /\ InOrder(z) /\ listed # "asked"
  BY <1>2, <1>6, <1>7 DEF IndexInv
<1>10. QED
  BY <1>2, <1>8, <1>9 DEF IndexInv, InOrder, Absent, Tells

LEMMA StepKeeps == ASSUME IndexInv, Step PROVE IndexInv'
<1> DEFINE c == index.cursor + 1
           x == [index EXCEPT !.cursor = c]
           d == Docs[c]
<1>1. index \in Indexes /\ InOrder(index) /\ search \in Searches
  BY DEF IndexInv
<1>2. /\ index.walk = "timer" /\ index.cursor < Len(Docs) /\ ~AtBound(index.texts) /\ listed' = listed
      /\ IF d \in index.seeds THEN NextTurn(Absorbed(x, d))
         ELSE index' = [x EXCEPT !.walk = "fetching"] /\ UNCHANGED search
  BY DEF Step
<1>3. index.cursor \in 0..(Len(Docs) - 1) /\ c \in 1..Len(Docs) /\ Len(Docs) \in Nat
  BY <1>1, <1>2, BaseAssumption DEF Indexes
<1>4. Passed(c) = Passed(index.cursor) \union {d} /\ d \notin Passed(index.cursor) /\ d \in Documents
  BY <1>3, PassedGrows
<1>5. ~index.done /\ ~index.bounded /\ listed # "asked"
  BY <1>1, <1>2 DEF InOrder, IndexInv
<1> HIDE DEF c
<1>6. /\ x \in Indexes /\ x.texts = index.texts /\ x.seeds = index.seeds /\ x.cursor = c
      /\ x.failures = index.failures /\ x.bounded = index.bounded /\ x.done = index.done /\ x.walk = index.walk
  BY <1>1, <1>3 DEF Indexes
<1> HIDE DEF x
<1>7. index.texts \subseteq Passed(index.cursor) /\ Cardinality(Absent(index)) = index.failures /\ index.failures \in Nat
  BY <1>1, <1>2 DEF InOrder, Indexes
<1>8. Absent(x) = Absent(index) \union {d} /\ d \notin Absent(index)
  BY <1>4, <1>6, <1>7 DEF Absent
<1>9. Cardinality(Absent(x)) = x.failures + 1
  <2>1. IsFiniteSet(Absent(index))
    <3>1. Absent(index) \in SUBSET Passed(index.cursor) /\ index.cursor \in Nat
      BY <1>3 DEF Absent
    <3>2. QED
      BY <3>1, PassedFinite
  <2>2. Cardinality(Absent(index) \union {d}) = Cardinality(Absent(index)) + 1
    BY <1>8, <2>1, FS_AddElement
  <2>3. QED
    BY <1>6, <1>7, <1>8, <2>2
<1>10. x.texts \subseteq Passed(x.cursor) /\ x.cursor > 0 /\ Docs[x.cursor] = d /\ d \notin x.texts
  BY <1>3, <1>4, <1>6, <1>7
<1> HIDE DEF d
<1>11. CASE d \in index.seeds
  <2>1. PICK z \in Indexes : z = x
    BY <1>6
  <2>2. LET y == Absorbed(z, Docs[z.cursor]) IN y \in Indexes /\ ~y.done /\ InOrder([y EXCEPT !.walk = "timer"])
    BY <1>2, <1>5, <1>6, <1>9, <1>10, <2>1, Absorbs
  <2>3. PICK y \in Indexes : y = Absorbed(x, d) /\ ~y.done /\ InOrder([y EXCEPT !.walk = "timer"])
    BY <1>10, <2>1, <2>2
  <2>4. NextTurn(y)
    BY <1>2, <1>11, <2>3
  <2>5. QED
    BY <1>2, <1>5, <2>3, <2>4, TurnKeeps
<1>12. CASE d \notin index.seeds
  <2> DEFINE y == [x EXCEPT !.walk = "fetching"]
  <2>1. index' = y /\ search' = search
    BY <1>2, <1>12
  <2>2. /\ y \in Indexes /\ y.texts = x.texts /\ y.seeds = x.seeds /\ y.cursor = x.cursor
        /\ y.failures = x.failures /\ y.bounded = x.bounded /\ y.done = x.done /\ y.walk = "fetching"
    BY <1>6 DEF Indexes
  <2> HIDE DEF y
  <2>3. Absent(y) = Absent(x) /\ y.texts \ {Docs[y.cursor]} = index.texts
    BY <1>6, <1>10, <2>2 DEF Absent
  <2>4. InOrder(y)
    BY <1>2, <1>5, <1>6, <1>9, <1>10, <2>2, <2>3 DEF InOrder
  <2>5. QED
    BY <1>1, <1>2, <1>5, <1>6, <2>1, <2>2, <2>4, WalkGoesOn
<1>13. QED
  BY <1>11, <1>12

LEMMA WalkedKeeps == ASSUME IndexInv, NEW ok \in BOOLEAN, Walked(ok) PROVE IndexInv'
<1>1. index \in Indexes /\ InOrder(index) /\ search \in Searches
  BY DEF IndexInv
<1>2. index.walk = "fetching" /\ listed' = listed
  BY DEF Walked
<1>3. /\ index.cursor > 0 /\ Docs[index.cursor] \notin index.texts /\ ~index.done /\ ~index.bounded /\ listed # "asked"
      /\ Cardinality(Absent(index)) = index.failures + 1 /\ index.texts \subseteq Passed(index.cursor)
  BY <1>1, <1>2 DEF InOrder, IndexInv
<1>4. ~AtBound(index.texts)
  <2>1. index.texts \ {Docs[index.cursor]} = index.texts
    BY <1>3
  <2>2. QED
    BY <1>1, <1>3, <2>1 DEF InOrder
<1>5. CASE ok
  <2>1. PICK z \in Indexes : z = index
    BY <1>1
  <2>2. LET y == Absorbed(z, Docs[z.cursor]) IN y \in Indexes /\ ~y.done /\ InOrder([y EXCEPT !.walk = "timer"])
    BY <1>3, <1>4, <2>1, Absorbs
  <2>3. PICK y \in Indexes : y = Absorbed(index, Docs[index.cursor]) /\ ~y.done /\ InOrder([y EXCEPT !.walk = "timer"])
    BY <2>1, <2>2
  <2>4. NextTurn(y)
    BY <1>5, <2>3 DEF Walked
  <2>5. QED
    BY <1>2, <1>3, <2>3, <2>4, TurnKeeps
<1>6. CASE ~ok
  <2> DEFINE x == [index EXCEPT !.failures = @ + 1]
             y == [x EXCEPT !.walk = "timer"]
  <2>1. NextTurn(x)
    BY <1>6 DEF Walked, FailureGoesOn
  <2>2. /\ x \in Indexes /\ x.texts = index.texts /\ x.cursor = index.cursor /\ x.seeds = index.seeds
        /\ x.failures = index.failures + 1 /\ x.bounded = index.bounded /\ x.done = index.done
    BY <1>1 DEF Indexes
  <2> HIDE DEF x
  <2>3. /\ y \in Indexes /\ y.texts = x.texts /\ y.cursor = x.cursor /\ y.seeds = x.seeds
        /\ y.failures = x.failures /\ y.bounded = x.bounded /\ y.done = x.done /\ y.walk = "timer"
    BY <2>2 DEF Indexes
  <2>4. InOrder(y)
    <3> HIDE DEF y
    <3>1. Absent(y) = Absent(index) /\ Cardinality(Absent(y)) = y.failures
      BY <1>1, <1>3, <2>2, <2>3 DEF Absent
    <3>2. QED
      BY <1>1, <1>3, <2>2, <2>3, <3>1 DEF InOrder, Indexes
  <2>5. PICK z \in Indexes : z = x
    BY <2>2
  <2>6. NextTurn(z) /\ ~z.done /\ InOrder([z EXCEPT !.walk = "timer"])
    BY <1>3, <2>1, <2>2, <2>4, <2>5
  <2>7. QED
    BY <1>2, <1>3, <2>6, TurnKeeps
<1>7. QED
  BY <1>5, <1>6

LEMMA NextIndex == IndexInv /\ [BaseNext]_baseVars => IndexInv'
<1> SUFFICES ASSUME IndexInv, [BaseNext]_baseVars PROVE IndexInv'
  OBVIOUS
<1>1. CASE UNCHANGED baseVars
  BY <1>1 DEF baseVars, IndexInv, InOrder, Absent, Tells
<1>2. CASE Walks
  BY <1>2, StopKeeps, StepKeeps, WalkedKeeps DEF Walks
<1>3. QED
  BY <1>1, <1>2, IndexReader, IndexTimer, IndexAnswers DEF BaseNext

\* The index is in the order of the list and never past a bound, keeps nothing
\* once its walk is over, and the search then tells all it has, whatever the
\* reader opens meanwhile (kb-search.js, kb.js runQuery).
THEOREM AlwaysIndexFaithful == BaseSpec => []IndexFaithful
BY InitIndex, NextIndex, IndexHolds, PTL DEF BaseSpec
=============================================================================
