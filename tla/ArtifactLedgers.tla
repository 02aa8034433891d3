-------------------------- MODULE ArtifactLedgers --------------------------
(***************************************************************************)
(* Proofs: the records of one artifact.                                    *)
(*                                                                         *)
(* Shape: every record keeps its shape, and a row always serves a retained *)
(* version.  The two go together: what a row serves is chosen among the    *)
(* live versions, so it has a type only while there is one.                *)
(*                                                                         *)
(* Appends: an append is published at most once, and never after its       *)
(* caller was refused.                                                     *)
(*                                                                         *)
(* Ledgers: an entry is charged what its incarnation's last decision       *)
(* allocated, and a create that recovery has found absent never gets a     *)
(* row.                                                                    *)
(***************************************************************************)
EXTENDS ArtifactProperties, TotalsProofs

\* Every row is a view of a version whose bytes are retained.
Serving ==
    \A s \in Slug : row[s].gen # None =>
       /\ row[s].served \in LiveVersions(versions[s])
       /\ row[s].pinned \in {0, row[s].served}

\* A cell at work has an operation pending, of a generation and of a request.
Named ==
    \A s \in Slug :
       /\ pending[s].kind # "none" => pending[s].gen \in Generation
       /\ pending[s].kind = "append" => pending[s].op \in Op
       /\ pending[s].charge <= pending[s].target
       /\ handler[s].at \notin {"idle", "next"} => pending[s].kind # "none"
       /\ handler[s].at = "next" => handler[s].then \in Op

(* The type invariant, by the cell that writes the records.                *)

LedgerTyped ==
    /\ entries \in [Owner -> [Slug -> Entry]]
    /\ account \in [Generation -> FenceRecord]

IntentsTyped ==
    /\ intents \subseteq Generation
    /\ resolver \in [Owner -> Answer]

RowsTyped ==
    /\ row \in [Slug -> Row]
    /\ versions \in [Slug -> Seq(Version)]

WorkTyped ==
    /\ pending \in [Slug -> Pending]
    /\ alarm \subseteq Slug
    /\ handler \in [Slug -> Handler]

FencesTyped ==
    /\ tombstone \in [Slug -> Generation \union {None}]
    /\ receipts \in [Op -> {"none", "ok", "over-quota", "too-large"}]
    /\ aborted \subseteq Generation

FrontTyped ==
    /\ create \in [Generation -> {"new", "put", "retry", "confirm", "release",
                               "done", "failed"}]
    /\ caller \in [Op -> {"idle", "asked", "ok", "refused"}]

NetTyped ==
    /\ late \subseteq Message
    /\ faults \in 0 .. MaxFaults

Shape ==
    /\ LedgerTyped /\ IntentsTyped /\ RowsTyped /\ WorkTyped
    /\ FencesTyped /\ FrontTyped /\ NetTyped
    /\ Serving /\ Named

-----------------------------------------------------------------------------
(* The operators.                                                          *)

LEMMA GenerationFields ==
  ASSUME NEW g \in Generation
  PROVE  /\ OwnerOf(g) \in Owner /\ SlugOf(g) \in Slug /\ g # None
         /\ Creates[g].size \in Nat /\ Creates[g].status \in {"pending", "ready"}
BY ConstantsAssumption DEF OwnerOf, SlugOf

LEMMA RequestFields ==
  ASSUME NEW p \in Op
  PROVE  GenOf(p) \in Generation /\ KindOf(p) \in OpKinds /\ TargetOf(p) \in Slug /\ p # None
BY ConstantsAssumption DEF OwnerOf, SlugOf, GenOf, KindOf, TargetOf

\* Live versions are finitely many, and their charge is a natural number.
LEMMA LiveVersionsFinite ==
  ASSUME NEW vs \in Seq(Version)
  PROVE  /\ LiveVersions(vs) \subseteq 1..Len(vs)
         /\ LiveCharge(vs) \in Nat
<1> DEFINE live == LiveVersions(vs)
           charge == [i \in live |-> vs[i].charge]
<1>1. live \subseteq 1..Len(vs) /\ Len(vs) \in Nat
  BY DEF LiveVersions
<1>2. IsFiniteSet(live)
  <2>1. Len(vs) \in Int /\ 1 \in Int
    BY <1>1
  <2>2. IsFiniteSet(1..Len(vs))
    BY <2>1, FS_Interval
  <2>3. QED
    BY <1>1, <2>2, FS_Subset
<1>3. charge \in [live -> Nat]
  <2>1. \A i \in 1..Len(vs) : vs[i] \in Version
    OBVIOUS
  <2>2. QED
    BY <1>1, <2>1 DEF Version
<1>4. Total(charge) \in Nat
  <2> HIDE DEF charge, live
  <2> QED BY <1>2, <1>3, TotalNat
<1>5. QED
  BY <1>1, <1>4 DEF LiveCharge

\* servedOf returns a live version, and rolling a row makes it serve that one.
LEMMA RollServedSound ==
  ASSUME NEW r \in Row, NEW pinned \in Nat, NEW vs \in Seq(Version), LiveVersions(vs) # {}
  PROVE  LET rolled == RollServed(r, pinned, vs) IN
         /\ rolled \in Row /\ rolled.gen = r.gen
         /\ rolled.served \in LiveVersions(vs)
         /\ rolled.pinned \in {0, rolled.served}
<1>1. LiveVersions(vs) \subseteq 1..Len(vs) /\ Len(vs) \in Nat
  BY LiveVersionsFinite
<1>2. \E i \in LiveVersions(vs) : \A j \in LiveVersions(vs) : j <= i
  BY <1>1, NewestExists
<1>3. /\ ServedOf(pinned, vs) \in LiveVersions(vs)
      /\ pinned \in LiveVersions(vs) => ServedOf(pinned, vs) = pinned
  BY <1>2 DEF ServedOf
<1>4. ServedOf(pinned, vs) \in Nat
  BY <1>1, <1>3
<1>5. QED
  BY <1>3, <1>4 DEF RollServed, Row

\* A tombstone takes one version from the live ones.
LEMMA TombstonedSound ==
  ASSUME NEW vs \in Seq(Version), NEW v \in LiveVersions(vs), NEW inherited \in Nat
  PROVE  LET after == Tombstoned(vs, v, inherited) IN
         /\ after \in Seq(Version) /\ Len(after) = Len(vs)
         /\ LiveVersions(after) = LiveVersions(vs) \ {v}
<1> DEFINE after == Tombstoned(vs, v, inherited)
<1>1. DOMAIN vs = 1..Len(vs) /\ Len(vs) \in Nat /\ \A i \in 1..Len(vs) : vs[i] \in Version
  OBVIOUS
<1>2. ASSUME NEW i \in 1..Len(vs)
      PROVE  after[i] \in Version
  <2>1. after[i] = IF i = v THEN [vs[i] EXCEPT !.deleted = TRUE]
                   ELSE IF i \in NextLive(vs, v) THEN [vs[i] EXCEPT !.charge = @ + inherited]
                   ELSE vs[i]
    BY <1>1 DEF Tombstoned
  <2>2. vs[i] \in Version
    BY <1>1
  <2>3. vs[i].charge \in Nat
    BY <2>2 DEF Version
  <2>4. vs[i].charge + inherited \in Nat
    BY <2>3
  <2>5. [vs[i] EXCEPT !.deleted = TRUE] \in Version
    BY <2>2, Zenon DEF Version
  <2>6. [vs[i] EXCEPT !.charge = @ + inherited] \in Version
    BY <2>2, <2>4, Zenon DEF Version
  <2>7. QED
    BY <2>1, <2>2, <2>5, <2>6, Zenon
<1>3. after = [i \in 1..Len(vs) |-> after[i]]
  BY <1>1 DEF Tombstoned
<1>4. after \in Seq(Version) /\ Len(after) = Len(vs)
  <2> HIDE DEF after
  <2> QED BY <1>1, <1>2, <1>3
<1>5. \A i \in 1..Len(vs) : after[i].deleted <=> (i = v \/ vs[i].deleted)
  BY <1>1 DEF Tombstoned, Version
<1>6. DOMAIN after = 1..Len(vs)
  BY <1>1 DEF Tombstoned
<1>7. LiveVersions(after) = LiveVersions(vs) \ {v}
  <2> HIDE DEF after
  <2> QED BY <1>1, <1>5, <1>6 DEF LiveVersions
<1>8. QED
  BY <1>4, <1>7

\* It changes no upload.
LEMMA TombstonedKeeps ==
  ASSUME NEW vs \in Seq(Version), NEW v, NEW inherited
  PROVE  LET after == Tombstoned(vs, v, inherited) IN
         DOMAIN after = DOMAIN vs /\ \A i \in DOMAIN vs : after[i].upload = vs[i].upload
<1>1. ASSUME NEW i \in DOMAIN vs
      PROVE  Tombstoned(vs, v, inherited)[i].upload = vs[i].upload
  <2>1. vs[i] \in Version
    OBVIOUS
  <2>2. /\ [vs[i] EXCEPT !.deleted = TRUE].upload = vs[i].upload
        /\ [vs[i] EXCEPT !.charge = @ + inherited].upload = vs[i].upload
    BY <2>1, Zenon DEF Version
  <2>3. QED
    BY <2>2, Zenon DEF Tombstoned
<1>2. QED
  BY <1>1 DEF Tombstoned

\* A published version joins the live ones.
LEMMA AppendSound ==
  ASSUME NEW vs \in Seq(Version), NEW x \in Version, x.deleted = FALSE
  PROVE  /\ Append(vs, x) \in Seq(Version)
         /\ LiveVersions(Append(vs, x)) = LiveVersions(vs) \union {Len(vs) + 1}
<1>1. /\ Append(vs, x) \in Seq(Version) /\ Len(vs) \in Nat
      /\ DOMAIN vs = 1..Len(vs) /\ DOMAIN Append(vs, x) = 1..(Len(vs) + 1)
      /\ \A i \in 1..Len(vs) : Append(vs, x)[i] = vs[i]
      /\ Append(vs, x)[Len(vs) + 1] = x
  OBVIOUS
<1>2. QED
  BY <1>1 DEF LiveVersions

-----------------------------------------------------------------------------
(* The Identity cell.                                                      *)

LEMMA EmptyRecords ==
  /\ NoListing \in Listing /\ NoEntry \in Entry /\ NoRow \in Row
  /\ NoPending \in Pending /\ NoRecord \in FenceRecord
  /\ NoAnswer \in Answer /\ Idle \in Handler
<1>1. 0 \in Names /\ 0 \in Nat
  BY ConstantsAssumption DEF Names
<1>2. NoListing \in Listing
  BY <1>1 DEF NoListing, Listing, Status
<1>3. NoEntry \in Entry /\ NoRow \in Row
  BY <1>1, <1>2 DEF NoEntry, Entry, NoRow, Row, Status
<1>4. NoPending \in Pending /\ NoRecord \in FenceRecord
  BY <1>1 DEF NoPending, Pending, NoRecord, FenceRecord, Stages
<1>5. NoAnswer \in Answer /\ Idle \in Handler
  BY DEF NoAnswer, Answer, Idle, Handler
<1>6. QED
  BY <1>2, <1>3, <1>4, <1>5

LEMMA EntryTyped ==
  ASSUME LedgerTyped, NEW g \in Generation
  PROVE  EntryOf(g) \in Entry /\ account[g] \in FenceRecord
BY GenerationFields DEF LedgerTyped, EntryOf

LEMMA EnterTyped ==
  ASSUME LedgerTyped, NEW g \in Generation, NEW e \in Entry, Enter(g, e)
  PROVE  entries' \in [Owner -> [Slug -> Entry]]
BY GenerationFields DEF LedgerTyped, Enter

LEMMA ReleaseEntryTyped ==
  ASSUME LedgerTyped, intents \subseteq Generation, NEW g \in Generation, ReleaseEntry(g)
  PROVE  LedgerTyped' /\ intents' \subseteq Generation
<1>1. account[g] \in FenceRecord
  BY EntryTyped
<1>2. [version |-> account[g].version + 1, allocated |-> 0, target |-> 0] \in FenceRecord
  BY <1>1 DEF FenceRecord
<1>3. CASE Listed(g) /\ EntryOf(g).gen \in {None, g}
  <2>1. entries' \in [Owner -> [Slug -> Entry]]
    BY <1>3, EmptyRecords, EnterTyped DEF ReleaseEntry
  <2>2. account' \in [Generation -> FenceRecord]
    BY <1>2, <1>3 DEF ReleaseEntry, LedgerTyped
  <2>3. QED
    BY <1>3, <2>1, <2>2 DEF ReleaseEntry, LedgerTyped
<1>4. QED
  BY <1>3 DEF ReleaseEntry, LedgerTyped

LEMMA ConfirmEntryTyped ==
  ASSUME LedgerTyped, intents \subseteq Generation, NEW g \in Generation,
         NEW status \in Status, ConfirmEntry(g, status)
  PROVE  entries' \in [Owner -> [Slug -> Entry]] /\ intents' \subseteq Generation
<1> DEFINE e == [EntryOf(g) EXCEPT !.listing.status = IF @ = "pending" THEN status ELSE @]
<1>1. EntryOf(g) \in Entry
  BY EntryTyped
<1>2. e \in Entry
  BY <1>1 DEF Entry, Listing
<1>3. QED
  BY <1>2, EnterTyped DEF ConfirmEntry, LedgerTyped

LEMMA StageEffectTyped ==
  ASSUME LedgerTyped, NEW m \in Message, StageEffect(m)
  PROVE  LedgerTyped'
<1>1. /\ m.gen \in Generation /\ m.version \in Nat /\ m.target \in Nat
      /\ m.listing \in Listing
  BY DEF Message
<1>2. EntryOf(m.gen) \in Entry /\ account[m.gen] \in FenceRecord
  BY <1>1, EntryTyped
<1>3. CASE ArtifactDecide(m)
  <2>1. Decision(m) \in FenceRecord
    BY <1>1, <1>2 DEF Decision, Decided, FenceRecord
  <2>2. [EntryOf(m.gen) EXCEPT !.charged = IF DecideAnswer(m) = "granted" THEN m.target ELSE @]
           \in Entry
    BY <1>1, <1>2 DEF Entry
  <2>3. CASE Listed(m.gen) /\ Decides(account[m.gen], m.version)
    <3>1. entries' \in [Owner -> [Slug -> Entry]]
      BY <1>1, <1>3, <2>2, <2>3, EnterTyped DEF ArtifactDecide
    <3>2. account' \in [Generation -> FenceRecord]
      BY <1>3, <2>1, <2>3 DEF ArtifactDecide, LedgerTyped
    <3>3. QED
      BY <3>1, <3>2 DEF LedgerTyped
  <2>4. QED
    BY <1>3, <2>3 DEF ArtifactDecide, LedgerTyped
<1>4. CASE ArtifactProject(m)
  <2>1. [EntryOf(m.gen) EXCEPT !.listing = m.listing] \in Entry
    BY <1>1, <1>2 DEF Entry
  <2>2. QED
    BY <1>1, <1>4, <2>1, EnterTyped DEF ArtifactProject, LedgerTyped
<1>5. CASE ArtifactDrop(m)
  BY <1>1, <1>5, EmptyRecords, EnterTyped DEF ArtifactDrop, LedgerTyped
<1>6. QED
  BY <1>3, <1>4, <1>5 DEF StageEffect

\* What a Paste cell sends is a message of its pending operation's generation.
LEMMA StageRequestTyped ==
  ASSUME Shape, NEW s \in Slug, pending[s].kind # "none"
  PROVE  StageRequest(s) \in Message /\ StageRequest(s).gen = pending[s].gen
<1>1. pending[s] \in Pending /\ row[s] \in Row /\ pending[s].gen \in Generation
  BY DEF Shape, RowsTyped, WorkTyped, Named
<1>2. [status |-> row[s].status, served |-> row[s].served, latest |-> pending[s].latest,
       pinned |-> row[s].pinned, name |-> row[s].name] \in Listing
  BY <1>1 DEF Row, Pending, Listing
<1>3. QED
  BY <1>1, <1>2, EmptyRecords DEF StageRequest, Message, Pending
-----------------------------------------------------------------------------
(* The Paste cell.                                                         *)

\* A step that writes one row and that slug's versions keeps every row serving.
LEMMA RowWritten ==
  ASSUME RowsTyped, Serving, NEW s \in Slug, NEW r \in Row, NEW vs \in Seq(Version),
         row' = [row EXCEPT ![s] = r], versions' = [versions EXCEPT ![s] = vs],
         r.gen # None => /\ r.served \in LiveVersions(vs)
                         /\ r.pinned \in {0, r.served}
  PROVE  RowsTyped' /\ Serving'
<1>1. RowsTyped'
  BY DEF RowsTyped
<1>2. ASSUME NEW x \in Slug, row'[x].gen # None
      PROVE  /\ row'[x].served \in LiveVersions(versions'[x])
             /\ row'[x].pinned \in {0, row'[x].served}
  <2>1. CASE x = s
    <3>1. row'[x] = r /\ versions'[x] = vs
      BY <2>1 DEF RowsTyped
    <3>2. QED
      BY <1>2, <3>1
  <2>2. CASE x # s
    <3>1. row'[x] = row[x] /\ versions'[x] = versions[x]
      BY <2>2 DEF RowsTyped
    <3>2. QED
      BY <1>2, <3>1 DEF Serving
  <2>3. QED
    BY <2>1, <2>2
<1>3. Serving'
  BY <1>2 DEF Serving
<1>4. QED
  BY <1>1, <1>3

\* The same when the versions stay.
LEMMA RowAlone ==
  ASSUME RowsTyped, Serving, NEW s \in Slug, NEW r \in Row,
         row' = [row EXCEPT ![s] = r], UNCHANGED versions,
         r.gen # None => /\ r.served \in LiveVersions(versions[s])
                         /\ r.pinned \in {0, r.served}
  PROVE  RowsTyped' /\ Serving'
<1>1. versions[s] \in Seq(Version) /\ versions' = [versions EXCEPT ![s] = versions[s]]
  BY DEF RowsTyped
<1>2. QED
  BY <1>1, RowWritten

LEMMA FencedSound ==
  ASSUME RowsTyped, NEW s \in Slug, NEW v \in Nat
  PROVE  /\ Fenced(s, v) \in Row
         /\ Fenced(s, v).gen = row[s].gen
         /\ Fenced(s, v).served = row[s].served
         /\ Fenced(s, v).pinned = row[s].pinned
<1>1. row[s] \in Row
  BY DEF RowsTyped
<1>2. (IF row[s].gen = None THEN row[s].version ELSE v) \in Nat
  BY <1>1 DEF Row
<1>3. QED
  BY <1>1, <1>2 DEF Fenced, Row

LEMMA FencedRow ==
  ASSUME RowsTyped, Serving, NEW s \in Slug, NEW v \in Nat,
         row' = [row EXCEPT ![s] = Fenced(s, v)], UNCHANGED versions
  PROVE  RowsTyped' /\ Serving'
<1>1. /\ Fenced(s, v) \in Row /\ Fenced(s, v).gen = row[s].gen
      /\ Fenced(s, v).served = row[s].served /\ Fenced(s, v).pinned = row[s].pinned
  BY FencedSound
<1>2. row[s].gen # None => /\ row[s].served \in LiveVersions(versions[s])
                           /\ row[s].pinned \in {0, row[s].served}
  BY DEF Serving
<1>3. QED
  BY <1>1, <1>2, RowAlone

LEMMA WriteRowSound ==
  ASSUME RowsTyped, Serving, NEW g \in Generation, WriteRow(g)
  PROVE  RowsTyped' /\ Serving'
<1> DEFINE s  == SlugOf(g)
           r  == [gen |-> g, status |-> Creates[g].status, version |-> 0, served |-> 1,
                  pinned |-> 0, name |-> 0]
           v1 == [upload |-> g, charge |-> Creates[g].size, deleted |-> FALSE]
<1>1. /\ s \in Slug /\ Creates[g].size \in Nat /\ Creates[g].status \in {"pending", "ready"}
  BY GenerationFields
<1>2. CASE MayPut(g)
  <2>1. r \in Row
    BY <1>1, ConstantsAssumption DEF Row, Status, Names
  <2>2. v1 \in Version /\ v1.deleted = FALSE
    BY <1>1, Zenon DEF Version
  <2>3. <<v1>> \in Seq(Version) /\ LiveVersions(<<v1>>) = {1}
    <3>1. <<v1>> \in Seq(Version) /\ DOMAIN <<v1>> = {1} /\ <<v1>>[1] = v1
      <4> HIDE DEF v1
      <4> QED BY <2>2
    <3>2. QED
      BY <2>2, <3>1 DEF LiveVersions
  <2>4. row' = [row EXCEPT ![s] = r] /\ versions' = [versions EXCEPT ![s] = <<v1>>]
    BY <1>2 DEF WriteRow
  <2>5. r.served \in LiveVersions(<<v1>>) /\ r.pinned \in {0, r.served}
    BY <2>3
  <2>6. QED
    <3> HIDE DEF r, v1, s
    <3> QED BY <1>1, <2>1, <2>3, <2>4, <2>5, RowWritten
<1>3. CASE ~MayPut(g)
  BY <1>3 DEF WriteRow, RowsTyped, Serving
<1>4. QED
  BY <1>2, <1>3

\* What an operation must carry for its cell to work on it.
WellNamed(q) ==
    /\ q \in Pending /\ q.kind # "none" /\ q.gen \in Generation
    /\ q.kind = "append" => q.op \in Op
    /\ q.charge <= q.target

LEMMA BeginSound ==
  ASSUME WorkTyped, Named, NEW s \in Slug, NEW q, WellNamed(q), Begin(s, q)
  PROVE  WorkTyped' /\ Named'
<1>1. [at |-> "call", then |-> None] \in Handler
  BY DEF Handler
<1>2. QED
  BY <1>1 DEF WorkTyped, Named, WellNamed, Begin

LEMMA GoOnSound ==
  ASSUME WorkTyped, Named, alarm' \subseteq Slug, NEW s \in Slug, NEW q, WellNamed(q), GoOn(s, q)
  PROVE  WorkTyped' /\ Named'
<1>1. [handler[s] EXCEPT !.at = "call"] \in Handler
  BY DEF Handler, WorkTyped
<1>2. QED
  BY <1>1 DEF WorkTyped, Named, WellNamed, GoOn

LEMMA ClearedSound ==
  ASSUME WorkTyped, Named, NEW s \in Slug, Cleared(s)
  PROVE  WorkTyped' /\ Named'
<1> DEFINE h == IF handler[s].then = None THEN Idle ELSE [at |-> "next", then |-> handler[s].then]
<1>1. handler[s].then \in Op \union {None}
  BY DEF WorkTyped, Handler
<1>2. h \in Handler /\ h.at \in {"idle", "next"} /\ (h.at = "next" => h.then \in Op)
  BY <1>1 DEF Handler, Idle
<1>3. NoPending \in Pending /\ NoPending.kind = "none" /\ NoPending.charge <= NoPending.target
  BY EmptyRecords DEF NoPending
<1>4. handler' = [handler EXCEPT ![s] = h] /\ pending' = [pending EXCEPT ![s] = NoPending]
      /\ alarm' = alarm \ {s}
  BY DEF Cleared
<1>5. QED
  <2> HIDE DEF h
  <2> QED BY <1>2, <1>3, <1>4 DEF WorkTyped, Named

\* A step of the lock alone: to idle, or to a call that something is pending for.
LEMMA HandlerAlone ==
  ASSUME WorkTyped, Named, UNCHANGED pending, alarm' \subseteq Slug,
         NEW s \in Slug, NEW h \in Handler, handler' = [handler EXCEPT ![s] = h],
         h.at \notin {"idle", "next"} => pending[s].kind # "none",
         h.at = "next" => h.then \in Op
  PROVE  WorkTyped' /\ Named'
BY DEF WorkTyped, Named
-----------------------------------------------------------------------------
(* The steps of a create.                                                  *)

LEMMA NetSound ==
  ASSUME NetTyped
  PROVE  /\ NoFault => NetTyped'
         /\ Fault /\ UNCHANGED late => NetTyped'
         /\ \A m \in Message : Fault /\ LateCopy(m) => NetTyped'
BY ConstantsAssumption DEF NetTyped, NoFault, netVars, Fault, LateCopy

LEMMA BareMessageTyped ==
  ASSUME NEW type \in Stages \union {"put", "abort"}, NEW g \in Generation
  PROVE  BareMessage(type, g) \in Message
BY EmptyRecords DEF BareMessage, Message

LEMMA ReserveShape ==
  ASSUME Shape, NEW g \in Generation, Reserve(g)
  PROVE  Shape'
<1> DEFINE size == Creates[g].size
           e == [gen |-> g, charged |-> size,
                 listing |-> [status |-> Creates[g].status, served |-> 1, latest |-> 1,
                              pinned |-> 0, name |-> 0]]
<1> USE DEF Shape
<1>1. size \in Nat /\ Creates[g].status \in {"pending", "ready"} /\ 0 \in Names
  BY GenerationFields, ConstantsAssumption DEF Names
<1>2. e \in Entry
  <2>1. e.listing \in Listing
    BY <1>1 DEF Listing, Status
  <2>2. QED
    BY <1>1, <2>1 DEF Entry
<1>3. [version |-> 0, allocated |-> size, target |-> size] \in FenceRecord
  BY <1>1 DEF FenceRecord
<1>4. LedgerTyped' /\ IntentsTyped'
  <2>1. CASE Enter(g, e) /\ account' = [account EXCEPT ![g] =
                              [version |-> 0, allocated |-> size, target |-> size]]
             /\ intents' = intents \union {g}
    BY <1>2, <1>3, <2>1, EnterTyped DEF LedgerTyped, IntentsTyped, Reserve
  <2>2. CASE UNCHANGED <<entries, account, intents>>
    BY <2>2 DEF LedgerTyped, IntentsTyped, Reserve
  <2>3. QED
    BY <2>1, <2>2 DEF Reserve
<1>5. FrontTyped' /\ NetTyped'
  BY NetSound DEF FrontTyped, Reserve
<1>6. QED
  BY <1>4, <1>5 DEF Reserve, pasteVars, RowsTyped, WorkTyped, FencesTyped, Serving, Named

LEMMA PutShape ==
  ASSUME Shape, NEW g \in Generation, Put(g)
  PROVE  Shape'
<1> USE DEF Shape
<1>1. RowsTyped' /\ Serving'
  BY WriteRowSound DEF Put
<1>2. FrontTyped' /\ NetTyped'
  BY NetSound DEF FrontTyped, Put
<1>3. QED
  BY <1>1, <1>2 DEF Put, identityVars, LedgerTyped, IntentsTyped, WorkTyped, FencesTyped, Named

LEMMA PutLostShape ==
  ASSUME Shape, NEW g \in Generation, PutLost(g)
  PROVE  Shape'
<1> USE DEF Shape
<1>1. FrontTyped' /\ NetTyped'
  BY NetSound, BareMessageTyped DEF FrontTyped, PutLost
<1>2. QED
  BY <1>1 DEF PutLost, identityVars, pasteVars, LedgerTyped, IntentsTyped, RowsTyped, WorkTyped,
              FencesTyped, Serving, Named

LEMMA ConfirmShape ==
  ASSUME Shape, NEW g \in Generation, Confirm(g)
  PROVE  Shape'
<1> USE DEF Shape
<1>1. Creates[g].status \in Status
  BY GenerationFields DEF Status
<1>2. LedgerTyped' /\ IntentsTyped'
  BY <1>1, ConfirmEntryTyped DEF Confirm, LedgerTyped, IntentsTyped
<1>3. FrontTyped' /\ NetTyped'
  BY NetSound DEF FrontTyped, Confirm
<1>4. QED
  BY <1>2, <1>3 DEF Confirm, pasteVars, RowsTyped, WorkTyped, FencesTyped, Serving, Named

LEMMA ReleaseShape ==
  ASSUME Shape, NEW g \in Generation, Release(g)
  PROVE  Shape'
<1> USE DEF Shape
<1>1. LedgerTyped' /\ IntentsTyped'
  BY ReleaseEntryTyped DEF Release, IntentsTyped
<1>2. FrontTyped' /\ NetTyped'
  BY NetSound DEF FrontTyped, Release
<1>3. QED
  BY <1>1, <1>2 DEF Release, pasteVars, RowsTyped, WorkTyped, FencesTyped, Serving, Named

LEMMA ForgottenShape ==
  ASSUME Shape, NEW g \in Generation, Forgotten(g)
  PROVE  Shape'
<1> USE DEF Shape
<1>1. FrontTyped' /\ NetTyped'
  BY NetSound DEF FrontTyped, Forgotten
<1>2. QED
  BY <1>1 DEF Forgotten, identityVars, pasteVars, LedgerTyped, IntentsTyped, RowsTyped, WorkTyped,
              FencesTyped, Serving, Named

-----------------------------------------------------------------------------
(* The alarm of the Identity cell.                                         *)

LEMMA ResolveIntentShape ==
  ASSUME Shape, NEW g \in Generation, ResolveIntent(g)
  PROVE  Shape'
<1> USE DEF Shape
<1>1. IntentsTyped'
  <2>1. [gen |-> g, found |-> "asking"] \in Answer
    BY DEF Answer
  <2>2. QED
    BY <2>1, GenerationFields DEF ResolveIntent, IntentsTyped
<1>2. NetTyped'
  BY NetSound DEF ResolveIntent
<1>3. QED
  BY <1>1, <1>2 DEF ResolveIntent, pasteVars, frontVars, LedgerTyped, RowsTyped, WorkTyped,
                    FencesTyped, FrontTyped, Serving, Named

LEMMA FencingTyped ==
  ASSUME FencesTyped, NEW g \in Generation
  PROVE  Fencing(g) \subseteq Generation
BY DEF FencesTyped, Fencing

LEMMA AbortCreateShape ==
  ASSUME Shape, NEW o \in Owner, AbortCreate(o)
  PROVE  Shape'
<1> DEFINE g == resolver[o].gen
           found == IF row[SlugOf(g)].gen = g THEN row[SlugOf(g)].status ELSE "absent"
<1> USE DEF Shape
<1>1. g \in Generation /\ resolver[o] \in Answer
  BY DEF AbortCreate, IntentsTyped, Answer
<1>2. row[SlugOf(g)] \in Row
  BY <1>1, GenerationFields DEF RowsTyped
<1>3. [resolver[o] EXCEPT !.found = found] \in Answer
  BY <1>1, <1>2 DEF Answer, Row
<1>4. IntentsTyped'
  BY <1>3 DEF AbortCreate, IntentsTyped
<1>5. FencesTyped'
  BY <1>1, FencingTyped DEF AbortCreate, FencesTyped
<1>6. NetTyped'
  BY NetSound DEF AbortCreate
<1>7. QED
  BY <1>4, <1>5, <1>6 DEF AbortCreate, frontVars, LedgerTyped, RowsTyped, WorkTyped, FrontTyped,
                          Serving, Named

LEMMA IntentAnsweredShape ==
  ASSUME Shape, NEW o \in Owner, IntentAnswered(o)
  PROVE  Shape'
<1> DEFINE g == resolver[o].gen
<1> USE DEF Shape
<1>1. g \in Generation /\ resolver[o].found \in {"absent"} \union Status
  BY DEF IntentAnswered, IntentsTyped, Answer
<1>2. resolver' \in [Owner -> Answer]
  BY EmptyRecords DEF IntentAnswered, IntentsTyped
<1>3. LedgerTyped' /\ intents' \subseteq Generation
  <2>1. CASE ReleaseEntry(g)
    BY <1>1, <2>1, ReleaseEntryTyped DEF IntentsTyped
  <2>2. CASE /\ resolver[o].found # "absent"
             /\ ConfirmEntry(g, resolver[o].found) /\ UNCHANGED account
    BY <1>1, <2>2, ConfirmEntryTyped DEF LedgerTyped, IntentsTyped
  <2>3. QED
    BY <2>1, <2>2 DEF IntentAnswered
<1>4. NetTyped'
  BY NetSound DEF IntentAnswered
<1>5. QED
  BY <1>2, <1>3, <1>4 DEF IntentAnswered, pasteVars, frontVars, IntentsTyped, RowsTyped,
                          WorkTyped, FencesTyped, FrontTyped, Serving, Named

LEMMA ResolverFailsShape ==
  ASSUME Shape, NEW o \in Owner, ResolverFails(o)
  PROVE  Shape'
<1> USE DEF Shape
<1>1. BareMessage("abort", resolver[o].gen) \in Message
  BY BareMessageTyped DEF ResolverFails, IntentsTyped, Answer
<1>2. NetTyped'
  BY <1>1, NetSound DEF ResolverFails
<1>3. IntentsTyped'
  BY EmptyRecords DEF ResolverFails, IntentsTyped
<1>4. QED
  BY <1>2, <1>3 DEF ResolverFails, pasteVars, frontVars, LedgerTyped, RowsTyped, WorkTyped,
                    FencesTyped, FrontTyped, Serving, Named
-----------------------------------------------------------------------------
(* The calls of a pending operation.                                       *)

LEMMA StageAnswerIsEvent ==
  ASSUME NEW m, m.type \in Stages
  PROVE  StageAnswer(m) \in Events
BY DEF Stages, StageAnswer, DecideAnswer, FenceAnswer, Events

LEMMA IdentityAnswersShape ==
  ASSUME Shape, NEW s \in Slug, IdentityAnswers(s)
  PROVE  Shape'
<1> DEFINE m == StageRequest(s)
           h == [handler[s] EXCEPT !.at = StageAnswer(m)]
<1> USE DEF Shape
<1>1. pending[s].kind # "none" /\ m \in Message
  BY StageRequestTyped DEF IdentityAnswers, Named
<1>2. LedgerTyped'
  BY <1>1, StageEffectTyped DEF IdentityAnswers
<1>3. m.type \in Stages
  BY DEF StageRequest, WorkTyped, Pending
<1>4. h \in Handler
  BY <1>3, StageAnswerIsEvent DEF WorkTyped, Handler
<1>5. WorkTyped' /\ Named'
  <2> HIDE DEF h
  <2>1. handler' = [handler EXCEPT ![s] = h] /\ UNCHANGED pending /\ alarm' \subseteq Slug
    BY DEF IdentityAnswers, WorkTyped, h
  <2>2. h.at # "next"
    BY <1>3, StageAnswerIsEvent DEF Events, h, WorkTyped, Handler
  <2>3. QED
    BY <1>1, <1>4, <2>1, <2>2, HandlerAlone
<1>6. NetTyped'
  BY NetSound DEF IdentityAnswers
<1>7. QED
  BY <1>2, <1>5, <1>6 DEF IdentityAnswers, frontVars, IntentsTyped, RowsTyped, FencesTyped,
                          FrontTyped, Serving

\* A cell whose lock is free again.
LEMMA BackToIdle ==
  ASSUME WorkTyped, Named, UNCHANGED pending, alarm' \subseteq Slug,
         NEW s \in Slug, handler' = [handler EXCEPT ![s] = Idle]
  PROVE  WorkTyped' /\ Named'
<1>1. Idle \in Handler /\ Idle.at = "idle"
  BY EmptyRecords DEF Idle
<1>2. QED
  BY <1>1, HandlerAlone

LEMMA CallFailsShape ==
  ASSUME Shape, NEW s \in Slug, CallFails(s)
  PROVE  Shape'
<1> USE DEF Shape
<1>1. StageRequest(s) \in Message
  BY StageRequestTyped DEF CallFails, Named
<1>2. NetTyped'
  BY <1>1, NetSound DEF CallFails
<1>3. WorkTyped' /\ Named'
  BY BackToIdle DEF CallFails, WorkTyped
<1>4. QED
  BY <1>2, <1>3 DEF CallFails, identityVars, frontVars, LedgerTyped, IntentsTyped, RowsTyped,
                    FencesTyped, FrontTyped, Serving

LEMMA PasteStopsShape ==
  ASSUME Shape, NEW s \in Slug, PasteStops(s)
  PROVE  Shape'
<1> USE DEF Shape
<1>1. NetTyped'
  BY NetSound DEF PasteStops
<1>2. WorkTyped' /\ Named'
  BY BackToIdle DEF PasteStops, WorkTyped
<1>3. QED
  BY <1>1, <1>2 DEF PasteStops, identityVars, frontVars, LedgerTyped, IntentsTyped, RowsTyped,
                    FencesTyped, FrontTyped, Serving

LEMMA LateArrivesShape ==
  ASSUME Shape, NEW m \in late, LateArrives(m)
  PROVE  Shape'
<1> USE DEF Shape
<1>1. m \in Message /\ m.gen \in Generation
  BY DEF NetTyped, Message
<1>2. NetTyped' /\ FrontTyped'
  BY DEF LateArrives, frontVars, NetTyped, FrontTyped
<1>3. CASE m.type \in Stages /\ StageEffect(m) /\ UNCHANGED <<intents, resolver, pasteVars>>
  <2>1. LedgerTyped'
    BY <1>1, <1>3, StageEffectTyped
  <2>2. QED
    BY <1>2, <1>3, <2>1 DEF pasteVars, IntentsTyped, RowsTyped, WorkTyped, FencesTyped,
                            Serving, Named
<1>4. CASE /\ WriteRow(m.gen)
           /\ UNCHANGED <<identityVars, pending, alarm, tombstone, receipts, aborted, handler>>
  <2>1. RowsTyped' /\ Serving'
    BY <1>1, <1>4, WriteRowSound
  <2>2. QED
    BY <1>2, <1>4, <2>1 DEF identityVars, LedgerTyped, IntentsTyped, WorkTyped, FencesTyped, Named
<1>5. CASE /\ aborted' = Fencing(m.gen)
           /\ UNCHANGED <<identityVars, row, versions, pending, alarm, tombstone, receipts,
                          handler>>
  <2>1. FencesTyped'
    BY <1>1, <1>5, FencingTyped DEF FencesTyped
  <2>2. QED
    BY <1>2, <1>5, <2>1 DEF identityVars, LedgerTyped, IntentsTyped, RowsTyped, WorkTyped,
                            Serving, Named
<1>6. QED
  BY <1>3, <1>4, <1>5 DEF LateArrives

-----------------------------------------------------------------------------
(* What a pending operation does with an answer.                           *)

LEMMA PendingFields ==
  ASSUME Shape, NEW s \in Slug
  PROVE  /\ pending[s] \in Pending /\ row[s] \in Row /\ versions[s] \in Seq(Version)
         /\ pending[s].version \in Nat /\ pending[s].target \in Nat /\ pending[s].charge \in Nat
         /\ pending[s].charge <= pending[s].target
         /\ handler[s].at \notin {"idle", "next"} => WellNamed(pending[s])
BY DEF Shape, WorkTyped, RowsTyped, Named, Pending, WellNamed

LEMMA RetryShape ==
  ASSUME Shape, NEW s \in Slug, Retry(s)
  PROVE  Shape'
<1> USE DEF Shape
<1>1. NetTyped'
  BY NetSound DEF Retry
<1>2. WorkTyped' /\ Named'
  BY BackToIdle DEF Retry, WorkTyped
<1>3. QED
  BY <1>1, <1>2 DEF Retry, identityVars, frontVars, LedgerTyped, IntentsTyped, RowsTyped,
                    FencesTyped, FrontTyped, Serving

LEMMA SettleAbsentShape ==
  ASSUME Shape, NEW s \in Slug, SettleAbsent(s)
  PROVE  Shape'
<1> USE DEF Shape
<1>1. NetTyped'
  BY NetSound DEF SettleAbsent
<1>2. WorkTyped' /\ Named'
  BY ClearedSound DEF SettleAbsent
<1>3. FencesTyped'
  BY DEF SettleAbsent, FencesTyped
<1>4. RowsTyped' /\ Serving'
  <2>1. CASE row' = [row EXCEPT ![s] = Fenced(s, pending[s].version)]
    BY <2>1, PendingFields, FencedRow DEF SettleAbsent
  <2>2. CASE UNCHANGED row
    BY <2>2 DEF SettleAbsent, RowsTyped, Serving
  <2>3. QED
    BY <2>1, <2>2 DEF SettleAbsent
<1>5. QED
  BY <1>1, <1>2, <1>3, <1>4 DEF SettleAbsent, identityVars, frontVars, LedgerTyped,
                                IntentsTyped, FrontTyped

LEMMA RefuseShape ==
  ASSUME Shape, NEW s \in Slug, Refuse(s)
  PROVE  Shape'
<1> USE DEF Shape
<1>1. NetTyped'
  BY NetSound DEF Refuse
<1>2. WorkTyped' /\ Named'
  BY ClearedSound DEF Refuse
<1>3. FencesTyped'
  BY DEF Refuse, FencesTyped
<1>4. RowsTyped' /\ Serving'
  BY PendingFields, FencedRow DEF Refuse
<1>5. QED
  BY <1>1, <1>2, <1>3, <1>4 DEF Refuse, identityVars, frontVars, LedgerTyped, IntentsTyped,
                                FrontTyped

LEMMA PublishShape ==
  ASSUME Shape, NEW s \in Slug, Publish(s)
  PROVE  Shape'
<1> DEFINE q  == pending[s]
           x  == [upload |-> q.op, charge |-> q.charge, deleted |-> FALSE]
           vs == Append(versions[s], x)
           f  == Fenced(s, q.version)
           r  == RollServed(f, row[s].pinned, vs)
<1> USE DEF Shape
<1>1. WellNamed(q) /\ q.kind = "append" /\ q.charge \in Nat /\ q.version \in Nat
      /\ versions[s] \in Seq(Version) /\ row[s] \in Row
  BY PendingFields DEF Publish
<1>2. x \in Version /\ x.deleted = FALSE
  <2>1. q.op \in Generation \union Op
    BY <1>1 DEF WellNamed
  <2>2. QED
    BY <1>1, <2>1, Zenon DEF Version
<1>3. vs \in Seq(Version) /\ LiveVersions(vs) # {}
  <2> HIDE DEF x
  <2>1. LiveVersions(vs) = LiveVersions(versions[s]) \union {Len(versions[s]) + 1}
        /\ vs \in Seq(Version)
    BY <1>1, <1>2, AppendSound
  <2>2. QED
    BY <2>1
<1>4. f \in Row /\ row[s].pinned \in Nat
  BY <1>1, FencedSound DEF Row
<1>5. r \in Row /\ r.served \in LiveVersions(vs) /\ r.pinned \in {0, r.served}
  <2> HIDE DEF vs, f
  <2> QED BY <1>3, <1>4, RollServedSound
<1>6. RowsTyped' /\ Serving'
  <2>1. row' = [row EXCEPT ![s] = r] /\ versions' = [versions EXCEPT ![s] = vs]
    BY DEF Publish
  <2> HIDE DEF r, vs
  <2>2. QED
    BY <1>3, <1>5, <2>1, RowWritten
<1>7. WorkTyped' /\ Named'
  <2>1. WellNamed([q EXCEPT !.stage = "project"])
    BY <1>1 DEF WellNamed, Pending, Stages
  <2>2. QED
    BY <2>1, GoOnSound DEF Publish, WorkTyped
<1>8. FencesTyped'
  BY DEF Publish, FencesTyped
<1>9. NetTyped'
  BY NetSound DEF Publish
<1>10. QED
  BY <1>6, <1>7, <1>8, <1>9 DEF Publish, identityVars, frontVars, LedgerTyped, IntentsTyped,
                                FrontTyped

LEMMA AbandonAppendShape ==
  ASSUME Shape, NEW s \in Slug, AbandonAppend(s)
  PROVE  Shape'
<1> DEFINE q == pending[s]
           a == [q EXCEPT !.kind = "abandon", !.version = @ + 1, !.target = @ - q.charge,
                          !.latest = Len(versions[s]), !.charge = 0]
<1> USE DEF Shape
<1>1. WellNamed(q) /\ q.charge \in Nat /\ q.target \in Nat /\ q.version \in Nat
      /\ Len(versions[s]) \in Nat
  BY PendingFields DEF AbandonAppend
<1>2. q.target - q.charge \in Nat /\ q.version + 1 \in Nat
  BY <1>1 DEF WellNamed
<1>3. WellNamed(a)
  <2>1. q \in Pending /\ q.gen \in Generation
    BY <1>1 DEF WellNamed
  <2>2. /\ a.kind = "abandon" /\ a.gen = q.gen /\ a.charge = 0
        /\ a.target = q.target - q.charge
    BY <2>1 DEF Pending
  <2>3. a \in Pending
    BY <1>1, <1>2, <2>1, Zenon DEF Pending, Kinds
  <2>4. QED
    BY <1>2, <2>1, <2>2, <2>3 DEF WellNamed
<1>4. WorkTyped' /\ Named'
  <2>1. GoOn(s, a) /\ alarm' \subseteq Slug
    BY DEF AbandonAppend, WorkTyped
  <2> HIDE DEF a
  <2>2. QED
    BY <1>3, <2>1, GoOnSound
<1>5. FencesTyped'
  BY DEF AbandonAppend, FencesTyped
<1>6. NetTyped'
  BY NetSound DEF AbandonAppend
<1>7. QED
  BY <1>4, <1>5, <1>6 DEF AbandonAppend, identityVars, frontVars, LedgerTyped, IntentsTyped,
                          RowsTyped, FrontTyped, Serving

LEMMA AdvanceShape ==
  ASSUME Shape, NEW s \in Slug, Advance(s)
  PROVE  Shape'
<1> DEFINE q == pending[s]
<1> USE DEF Shape
<1>1. WellNamed([q EXCEPT !.stage = AfterDecide(q.kind)])
  BY PendingFields DEF Advance, WellNamed, Pending, AfterDecide, Stages
<1>2. WorkTyped' /\ Named'
  BY <1>1, GoOnSound DEF Advance, WorkTyped
<1>3. RowsTyped' /\ Serving'
  BY PendingFields, FencedRow DEF Advance
<1>4. NetTyped'
  BY NetSound DEF Advance
<1>5. QED
  BY <1>2, <1>3, <1>4 DEF Advance, identityVars, frontVars, LedgerTyped, IntentsTyped,
                          FencesTyped, FrontTyped

LEMMA ClearShape ==
  ASSUME Shape, NEW s \in Slug, Clear(s)
  PROVE  Shape'
<1> USE DEF Shape
<1>1. NetTyped'
  BY NetSound DEF Clear
<1>2. WorkTyped' /\ Named'
  BY ClearedSound DEF Clear
<1>3. QED
  BY <1>1, <1>2 DEF Clear, identityVars, frontVars, LedgerTyped, IntentsTyped, RowsTyped,
                    FencesTyped, FrontTyped, Serving

LEMMA FinishDropShape ==
  ASSUME Shape, NEW s \in Slug, FinishDrop(s)
  PROVE  Shape'
<1> USE DEF Shape
<1>1. NetTyped'
  BY NetSound DEF FinishDrop
<1>2. WorkTyped' /\ Named'
  BY ClearedSound DEF FinishDrop
<1>3. FencesTyped'
  BY DEF FinishDrop, FencesTyped
<1>4. QED
  BY <1>1, <1>2, <1>3 DEF FinishDrop, identityVars, frontVars, LedgerTyped, IntentsTyped,
                          RowsTyped, FrontTyped, Serving

LEMMA AlarmShape ==
  ASSUME Shape, NEW s \in Slug, Alarm(s)
  PROVE  Shape'
<1> USE DEF Shape
<1>1. NetTyped'
  BY NetSound DEF Alarm
<1>2. [handler[s] EXCEPT !.at = "call"] \in Handler
  BY DEF WorkTyped, Handler
<1>3. WorkTyped' /\ Named'
  <2>1. [handler[s] EXCEPT !.at = "call"].at = "call"
    BY <1>2 DEF WorkTyped, Handler
  <2>2. QED
    BY <1>2, <2>1, HandlerAlone DEF Alarm, WorkTyped
<1>4. QED
  BY <1>1, <1>3 DEF Alarm, identityVars, frontVars, LedgerTyped, IntentsTyped, RowsTyped,
                    FencesTyped, FrontTyped, Serving
-----------------------------------------------------------------------------
(* The mutations.                                                          *)

\* A request that is only answered.
LEMMA AnsweredShape ==
  ASSUME Shape, NEW p \in Op, NEW answer \in {"asked", "ok", "refused"}, Tell(p, answer),
         UNCHANGED <<identityVars, pasteVars, create>>, NoFault
  PROVE  Shape'
<1> USE DEF Shape
<1>1. FrontTyped' /\ NetTyped'
  BY NetSound DEF Tell, FrontTyped
<1>2. QED
  BY <1>1 DEF identityVars, pasteVars, LedgerTyped, IntentsTyped, RowsTyped, WorkTyped,
              FencesTyped, Serving, Named

LEMMA AnswersShape ==
  ASSUME Shape, NEW p \in Op,
         \/ Issue(p) \/ Replay(p) \/ Busy(p) \/ Mismatch(p)
         \/ AppendRefused(p) \/ DeleteNothing(p)
  PROVE  Shape'
<1>1. CASE Issue(p)
  BY <1>1, AnsweredShape DEF Issue, Tell
<1>2. ASSUME NEW answer \in {"ok", "refused"}, Answered(p, answer)
      PROVE  Shape'
  BY <1>2, AnsweredShape DEF Answered
<1>3. CASE Replay(p)
  BY <1>2, <1>3 DEF Replay
<1>4. CASE Busy(p) \/ Mismatch(p) \/ AppendRefused(p)
  BY <1>2, <1>4 DEF Busy, Mismatch, AppendRefused
<1>5. CASE DeleteNothing(p)
  BY <1>2, <1>5 DEF DeleteNothing
<1>6. QED
  BY <1>1, <1>3, <1>4, <1>5

LEMMA ResumeShape ==
  ASSUME Shape, NEW p \in Op, Resume(p)
  PROVE  Shape'
<1> DEFINE s == TargetOf(p)
<1> USE DEF Shape
<1>1. NetTyped' /\ FrontTyped'
  BY NetSound DEF Resume, frontVars, FrontTyped
<1>2. s \in Slug /\ pending[s].kind # "none" /\ UNCHANGED pending /\ alarm' \subseteq Slug
  BY RequestFields DEF Resume, WorkTyped
<1>3. WorkTyped' /\ Named'
  <2>1. CASE handler' = [handler EXCEPT ![s].at = "call"]
    <3>1. /\ [handler[s] EXCEPT !.at = "call"] \in Handler
          /\ [handler[s] EXCEPT !.at = "call"].at = "call"
      BY <1>2 DEF WorkTyped, Handler
    <3>2. QED
      BY <1>2, <2>1, <3>1, HandlerAlone
  <2>2. CASE handler' = [handler EXCEPT ![s] = [at |-> "call", then |-> p]]
    <3>1. [at |-> "call", then |-> p] \in Handler
      BY DEF Handler
    <3>2. QED
      BY <1>2, <2>2, <3>1, HandlerAlone
  <2>3. QED
    BY <2>1, <2>2 DEF Resume
<1>4. QED
  BY <1>1, <1>3 DEF Resume, identityVars, LedgerTyped, IntentsTyped, RowsTyped, FencesTyped,
                    Serving

LEMMA DecideWellNamed ==
  ASSUME Shape, NEW p \in Op, NEW kind \in Kinds, NEW target \in Nat, NEW cap \in Nat,
         NEW latest \in Nat, NEW charge \in Nat, charge <= target
  PROVE  WellNamed(Decide(p, kind, target, cap, latest, charge))
<1>1. row[TargetOf(p)].version + 1 \in Nat /\ GenOf(p) \in Generation
  BY RequestFields DEF Shape, RowsTyped, Row
<1>2. QED
  BY <1>1 DEF Decide, WellNamed, Pending, Stages, Kinds

LEMMA StartAppendShape ==
  ASSUME Shape, NEW p \in Op, StartAppend(p)
  PROVE  Shape'
<1> DEFINE s == TargetOf(p)
           n == Len(versions[s])
<1> USE DEF Shape
<1>1. s \in Slug /\ versions[s] \in Seq(Version) /\ n \in Nat /\ UserCap \in Nat
  BY RequestFields, ConstantsAssumption DEF RowsTyped
<1>2. PICK charge \in Charges :
          Begin(s, Decide(p, "append", LiveCharge(versions[s]) + charge, UserCap, n + 1, charge))
  BY DEF StartAppend
<1>3. LiveCharge(versions[s]) \in Nat /\ charge \in Nat
  BY <1>1, LiveVersionsFinite, ConstantsAssumption
<1>4. WellNamed(Decide(p, "append", LiveCharge(versions[s]) + charge, UserCap, n + 1, charge))
  <2>1. /\ LiveCharge(versions[s]) + charge \in Nat /\ n + 1 \in Nat
        /\ charge <= LiveCharge(versions[s]) + charge /\ "append" \in Kinds
    BY <1>1, <1>3 DEF Kinds
  <2>2. QED
    BY <1>1, <1>3, <2>1, DecideWellNamed
<1>5. WorkTyped' /\ Named'
  BY <1>1, <1>2, <1>4, BeginSound
<1>6. NetTyped'
  BY NetSound DEF StartAppend
<1>7. QED
  BY <1>5, <1>6 DEF StartAppend, identityVars, frontVars, LedgerTyped, IntentsTyped, RowsTyped,
                    FencesTyped, FrontTyped, Serving

LEMMA StartDeleteShape ==
  ASSUME Shape, NEW p \in Op, StartDelete(p)
  PROVE  Shape'
<1> DEFINE s  == TargetOf(p)
           n  == Len(versions[s])
           r  == row[s]
           live == LiveVersions(versions[s])
<1> USE DEF Shape
<1>1. s \in Slug /\ versions[s] \in Seq(Version) /\ n \in Nat /\ r \in Row /\ r.pinned \in Nat
  BY RequestFields DEF RowsTyped, Row
<1>2. r.gen # None
  BY RequestFields, GenerationFields DEF StartDelete, Turn
<1>3. r.served \in live /\ r.pinned \in {0, r.served}
  BY <1>1, <1>2 DEF Serving
<1>4. PICK v \in live, inherited \in Nat :
         LET vs == Tombstoned(versions[s], v, inherited) IN
         /\ v # IF r.pinned # 0 THEN r.pinned ELSE ServedOf(0, versions[s])
         /\ versions' = [versions EXCEPT ![s] = vs]
         /\ row' = [row EXCEPT ![s] = RollServed(r, r.pinned, vs)]
         /\ Begin(s, Decide(p, "deleteVersion", LiveCharge(vs), 0, n, 0))
  <2>1. PICK v \in live :
         /\ v # IF r.pinned # 0 THEN r.pinned ELSE ServedOf(0, versions[s])
         /\ \E inherited \in IF NextLive(versions[s], v) = {} THEN {0} ELSE 0 .. versions[s][v].charge :
              LET vs == Tombstoned(versions[s], v, inherited) IN
              /\ versions' = [versions EXCEPT ![s] = vs]
              /\ row' = [row EXCEPT ![s] = RollServed(r, r.pinned, vs)]
              /\ Begin(s, Decide(p, "deleteVersion", LiveCharge(vs), 0, n, 0))
    BY DEF StartDelete
  <2>2. versions[s][v].charge \in Nat
    <3>1. v \in 1..Len(versions[s])
      BY <1>1, LiveVersionsFinite
    <3>2. versions[s][v] \in Version
      BY <1>1, <3>1
    <3>3. QED
      BY <3>2 DEF Version
  <2>3. (IF NextLive(versions[s], v) = {} THEN {0} ELSE 0 .. versions[s][v].charge)
           \subseteq Nat
    BY <2>2
  <2>4. QED
    BY <2>1, <2>3, Zenon
<1> DEFINE vs == Tombstoned(versions[s], v, inherited)
           rolled == RollServed(r, r.pinned, vs)
<1>5. vs \in Seq(Version) /\ LiveVersions(vs) = live \ {v}
  BY <1>1, TombstonedSound
\* Another version stays live: the pin, or what is served without one.
<1>6. LiveVersions(vs) # {}
  <2>1. CASE r.pinned # 0
    BY <1>3, <1>4, <1>5, <2>1
  <2>2. CASE r.pinned = 0
    <3>1. live # {} /\ live \subseteq 1..n
      BY <1>1, <1>3, LiveVersionsFinite
    <3>2. PICK top \in live : \A j \in live : j <= top
      BY <1>1, <3>1, NewestExists
    <3>3. 0 \notin live
      BY <3>1
    <3>4. ServedOf(0, versions[s]) \in live
      BY <3>2, <3>3 DEF ServedOf
    <3>5. QED
      BY <1>4, <1>5, <2>2, <3>4
  <2>3. QED
    BY <2>1, <2>2
<1>7. rolled \in Row /\ rolled.served \in LiveVersions(vs) /\ rolled.pinned \in {0, rolled.served}
  <2> HIDE DEF vs
  <2> QED BY <1>1, <1>5, <1>6, RollServedSound
<1>8. RowsTyped' /\ Serving'
  <2>1. row' = [row EXCEPT ![s] = rolled] /\ versions' = [versions EXCEPT ![s] = vs]
    BY <1>4
  <2> HIDE DEF rolled, vs
  <2>2. QED
    BY <1>1, <1>5, <1>7, <2>1, RowWritten
<1>9. WorkTyped' /\ Named'
  <2> HIDE DEF vs
  <2>1. LiveCharge(vs) \in Nat /\ "deleteVersion" \in Kinds
    BY <1>5, LiveVersionsFinite DEF Kinds
  <2>2. WellNamed(Decide(p, "deleteVersion", LiveCharge(vs), 0, n, 0))
    BY <1>1, <2>1, DecideWellNamed
  <2>3. Begin(s, Decide(p, "deleteVersion", LiveCharge(vs), 0, n, 0))
    BY <1>4 DEF vs
  <2>4. QED
    BY <1>1, <2>2, <2>3, BeginSound
<1>10. FencesTyped'
  BY DEF StartDelete, FencesTyped
<1>11. NetTyped'
  BY NetSound DEF StartDelete
<1>12. QED
  BY <1>8, <1>9, <1>10, <1>11 DEF StartDelete, identityVars, frontVars, LedgerTyped,
                                  IntentsTyped, FrontTyped

LEMMA StartPinShape ==
  ASSUME Shape, NEW p \in Op, StartPin(p)
  PROVE  Shape'
<1> DEFINE s == TargetOf(p)
           live == LiveVersions(versions[s])
<1> USE DEF Shape
<1>1. s \in Slug /\ versions[s] \in Seq(Version) /\ Len(versions[s]) \in Nat /\ row[s] \in Row
  BY RequestFields DEF RowsTyped
<1>2. live # {} /\ live \subseteq 1..Len(versions[s]) /\ LiveCharge(versions[s]) \in Nat
  <2>1. row[s].gen # None
    BY RequestFields, GenerationFields DEF StartPin, Turn
  <2>2. QED
    BY <1>1, <2>1, LiveVersionsFinite DEF Serving
<1>3. PICK v \in live \union {0} :
         row' = [row EXCEPT ![s] = RollServed(row[s], v, versions[s])]
  BY DEF StartPin
<1>4. v \in Nat
  BY <1>2
<1> DEFINE rolled == RollServed(row[s], v, versions[s])
<1>5. rolled \in Row /\ rolled.served \in live /\ rolled.pinned \in {0, rolled.served}
  BY <1>1, <1>2, <1>4, RollServedSound
<1>6. RowsTyped' /\ Serving'
  <2>1. row' = [row EXCEPT ![s] = rolled] /\ UNCHANGED versions
    BY <1>3 DEF StartPin
  <2> HIDE DEF rolled
  <2>2. QED
    BY <1>1, <1>5, <2>1, RowAlone
<1>7. WorkTyped' /\ Named'
  <2>1. WellNamed(Decide(p, "pin", LiveCharge(versions[s]), 0, Len(versions[s]), 0))
    <3>1. "pin" \in Kinds
      BY DEF Kinds
    <3>2. QED
      BY <1>1, <1>2, <3>1, DecideWellNamed
  <2>2. QED
    BY <1>1, <2>1, BeginSound DEF StartPin
<1>8. FencesTyped'
  BY DEF StartPin, FencesTyped
<1>9. NetTyped'
  BY NetSound DEF StartPin
<1>10. QED
  BY <1>6, <1>7, <1>8, <1>9 DEF StartPin, identityVars, frontVars, LedgerTyped, IntentsTyped,
                                FrontTyped

LEMMA StartRemoveShape ==
  ASSUME Shape, NEW p \in Op, StartRemove(p)
  PROVE  Shape'
<1> DEFINE s == TargetOf(p)
<1> USE DEF Shape
<1>1. s \in Slug /\ Len(versions[s]) \in Nat /\ GenOf(p) \in Generation
  BY RequestFields DEF RowsTyped
<1>2. RowsTyped' /\ Serving'
  <2>1. NoRow \in Row /\ NoRow.gen = None
    BY EmptyRecords DEF NoRow
  <2>2. QED
    BY <1>1, <2>1, RowAlone DEF StartRemove
<1>3. WorkTyped' /\ Named'
  <2>1. WellNamed(Decide(p, "remove", 0, 0, Len(versions[s]), 0))
    <3>1. "remove" \in Kinds /\ 0 \in Nat /\ 0 <= 0
      BY DEF Kinds
    <3>2. QED
      BY <1>1, <3>1, DecideWellNamed
  <2>2. QED
    BY <1>1, <2>1, BeginSound DEF StartRemove
<1>4. FencesTyped'
  BY <1>1 DEF StartRemove, FencesTyped
<1>5. NetTyped'
  BY NetSound DEF StartRemove
<1>6. QED
  BY <1>2, <1>3, <1>4, <1>5 DEF StartRemove, identityVars, frontVars, LedgerTyped,
                                IntentsTyped, FrontTyped

\* A row whose status or name changes serves what it served.
LEMMA SameServed ==
  ASSUME Shape, NEW s \in Slug, NEW r \in Row, r.gen = row[s].gen,
         r.served = row[s].served, r.pinned = row[s].pinned,
         row' = [row EXCEPT ![s] = r], UNCHANGED versions
  PROVE  RowsTyped' /\ Serving'
BY RowAlone DEF Shape, Serving

LEMMA StartFailShape ==
  ASSUME Shape, NEW p \in Op, StartFail(p)
  PROVE  Shape'
<1> DEFINE s == TargetOf(p)
           r == [row[s] EXCEPT !.status = "failed"]
<1> USE DEF Shape
<1>1. s \in Slug /\ Len(versions[s]) \in Nat /\ row[s] \in Row
  BY RequestFields DEF RowsTyped
<1>2. RowsTyped' /\ Serving'
  <2>1. /\ r \in Row /\ r.gen = row[s].gen
        /\ r.served = row[s].served /\ r.pinned = row[s].pinned
    BY <1>1 DEF Row, Status
  <2>2. row' = [row EXCEPT ![s] = r] /\ UNCHANGED versions
    BY DEF StartFail
  <2> HIDE DEF r
  <2>3. QED
    BY <1>1, <2>1, <2>2, SameServed
<1>3. WorkTyped' /\ Named'
  <2>1. WellNamed(Decide(p, "fail", 0, 0, Len(versions[s]), 0))
    <3>1. "fail" \in Kinds /\ 0 \in Nat /\ 0 <= 0
      BY DEF Kinds
    <3>2. QED
      BY <1>1, <3>1, DecideWellNamed
  <2>2. QED
    BY <1>1, <2>1, BeginSound DEF StartFail
<1>4. FencesTyped'
  BY DEF StartFail, FencesTyped
<1>5. NetTyped'
  BY NetSound DEF StartFail
<1>6. QED
  BY <1>2, <1>3, <1>4, <1>5 DEF StartFail, identityVars, frontVars, LedgerTyped, IntentsTyped,
                                FrontTyped

LEMMA ProjectShape ==
  ASSUME Shape, NEW p \in Op, Project(p)
  PROVE  Shape'
<1> DEFINE s == TargetOf(p)
           q == [NoPending EXCEPT !.kind = "projection", !.stage = "project", !.gen = GenOf(p),
                                  !.version = row[s].version, !.latest = Len(versions[s])]
<1> USE DEF Shape
<1>1. /\ s \in Slug /\ Len(versions[s]) \in Nat /\ row[s] \in Row /\ row[s].version \in Nat
      /\ GenOf(p) \in Generation
  BY RequestFields DEF RowsTyped, Row
<1>2. RowsTyped' /\ Serving'
  <2>1. PICK r \in Row : /\ r.gen = row[s].gen /\ r.served = row[s].served
                         /\ r.pinned = row[s].pinned /\ row' = [row EXCEPT ![s] = r]
    <3>1. CASE row' = [row EXCEPT ![s].status = "ready"]
      <4>1. [row[s] EXCEPT !.status = "ready"] \in Row
        BY <1>1 DEF Row, Status
      <4>2. QED
        BY <1>1, <3>1, <4>1 DEF Row
    <3>2. ASSUME NEW n \in Names, row' = [row EXCEPT ![s].name = n]
          PROVE  \E r \in Row : /\ r.gen = row[s].gen /\ r.served = row[s].served
                                /\ r.pinned = row[s].pinned /\ row' = [row EXCEPT ![s] = r]
      <4>1. [row[s] EXCEPT !.name = n] \in Row
        BY <1>1 DEF Row
      <4>2. QED
        BY <1>1, <3>2, <4>1 DEF Row
    <3>3. QED
      BY <3>1, <3>2 DEF Project
  <2>2. QED
    BY <1>1, <2>1, SameServed DEF Project
<1>3. WorkTyped' /\ Named'
  <2>1. /\ q.kind = "projection" /\ q.gen = GenOf(p) /\ q.charge = 0 /\ q.target = 0
        /\ q \in Pending
    BY <1>1 DEF NoPending, Pending, Kinds, Stages
  <2>2. WellNamed(q)
    <3> HIDE DEF q
    <3> QED BY <1>1, <2>1 DEF WellNamed
  <2>3. Begin(s, q)
    BY DEF Project
  <2> HIDE DEF q
  <2>4. QED
    BY <1>1, <2>2, <2>3, BeginSound
<1>4. FrontTyped' /\ NetTyped'
  BY NetSound DEF Project, Tell, FrontTyped
<1>5. QED
  BY <1>2, <1>3, <1>4 DEF Project, identityVars, LedgerTyped, IntentsTyped, FencesTyped

LEMMA GoesOnShape ==
  ASSUME Shape, NEW s \in Slug, GoesOn(s)
  PROVE  Shape'
<1> USE DEF Shape
<1>1. handler[s].then \in Op
  BY DEF GoesOn, Named
<1>2. CASE Project(handler[s].then)
  BY <1>1, <1>2, ProjectShape
<1>3. CASE ~Project(handler[s].then)
  <2>1. NetTyped'
    BY <1>3, NetSound DEF GoesOn
  <2>2. WorkTyped' /\ Named'
    BY <1>3, BackToIdle DEF GoesOn, WorkTyped
  <2>3. QED
    BY <1>3, <2>1, <2>2 DEF GoesOn, identityVars, frontVars, LedgerTyped, IntentsTyped,
                            RowsTyped, FencesTyped, FrontTyped, Serving
<1>4. QED
  BY <1>2, <1>3

-----------------------------------------------------------------------------

LEMMA ShapeInit == Init => Shape
<1> SUFFICES ASSUME Init
             PROVE  Shape
  OBVIOUS
<1>1. LedgerTyped /\ IntentsTyped
  BY EmptyRecords DEF Init, LedgerTyped, IntentsTyped
<1>2. RowsTyped /\ WorkTyped
  BY EmptyRecords DEF Init, RowsTyped, WorkTyped
<1>3. FencesTyped /\ FrontTyped
  BY DEF Init, FencesTyped, FrontTyped
<1>4. NetTyped
  BY ConstantsAssumption DEF Init, NetTyped
<1>5. Serving /\ Named
  BY DEF Init, Serving, Named, NoRow, NoPending, Idle
<1>6. QED
  BY <1>1, <1>2, <1>3, <1>4, <1>5 DEF Shape

LEMMA ShapeStep == Shape /\ [Next]_vars => Shape'
<1> SUFFICES ASSUME Shape, [Next]_vars
             PROVE  Shape'
  OBVIOUS
<1>1. ASSUME NEW g \in Generation, CreateStep(g)
      PROVE  Shape'
  BY <1>1, ReserveShape, PutShape, PutLostShape, ConfirmShape, ReleaseShape, ForgottenShape
     DEF CreateStep
<1>2. ASSUME NEW o \in Owner, IdentityStep(o)
      PROVE  Shape'
  BY <1>2, ResolveIntentShape, AbortCreateShape, IntentAnsweredShape, ResolverFailsShape
     DEF IdentityStep
<1>3. ASSUME NEW s \in Slug, SagaStep(s)
      PROVE  Shape'
  BY <1>3, IdentityAnswersShape, CallFailsShape, PasteStopsShape, AlarmShape, GoesOnShape,
     RetryShape, SettleAbsentShape, RefuseShape, PublishShape, AbandonAppendShape,
     AdvanceShape, ClearShape, FinishDropShape
     DEF SagaStep
<1>4. ASSUME NEW p \in Op, RequestStep(p)
      PROVE  Shape'
  <2>1. CASE StartProjection(p)
    BY <2>1, ProjectShape DEF StartProjection
  <2>2. QED
    BY <1>4, <2>1, AnswersShape, ResumeShape, StartAppendShape, StartDeleteShape,
       StartPinShape, StartRemoveShape, StartFailShape
       DEF RequestStep
<1>5. ASSUME NEW m \in late, LateArrives(m)
      PROVE  Shape'
  BY <1>5, LateArrivesShape
<1>6. CASE UNCHANGED vars
  BY <1>6 DEF vars, identityVars, pasteVars, frontVars, netVars, Shape, LedgerTyped,
              IntentsTyped, RowsTyped, WorkTyped, FencesTyped, FrontTyped, NetTyped,
              Serving, Named
<1>7. QED
  BY <1>1, <1>2, <1>3, <1>4, <1>5, <1>6 DEF Next

\* Shape is invariant: whatever is lost, delayed or stopped, in any number of
\* owners, slugs, creates and requests.
THEOREM ShapeInvariant == Spec => []Shape
BY ShapeInit, ShapeStep, PTL DEF Spec

\* Every record of both kinds of cell (identity.js, paste.js), of the front end
\* and of the network keeps its shape.
THEOREM TypeCorrect == Spec => []TypeOK
<1>1. Shape => TypeOK
  BY DEF Shape, TypeOK, LedgerTyped, IntentsTyped, RowsTyped, WorkTyped, FencesTyped,
         FrontTyped, NetTyped
<1>2. QED
  BY <1>1, ShapeInvariant, PTL

\* After any sequence of appends, deletes and pins the row serves a version
\* whose bytes are retained, the pinned one if there is a pin (rollServed).
THEOREM AlwaysServesLive == Spec => []ServesLive
<1>1. Shape => ServesLive
  BY GenerationFields DEF Shape, Serving, ServesLive, Present
<1>2. QED
  BY <1>1, ShapeInvariant, PTL

-----------------------------------------------------------------------------
(***************************************************************************)
(* Appends.  The argument follows the receipt: while an append is pending  *)
(* and undecided it has no receipt and its caller no refusal; publishing   *)
(* it and giving it the receipt "ok" are one commit; every other end gives *)
(* it another receipt.  A version therefore carries the upload of a        *)
(* request whose receipt is "ok" (Published), and a request that publishes *)
(* has none (Appending), so its upload is new.                             *)
(***************************************************************************)

\* An operation pending at a cell belongs to it; an undecided append has no
\* outcome yet, one being abandoned has a refusal.
AppendingAt(s) ==
    LET q == pending[s] IN
    /\ q.kind \in {"append", "abandon"} => q.op \in Op
    /\ q.op \in Op => /\ TargetOf(q.op) = s
                      /\ KindOf(q.op) = "append" <=> q.kind \in {"append", "abandon"}
    /\ q.kind = "append" /\ q.stage = "decide" =>
          receipts[q.op] = "none" /\ caller[q.op] # "refused"
    /\ q.kind = "abandon" => receipts[q.op] = "too-large"
    /\ handler[s].at \in {"granted", "refused"} => q.stage = "decide"

Appending == \A s \in Slug : AppendingAt(s)

\* What a published request looks like.
IsPublished(p, s) ==
    /\ KindOf(p) = "append" /\ TargetOf(p) = s
    /\ receipts[p] = "ok" /\ caller[p] # "refused"

Published ==
    \A s \in Slug : \A v \in DOMAIN versions[s] :
       versions[s][v].upload \in Op => IsPublished(versions[s][v].upload, s)

AppendInv == Shape /\ Appending /\ Published /\ AppendOnce

-----------------------------------------------------------------------------
(* Steps by what they change of an append.                                 *)

\* The lock of a cell moves, or nothing does.
LEMMA QuietStep ==
  ASSUME AppendInv, Shape', UNCHANGED <<versions, pending, receipts, caller>>,
         \/ UNCHANGED handler
         \/ \E s \in Slug, h \in Handler :
               /\ handler' = [handler EXCEPT ![s] = h]
               /\ h.at \in {"granted", "refused"} => pending[s].stage = "decide"
  PROVE  AppendInv'
<1>1. Appending'
  BY DEF AppendInv, Shape, WorkTyped, Appending, AppendingAt
<1>2. Published' /\ AppendOnce'
  BY DEF AppendInv, Published, IsPublished, AppendOnce
<1>3. QED
  BY <1>1, <1>2 DEF AppendInv

\* A request is answered: a refusal only goes to one that is neither pending
\* and undecided nor published.
LEMMA AnswerStep ==
  ASSUME AppendInv, Shape', NEW p \in Op, NEW answer \in {"asked", "ok", "refused"},
         Tell(p, answer), UNCHANGED <<versions, pending, receipts, handler>>,
         answer = "refused" =>
            \/ KindOf(p) # "append"
            \/ receipts[p] \notin {"none", "ok"}
            \/ receipts[p] = "none" /\ pending[TargetOf(p)].op # p
  PROVE  AppendInv'
<1>1. caller' = [caller EXCEPT ![p] = answer] /\ caller \in [Op -> {"idle", "asked", "ok", "refused"}]
  BY DEF Tell, AppendInv, Shape, FrontTyped
<1>2. ASSUME NEW s \in Slug
      PROVE  AppendingAt(s)'
  BY <1>1 DEF AppendInv, Appending, AppendingAt
<1>3. ASSUME NEW s \in Slug, NEW v \in DOMAIN versions[s], versions[s][v].upload \in Op
      PROVE  IsPublished(versions[s][v].upload, s)'
  BY <1>1, <1>3 DEF AppendInv, Published, IsPublished
<1>4. AppendOnce'
  BY DEF AppendInv, AppendOnce
<1>5. QED
  BY <1>2, <1>3, <1>4 DEF AppendInv, Appending, Published

\* An operation ends without an outcome of its own.
LEMMA ClearedStep ==
  ASSUME AppendInv, Shape', NEW s \in Slug, Cleared(s), UNCHANGED <<versions, receipts, caller>>
  PROVE  AppendInv'
<1>1. ASSUME NEW x \in Slug
      PROVE  AppendingAt(x)'
  <2>1. CASE x = s
    <3>1. pending'[x] = NoPending /\ handler'[x].at \in {"idle", "next"}
      BY <2>1 DEF Cleared, Idle, AppendInv, Shape, WorkTyped
    <3>2. QED
      BY <3>1, ConstantsAssumption DEF AppendingAt, NoPending
  <2>2. CASE x # s
    <3>1. pending'[x] = pending[x] /\ handler'[x] = handler[x]
      BY <2>2 DEF Cleared, AppendInv, Shape, WorkTyped
    <3>2. QED
      BY <3>1 DEF AppendInv, Appending, AppendingAt
  <2>3. QED
    BY <2>1, <2>2
<1>2. Published' /\ AppendOnce'
  BY DEF AppendInv, Published, IsPublished, AppendOnce
<1>3. QED
  BY <1>1, <1>2 DEF AppendInv, Appending

LEMMA RefuseStep ==
  ASSUME AppendInv, Shape', NEW s \in Slug, Refuse(s)
  PROVE  AppendInv'
<1> DEFINE p == pending[s].op
<1>1. /\ receipts' = [receipts EXCEPT ![p] = "over-quota"] /\ Cleared(s)
      /\ UNCHANGED <<versions, caller>>
      /\ receipts \in [Op -> {"none", "ok", "over-quota", "too-large"}]
  BY DEF Refuse, frontVars, AppendInv, Shape, FencesTyped
<1>2. p \in Op /\ KindOf(p) = "append" => receipts[p] # "ok"
  BY DEF Refuse, AppendInv, Appending, AppendingAt
<1>3. ASSUME NEW x \in Slug
      PROVE  AppendingAt(x)'
  <2>1. CASE x = s
    <3>1. pending'[x] = NoPending /\ handler'[x].at \in {"idle", "next"}
      BY <1>1, <2>1 DEF Cleared, Idle, AppendInv, Shape, WorkTyped
    <3>2. QED
      BY <3>1, ConstantsAssumption DEF AppendingAt, NoPending
  <2>2. CASE x # s
    <3>1. pending'[x] = pending[x] /\ handler'[x] = handler[x]
      BY <1>1, <2>2 DEF Cleared, AppendInv, Shape, WorkTyped
    <3>2. pending[x].op \in Op => receipts'[pending[x].op] = receipts[pending[x].op]
      BY <1>1, <2>2 DEF AppendInv, Appending, AppendingAt
    <3>3. QED
      BY <1>1, <3>1, <3>2 DEF AppendInv, Appending, AppendingAt
  <2>3. QED
    BY <2>1, <2>2
<1>4. ASSUME NEW x \in Slug, NEW v \in DOMAIN versions[x], versions[x][v].upload \in Op
      PROVE  IsPublished(versions[x][v].upload, x)'
  BY <1>1, <1>2, <1>4 DEF AppendInv, Published, IsPublished
<1>5. AppendOnce'
  BY <1>1 DEF AppendInv, AppendOnce
<1>6. QED
  BY <1>1, <1>3, <1>4, <1>5 DEF AppendInv, Appending, Published
\* Another cell's operation is not the one of this cell.
LEMMA OtherCell ==
  ASSUME AppendInv, NEW s \in Slug, NEW x \in Slug, x # s, pending[s].op \in Op,
         pending[x].op \in Op
  PROVE  pending[x].op # pending[s].op
BY DEF AppendInv, Appending, AppendingAt

LEMMA PublishStep ==
  ASSUME AppendInv, Shape', NEW s \in Slug, Publish(s)
  PROVE  AppendInv'
<1> DEFINE q == pending[s]
           p == q.op
           x == [upload |-> p, charge |-> q.charge, deleted |-> FALSE]
           n == Len(versions[s])
           vs == Append(versions[s], x)
<1>1. /\ receipts' = [receipts EXCEPT ![p] = "ok"] /\ UNCHANGED caller
      /\ versions' = [versions EXCEPT ![s] = vs]
      /\ handler' = [handler EXCEPT ![s].at = "call"]
      /\ pending' = [pending EXCEPT ![s] = [q EXCEPT !.stage = "project"]]
      /\ receipts \in [Op -> {"none", "ok", "over-quota", "too-large"}]
      /\ versions \in [Slug -> Seq(Version)]
      /\ pending \in [Slug -> Pending] /\ handler \in [Slug -> Handler]
  BY DEF Publish, GoOn, frontVars, AppendInv, Shape, FencesTyped, RowsTyped, WorkTyped
<1>2. /\ p \in Op /\ KindOf(p) = "append" /\ TargetOf(p) = s
      /\ receipts[p] = "none" /\ caller[p] # "refused" /\ q.kind = "append"
  BY DEF Publish, AppendInv, Appending, AppendingAt
<1>3. /\ DOMAIN versions[s] = 1..n /\ n \in Nat /\ DOMAIN vs = 1..(n + 1)
      /\ \A v \in 1..n : vs[v] = versions[s][v]
      /\ vs[n + 1].upload = p
  <2>1. versions[s] \in Seq(Version) /\ x.upload = p
    BY <1>1
  <2> HIDE DEF x
  <2>2. QED
    BY <2>1
<1>4. \A v \in 1..n : versions[s][v].upload # p
  BY <1>2, <1>3 DEF AppendInv, Published, IsPublished
<1>5. ASSUME NEW y \in Slug
      PROVE  AppendingAt(y)'
  <2>1. CASE y = s
    <3>1. /\ pending'[y].kind = "append" /\ pending'[y].op = p /\ pending'[y].stage = "project"
          /\ handler'[y].at = "call"
      BY <1>1, <1>2, <2>1 DEF Pending, Handler
    <3>2. QED
      BY <1>2, <2>1, <3>1 DEF AppendingAt
  <2>2. CASE y # s
    <3>1. pending'[y] = pending[y] /\ handler'[y] = handler[y]
      BY <1>1, <2>2
    <3>2. pending[y].op \in Op => receipts'[pending[y].op] = receipts[pending[y].op]
      BY <1>1, <1>2, <2>2, OtherCell
    <3>3. QED
      BY <1>1, <3>1, <3>2 DEF AppendInv, Appending, AppendingAt
  <2>3. QED
    BY <2>1, <2>2
<1>6. /\ versions'[s] = vs
      /\ \A y \in Slug \ {s} : versions'[y] = versions[y]
      /\ \A r \in Op : receipts'[r] = IF r = p THEN "ok" ELSE receipts[r]
  BY <1>1
<1>7. ASSUME NEW y \in Slug, NEW v \in DOMAIN versions'[y], versions'[y][v].upload \in Op
      PROVE  IsPublished(versions[y][v].upload, y)'
  <2> HIDE DEF vs
  <2>1. CASE y = s /\ v = n + 1
    <3>1. versions'[y][v].upload = p
      BY <1>3, <1>6, <2>1
    <3>2. receipts'[p] = "ok" /\ caller'[p] # "refused"
      BY <1>1, <1>2, <1>6
    <3>3. QED
      BY <1>2, <2>1, <3>1, <3>2 DEF IsPublished
  <2>2. CASE y # s \/ v # n + 1
    <3>1. v \in DOMAIN versions[y] /\ versions'[y][v] = versions[y][v]
      BY <1>3, <1>6, <2>2
    <3>2. IsPublished(versions[y][v].upload, y)
      BY <1>7, <3>1 DEF AppendInv, Published
    <3>3. receipts'[versions[y][v].upload] = "ok"
      BY <1>6, <1>7, <3>1, <3>2 DEF IsPublished
    <3>4. QED
      BY <1>1, <3>1, <3>2, <3>3 DEF IsPublished
  <2>3. QED
    BY <2>1, <2>2
<1>8. ASSUME NEW y \in Slug, NEW v \in DOMAIN versions'[y], NEW w \in DOMAIN versions'[y],
             versions'[y][v].upload = versions'[y][w].upload
      PROVE  v = w
  <2> HIDE DEF vs
  <2>1. CASE y = s
    <3>1. CASE v \in 1..n /\ w \in 1..n
      BY <1>3, <1>6, <1>8, <2>1, <3>1 DEF AppendInv, AppendOnce
    <3>2. CASE v = n + 1 /\ w \in 1..n
      BY <1>3, <1>4, <1>6, <1>8, <2>1, <3>2
    <3>3. CASE w = n + 1 /\ v \in 1..n
      BY <1>3, <1>4, <1>6, <1>8, <2>1, <3>3
    <3>4. v \in 1..(n + 1) /\ w \in 1..(n + 1)
      BY <1>3, <1>6, <2>1
    <3>5. QED
      BY <1>3, <3>1, <3>2, <3>3, <3>4
  <2>2. CASE y # s
    BY <1>6, <1>8, <2>2 DEF AppendInv, AppendOnce
  <2>3. QED
    BY <2>1, <2>2
<1>9. Appending' /\ Published'
  BY <1>5, <1>7 DEF Appending, Published
<1>10. AppendOnce'
  BY <1>8 DEF AppendOnce
<1>11. QED
  BY <1>9, <1>10 DEF AppendInv

LEMMA AbandonStep ==
  ASSUME AppendInv, Shape', NEW s \in Slug, AbandonAppend(s)
  PROVE  AppendInv'
<1> DEFINE p == pending[s].op
<1>1. /\ receipts' = [receipts EXCEPT ![p] = "too-large"] /\ UNCHANGED <<versions, caller>>
      /\ receipts \in [Op -> {"none", "ok", "over-quota", "too-large"}]
      /\ pending \in [Slug -> Pending] /\ handler \in [Slug -> Handler]
      /\ handler' = [handler EXCEPT ![s].at = "call"]
  BY DEF AbandonAppend, GoOn, frontVars, AppendInv, Shape, FencesTyped, WorkTyped
<1>2. /\ p \in Op /\ KindOf(p) = "append" /\ TargetOf(p) = s /\ receipts[p] = "none"
  BY DEF AbandonAppend, AppendInv, Appending, AppendingAt
<1>3. /\ pending'[s].kind = "abandon" /\ pending'[s].op = p
      /\ \A y \in Slug \ {s} : pending'[y] = pending[y] /\ handler'[y] = handler[y]
      /\ handler'[s].at = "call"
  BY <1>1 DEF AbandonAppend, GoOn, Pending, Handler
<1>4. ASSUME NEW y \in Slug
      PROVE  AppendingAt(y)'
  <2>1. CASE y = s
    BY <1>1, <1>2, <1>3, <2>1 DEF AppendingAt
  <2>2. CASE y # s
    <3>1. pending[y].op \in Op => receipts'[pending[y].op] = receipts[pending[y].op]
      BY <1>1, <1>2, <2>2, OtherCell
    <3>2. QED
      BY <1>1, <1>3, <2>2, <3>1 DEF AppendInv, Appending, AppendingAt
  <2>3. QED
    BY <2>1, <2>2
<1>5. ASSUME NEW y \in Slug, NEW v \in DOMAIN versions[y], versions[y][v].upload \in Op
      PROVE  IsPublished(versions[y][v].upload, y)'
  BY <1>1, <1>2, <1>5 DEF AppendInv, Published, IsPublished
<1>6. AppendOnce'
  BY <1>1 DEF AppendInv, AppendOnce
<1>7. QED
  BY <1>1, <1>4, <1>5, <1>6 DEF AppendInv, Appending, Published

LEMMA AdvanceStep ==
  ASSUME AppendInv, Shape', NEW s \in Slug, Advance(s)
  PROVE  AppendInv'
<1> DEFINE q == pending[s]
<1>1. /\ UNCHANGED <<versions, receipts, caller>>
      /\ pending \in [Slug -> Pending] /\ handler \in [Slug -> Handler]
      /\ pending' = [pending EXCEPT ![s] = [q EXCEPT !.stage = AfterDecide(q.kind)]]
      /\ handler' = [handler EXCEPT ![s].at = "call"] /\ q.kind # "append"
  BY DEF Advance, GoOn, frontVars, AppendInv, Shape, WorkTyped
<1>2. /\ pending'[s].kind = q.kind /\ pending'[s].op = q.op /\ handler'[s].at = "call"
      /\ \A y \in Slug \ {s} : pending'[y] = pending[y] /\ handler'[y] = handler[y]
  BY <1>1 DEF Pending, Handler
<1>3. ASSUME NEW y \in Slug
      PROVE  AppendingAt(y)'
  BY <1>1, <1>2 DEF AppendInv, Appending, AppendingAt
<1>4. Published' /\ AppendOnce'
  BY <1>1 DEF AppendInv, Published, IsPublished, AppendOnce
<1>5. QED
  BY <1>3, <1>4 DEF AppendInv, Appending

\* The answer to a decision leaves the operation at its decision.
LEMMA IdentityAnswersStep ==
  ASSUME AppendInv, Shape', NEW s \in Slug, IdentityAnswers(s)
  PROVE  AppendInv'
<1> DEFINE m == StageRequest(s)
           h == [handler[s] EXCEPT !.at = StageAnswer(m)]
<1>1. /\ handler \in [Slug -> Handler] /\ pending[s].stage \in Stages
      /\ handler' = [handler EXCEPT ![s] = h]
      /\ UNCHANGED <<versions, pending, receipts, caller>>
  BY DEF IdentityAnswers, frontVars, AppendInv, Shape, WorkTyped, Pending
<1>2. m.type = pending[s].stage
  BY DEF StageRequest
<1>3. h \in Handler /\ h.at = StageAnswer(m)
  BY <1>1, <1>2, StageAnswerIsEvent DEF Handler
<1>4. StageAnswer(m) \in {"granted", "refused"} => m.type = "decide"
  BY <1>1, <1>2 DEF StageAnswer, Stages
<1>5. QED
  <2> HIDE DEF h
  <2> QED BY <1>1, <1>2, <1>3, <1>4, QuietStep

\* The operation with which request p opens: an append is p's own and has no
\* outcome yet, any other kind of operation belongs to another kind of request.
Opens(p, q) ==
    /\ q.op \in {p, None} /\ q.kind # "abandon"
    /\ q.kind = "append" => q.op = p /\ caller[p] # "refused" /\ receipts'[p] = "none"
    /\ q.op = p => (KindOf(p) = "append" <=> q.kind = "append")

\* No outcome is given but p's "ok", no caller is refused, no upload changes.
KeepsOutcomes(p) ==
    /\ \A r \in Op : receipts'[r] = receipts[r] \/ (r = p /\ receipts'[r] = "ok")
    /\ \A r \in Op : caller'[r] = caller[r] \/ caller'[r] = "ok"
    /\ \A y \in Slug : /\ DOMAIN versions'[y] = DOMAIN versions[y]
                       /\ \A v \in DOMAIN versions[y] :
                             versions'[y][v].upload = versions[y][v].upload

LEMMA OutcomesKept ==
  ASSUME AppendInv, NEW p \in Op,
         UNCHANGED receipts \/ receipts' = [receipts EXCEPT ![p] = "ok"],
         UNCHANGED caller \/ caller' = [caller EXCEPT ![p] = "ok"],
         \A y \in Slug : /\ DOMAIN versions'[y] = DOMAIN versions[y]
                         /\ \A v \in DOMAIN versions[y] :
                               versions'[y][v].upload = versions[y][v].upload
  PROVE  KeepsOutcomes(p)
<1>1. ASSUME NEW r \in Op
      PROVE  receipts'[r] = receipts[r] \/ (r = p /\ receipts'[r] = "ok")
  BY DEF AppendInv, Shape, FencesTyped
<1>2. ASSUME NEW r \in Op
      PROVE  caller'[r] = caller[r] \/ caller'[r] = "ok"
  BY DEF AppendInv, Shape, FrontTyped
<1>3. QED
  BY <1>1, <1>2, Zenon DEF KeepsOutcomes

LEMMA BeginStep ==
  ASSUME AppendInv, Shape', NEW p \in Op, NEW q, Begin(TargetOf(p), q),
         Opens(p, q), KeepsOutcomes(p)
  PROVE  AppendInv'
<1> DEFINE s == TargetOf(p)
<1>1. /\ s \in Slug /\ pending'[s] = q /\ handler'[s].at = "call"
      /\ \A y \in Slug \ {s} : pending'[y] = pending[y] /\ handler'[y] = handler[y]
  BY RequestFields DEF Begin, AppendInv, Shape, WorkTyped
<1>2. ASSUME NEW y \in Slug
      PROVE  AppendingAt(y)'
  <2>1. CASE y = s
    <3>1. pending'[y] = q /\ handler'[y].at = "call" /\ None \notin Op
      BY <1>1, <2>1, ConstantsAssumption
    <3>2. q.kind = "append" => receipts'[p] = "none" /\ caller'[p] # "refused"
      BY DEF Opens, KeepsOutcomes
    <3>3. QED
      BY <2>1, <3>1, <3>2 DEF AppendingAt, Opens
  <2>2. CASE y # s
    <3>1. /\ pending'[y] = pending[y] /\ handler'[y] = handler[y]
      BY <1>1, <2>2
    <3>2. pending[y].op \in Op => /\ receipts'[pending[y].op] = receipts[pending[y].op]
                                  /\ caller'[pending[y].op] \in {caller[pending[y].op], "ok"}
      BY <2>2 DEF KeepsOutcomes, AppendInv, Appending, AppendingAt
    <3>3. QED
      BY <3>1, <3>2 DEF AppendInv, Appending, AppendingAt
  <2>3. QED
    BY <2>1, <2>2
<1>3. ASSUME NEW y \in Slug, NEW v \in DOMAIN versions'[y], versions'[y][v].upload \in Op
      PROVE  IsPublished(versions[y][v].upload, y)'
  <2>1. v \in DOMAIN versions[y] /\ versions'[y][v].upload = versions[y][v].upload
    BY DEF KeepsOutcomes
  <2>2. IsPublished(versions[y][v].upload, y)
    BY <1>3, <2>1 DEF AppendInv, Published
  <2>3. QED
    BY <1>3, <2>1, <2>2 DEF IsPublished, KeepsOutcomes
<1>4. AppendOnce'
  BY DEF AppendInv, AppendOnce, KeepsOutcomes
<1>5. Appending' /\ Published'
  BY <1>2, <1>3 DEF Appending, Published
<1>6. QED
  BY <1>4, <1>5 DEF AppendInv

LEMMA DecideFields ==
  ASSUME NEW p, NEW kind, NEW target, NEW cap, NEW latest, NEW charge
  PROVE  /\ Decide(p, kind, target, cap, latest, charge).op = p
         /\ Decide(p, kind, target, cap, latest, charge).kind = kind
BY DEF Decide

\* The steps of Turn that leave the versions alone.
LEMMA StartStep ==
  ASSUME AppendInv, Shape', NEW p \in Op,
         StartAppend(p) \/ StartPin(p) \/ StartRemove(p) \/ StartFail(p) \/ Project(p)
  PROVE  AppendInv'
<1> DEFINE s == TargetOf(p)
<1>1. /\ UNCHANGED versions
      /\ receipts \in [Op -> {"none", "ok", "over-quota", "too-large"}]
      /\ caller \in [Op -> {"idle", "asked", "ok", "refused"}] /\ p # None
  BY RequestFields
     DEF StartAppend, StartPin, StartRemove, StartFail, Project, AppendInv, Shape, FencesTyped,
         FrontTyped
<1>2. CASE StartAppend(p)
  <2>1. PICK charge \in Charges :
          Begin(s, Decide(p, "append", LiveCharge(versions[s]) + charge, UserCap,
                          Len(versions[s]) + 1, charge))
    BY <1>2 DEF StartAppend
  <2>2. /\ KindOf(p) = "append" /\ receipts[p] = "none" /\ caller[p] # "refused"
        /\ UNCHANGED <<receipts, caller>>
    BY <1>2 DEF StartAppend, Turn, Delivered, frontVars
  <2>3. QED
    <3> DEFINE q == Decide(p, "append", LiveCharge(versions[s]) + charge, UserCap,
                           Len(versions[s]) + 1, charge)
    <3>1. q.op = p /\ q.kind = "append"
      BY DecideFields
    <3>2. Begin(s, q)
      BY <2>1
    <3> HIDE DEF q
    <3>3. Opens(p, q)
      BY <1>1, <2>2, <3>1 DEF Opens
    <3>4. KeepsOutcomes(p)
      BY <1>1, <2>2, <3>1, OutcomesKept
    <3>5. QED
      BY <3>2, <3>3, <3>4, BeginStep
<1>3. CASE StartPin(p)
  <2>1. /\ Begin(s, Decide(p, "pin", LiveCharge(versions[s]), 0, Len(versions[s]), 0))
        /\ KindOf(p) = "pin" /\ receipts' = [receipts EXCEPT ![p] = "ok"] /\ UNCHANGED caller
    BY <1>3 DEF StartPin, Turn, frontVars
  <2> DEFINE q == Decide(p, "pin", LiveCharge(versions[s]), 0, Len(versions[s]), 0)
  <2>2. q.op = p /\ q.kind = "pin"
    BY DecideFields
  <2>3. Begin(s, q)
    BY <2>1
  <2> HIDE DEF q
  <2>4. Opens(p, q)
    BY <1>1, <2>1, <2>2 DEF Opens
  <2>5. KeepsOutcomes(p)
    BY <1>1, <2>1, <2>2, OutcomesKept
  <2>6. QED
    BY <2>3, <2>4, <2>5, BeginStep
<1>4. CASE StartRemove(p)
  <2>1. /\ Begin(s, Decide(p, "remove", 0, 0, Len(versions[s]), 0))
        /\ KindOf(p) = "remove" /\ receipts' = [receipts EXCEPT ![p] = "ok"] /\ UNCHANGED caller
    BY <1>4 DEF StartRemove, Turn, frontVars
  <2> DEFINE q == Decide(p, "remove", 0, 0, Len(versions[s]), 0)
  <2>2. q.op = p /\ q.kind = "remove"
    BY DecideFields
  <2>3. Begin(s, q)
    BY <2>1
  <2> HIDE DEF q
  <2>4. Opens(p, q)
    BY <1>1, <2>1, <2>2 DEF Opens
  <2>5. KeepsOutcomes(p)
    BY <1>1, <2>1, <2>2, OutcomesKept
  <2>6. QED
    BY <2>3, <2>4, <2>5, BeginStep
<1>5. CASE StartFail(p)
  <2>1. /\ Begin(s, Decide(p, "fail", 0, 0, Len(versions[s]), 0))
        /\ KindOf(p) = "fail" /\ receipts' = [receipts EXCEPT ![p] = "ok"] /\ UNCHANGED caller
    BY <1>5 DEF StartFail, Turn, frontVars
  <2> DEFINE q == Decide(p, "fail", 0, 0, Len(versions[s]), 0)
  <2>2. q.op = p /\ q.kind = "fail"
    BY DecideFields
  <2>3. Begin(s, q)
    BY <2>1
  <2> HIDE DEF q
  <2>4. Opens(p, q)
    BY <1>1, <2>1, <2>2 DEF Opens
  <2>5. KeepsOutcomes(p)
    BY <1>1, <2>1, <2>2, OutcomesKept
  <2>6. QED
    BY <2>3, <2>4, <2>5, BeginStep
<1>6. CASE Project(p)
  <2> DEFINE q == [NoPending EXCEPT !.kind = "projection", !.stage = "project",
                                    !.gen = GenOf(p), !.version = row[s].version,
                                    !.latest = Len(versions[s])]
  <2>1. Begin(s, q) /\ UNCHANGED receipts /\ caller' = [caller EXCEPT ![p] = "ok"]
    BY <1>6 DEF Project, Tell
  <2>2. q.kind = "projection" /\ q.op = None
    BY DEF NoPending
  <2> HIDE DEF q
  <2>3. Opens(p, q)
    BY <1>1, <2>1, <2>2 DEF Opens
  <2>4. KeepsOutcomes(p)
    BY <1>1, <2>1, <2>2, OutcomesKept
  <2>5. QED
    BY <2>1, <2>3, <2>4, BeginStep
<1>7. QED
  BY <1>2, <1>3, <1>4, <1>5, <1>6

\* A delete keeps every version's upload.
LEMMA StartDeleteStep ==
  ASSUME AppendInv, Shape', NEW p \in Op, StartDelete(p)
  PROVE  AppendInv'
<1> DEFINE s == TargetOf(p)
<1>1. /\ s \in Slug /\ versions \in [Slug -> Seq(Version)] /\ versions[s] \in Seq(Version)
      /\ receipts \in [Op -> {"none", "ok", "over-quota", "too-large"}] /\ p # None
  BY RequestFields DEF AppendInv, Shape, RowsTyped, FencesTyped
<1>2. PICK v \in LiveVersions(versions[s]) : \E inherited :
         /\ versions' = [versions EXCEPT ![s] = Tombstoned(versions[s], v, inherited)]
         /\ Begin(s, Decide(p, "deleteVersion", LiveCharge(Tombstoned(versions[s], v, inherited)),
                            0, Len(versions[s]), 0))
  BY Zenon DEF StartDelete
<1> PICK inherited :
         /\ versions' = [versions EXCEPT ![s] = Tombstoned(versions[s], v, inherited)]
         /\ Begin(s, Decide(p, "deleteVersion", LiveCharge(Tombstoned(versions[s], v, inherited)),
                            0, Len(versions[s]), 0))
  BY <1>2, Zenon
<1>3. /\ DOMAIN Tombstoned(versions[s], v, inherited) = DOMAIN versions[s]
      /\ \A w \in DOMAIN versions[s] :
            Tombstoned(versions[s], v, inherited)[w].upload = versions[s][w].upload
  BY <1>1, TombstonedKeeps
<1>4. \A y \in Slug : /\ DOMAIN versions'[y] = DOMAIN versions[y]
                      /\ \A w \in DOMAIN versions[y] :
                            versions'[y][w].upload = versions[y][w].upload
  BY <1>1, <1>3
<1>5. /\ KindOf(p) = "deleteVersion" /\ receipts' = [receipts EXCEPT ![p] = "ok"]
      /\ UNCHANGED caller
  BY DEF StartDelete, Turn, frontVars
<1> DEFINE q == Decide(p, "deleteVersion", LiveCharge(Tombstoned(versions[s], v, inherited)), 0,
                       Len(versions[s]), 0)
<1>6. q.op = p /\ q.kind = "deleteVersion" /\ Begin(s, q)
  BY DecideFields
<1>7. QED
  <2> HIDE DEF q
  <2>1. Opens(p, q)
    BY <1>1, <1>5, <1>6 DEF Opens
  <2>2. KeepsOutcomes(p)
    BY <1>4, <1>5, OutcomesKept
  <2>3. QED
    BY <1>6, <2>1, <2>2, BeginStep

\* A put that writes a row clears the versions of the incarnation before.
LEMMA WriteRowStep ==
  ASSUME AppendInv, Shape', NEW g \in Generation, WriteRow(g),
         UNCHANGED <<pending, receipts, caller, handler>>
  PROVE  AppendInv'
<1> DEFINE s == SlugOf(g)
           v1 == [upload |-> g, charge |-> Creates[g].size, deleted |-> FALSE]
<1>1. CASE UNCHANGED versions
  BY <1>1, QuietStep
<1>2. CASE versions' = [versions EXCEPT ![s] = <<v1>>]
  <2>1. /\ s \in Slug /\ versions'[s] = <<v1>> /\ v1.upload \notin Op
        /\ \A y \in Slug \ {s} : versions'[y] = versions[y]
    BY <1>2, GenerationFields, ConstantsAssumption DEF AppendInv, Shape, RowsTyped
  <2>2. DOMAIN versions'[s] = {1} /\ versions'[s][1].upload \notin Op
    <3> HIDE DEF v1
    <3> QED BY <2>1
  <2>3. ASSUME NEW y \in Slug, NEW v \in DOMAIN versions'[y], versions'[y][v].upload \in Op
        PROVE  IsPublished(versions[y][v].upload, y)'
    BY <2>1, <2>2, <2>3 DEF AppendInv, Published, IsPublished
  <2>4. AppendOnce'
    BY <2>1, <2>2 DEF AppendInv, AppendOnce
  <2>5. Appending' /\ Published'
    BY <2>3 DEF AppendInv, Appending, AppendingAt, Published
  <2>6. QED
    BY <2>4, <2>5 DEF AppendInv
<1>3. QED
  BY <1>1, <1>2 DEF WriteRow

-----------------------------------------------------------------------------

LEMMA AppendInit == Init => AppendInv
<1> SUFFICES ASSUME Init
             PROVE  AppendInv
  OBVIOUS
<1>1. Shape
  BY ShapeInit
<1>2. Appending
  BY ConstantsAssumption DEF Init, Appending, AppendingAt, NoPending, Idle
<1>3. Published /\ AppendOnce
  BY DEF Init, Published, AppendOnce
<1>4. QED
  BY <1>1, <1>2, <1>3 DEF AppendInv

LEMMA AppendStep == AppendInv /\ [Next]_vars => AppendInv'
<1> SUFFICES ASSUME AppendInv, [Next]_vars
             PROVE  AppendInv'
  OBVIOUS
<1>1. Shape'
  BY ShapeStep DEF AppendInv
<1>2. ASSUME NEW g \in Generation, CreateStep(g)
      PROVE  AppendInv'
  <2>1. CASE Put(g)
    BY <1>1, <2>1, WriteRowStep DEF Put
  <2>2. CASE ~Put(g)
    BY <1>1, <1>2, <2>2, QuietStep
       DEF CreateStep, Reserve, PutLost, Confirm, Release, Forgotten, pasteVars
  <2>3. QED
    BY <2>1, <2>2
<1>3. ASSUME NEW o \in Owner, IdentityStep(o)
      PROVE  AppendInv'
  BY <1>1, <1>3, QuietStep
     DEF IdentityStep, ResolveIntent, AbortCreate, IntentAnswered, ResolverFails, pasteVars,
         frontVars
<1>4. ASSUME NEW s \in Slug, SagaStep(s)
      PROVE  AppendInv'
  <2>1. CASE CallFails(s) \/ PasteStops(s) \/ Alarm(s) \/ Retry(s)
    <3>1. UNCHANGED <<versions, pending, receipts, caller>>
      BY <2>1 DEF CallFails, PasteStops, Alarm, Retry, frontVars
    <3>2. PICK h \in Handler : handler' = [handler EXCEPT ![s] = h] /\ h.at \in {"idle", "call"}
      <4>1. Idle \in Handler /\ Idle.at = "idle"
        BY EmptyRecords DEF Idle
      <4>2. /\ [handler[s] EXCEPT !.at = "call"] \in Handler
            /\ [handler[s] EXCEPT !.at = "call"].at = "call"
        BY DEF AppendInv, Shape, WorkTyped, Handler
      <4>3. QED
        BY <2>1, <4>1, <4>2 DEF CallFails, PasteStops, Alarm, Retry
    <3>3. QED
      BY <1>1, <3>1, <3>2, QuietStep
  <2>2. CASE IdentityAnswers(s)
    BY <1>1, <2>2, IdentityAnswersStep
  <2>3. CASE SettleAbsent(s) \/ Clear(s) \/ FinishDrop(s)
    BY <1>1, <2>3, ClearedStep DEF SettleAbsent, Clear, FinishDrop, frontVars
  <2>4. CASE Refuse(s) \/ Publish(s) \/ AbandonAppend(s) \/ Advance(s)
    BY <1>1, <2>4, RefuseStep, PublishStep, AbandonStep, AdvanceStep
  <2>5. CASE GoesOn(s)
    <3>1. CASE Project(handler[s].then)
      BY <1>1, <2>5, <3>1, StartStep DEF GoesOn, AppendInv, Shape, Named
    <3>2. CASE ~Project(handler[s].then)
      <4>1. /\ handler' = [handler EXCEPT ![s] = Idle]
            /\ UNCHANGED <<versions, pending, receipts, caller>>
        BY <2>5, <3>2 DEF GoesOn, frontVars
      <4>2. Idle \in Handler /\ Idle.at = "idle"
        BY EmptyRecords DEF Idle
      <4>3. QED
        BY <1>1, <4>1, <4>2, QuietStep
    <3>3. QED
      BY <3>1, <3>2
  <2>6. QED
    BY <1>4, <2>1, <2>2, <2>3, <2>4, <2>5 DEF SagaStep
<1>5. ASSUME NEW p \in Op, RequestStep(p)
      PROVE  AppendInv'
  <2>1. CASE \/ Issue(p) \/ Replay(p) \/ Busy(p) \/ Mismatch(p)
             \/ AppendRefused(p) \/ DeleteNothing(p)
    <3>1. PICK answer \in {"asked", "ok", "refused"} :
             /\ Tell(p, answer) /\ UNCHANGED <<versions, pending, receipts, handler>>
             /\ answer = "refused" =>
                   \/ KindOf(p) # "append"
                   \/ receipts[p] \notin {"none", "ok"}
                   \/ receipts[p] = "none" /\ pending[TargetOf(p)].op # p
      <4>1. pending[TargetOf(p)].kind = "none" /\ KindOf(p) = "append" =>
               pending[TargetOf(p)].op # p
        BY RequestFields DEF AppendInv, Appending, AppendingAt
      <4>2. CASE Issue(p)
        BY <4>2 DEF Issue, Tell, pasteVars
      <4>3. CASE Replay(p)
        BY <4>3 DEF Replay, Answered, pasteVars
      <4>4. CASE Busy(p)
        BY <4>4 DEF Busy, Answered, pasteVars
      <4>5. CASE Mismatch(p)
        BY <4>1, <4>5 DEF Mismatch, Answered, pasteVars, Unnamed
      <4>6. CASE AppendRefused(p)
        BY <4>1, <4>6 DEF AppendRefused, Answered, pasteVars, Turn
      <4>7. CASE DeleteNothing(p)
        BY <4>7 DEF DeleteNothing, Answered, pasteVars, Turn
      <4>8. QED
        BY <2>1, <4>2, <4>3, <4>4, <4>5, <4>6, <4>7
    <3>2. QED
      BY <1>1, <3>1, AnswerStep
  <2>2. CASE Resume(p)
    <3>1. PICK h \in Handler : /\ handler' = [handler EXCEPT ![TargetOf(p)] = h]
                               /\ h.at = "call"
      <4>1. /\ [handler[TargetOf(p)] EXCEPT !.at = "call"] \in Handler
            /\ [handler[TargetOf(p)] EXCEPT !.at = "call"].at = "call"
        BY RequestFields DEF AppendInv, Shape, WorkTyped, Handler
      <4>2. [at |-> "call", then |-> p] \in Handler
        BY DEF Handler
      <4>3. QED
        BY <2>2, <4>1, <4>2 DEF Resume
    <3>2. UNCHANGED <<versions, pending, receipts, caller>>
      BY <2>2 DEF Resume, frontVars
    <3>3. QED
      BY <1>1, <3>1, <3>2, RequestFields, QuietStep
  <2>3. CASE StartAppend(p) \/ StartPin(p) \/ StartRemove(p) \/ StartFail(p) \/ StartProjection(p)
    BY <1>1, <2>3, StartStep DEF StartProjection
  <2>4. CASE StartDelete(p)
    BY <1>1, <2>4, StartDeleteStep
  <2>5. QED
    BY <1>5, <2>1, <2>2, <2>3, <2>4 DEF RequestStep
<1>6. ASSUME NEW m \in late, LateArrives(m)
      PROVE  AppendInv'
  <2>1. m.gen \in Generation
    BY DEF AppendInv, Shape, NetTyped, Message
  <2>2. CASE /\ WriteRow(m.gen)
             /\ UNCHANGED <<identityVars, pending, alarm, tombstone, receipts, aborted, handler>>
    BY <1>1, <1>6, <2>1, <2>2, WriteRowStep DEF LateArrives, frontVars
  <2>3. CASE UNCHANGED <<row, versions, pending, alarm, tombstone, receipts, handler>>
    BY <1>1, <1>6, <2>3, QuietStep DEF LateArrives, frontVars
  <2>4. QED
    BY <1>6, <2>2, <2>3 DEF LateArrives, pasteVars
<1>7. CASE UNCHANGED vars
  BY <1>1, <1>7, QuietStep DEF vars, pasteVars, frontVars
<1>8. QED
  BY <1>2, <1>3, <1>4, <1>5, <1>6, <1>7 DEF Next

\* Every reachable state publishes each append at most once, with the pending
\* operation and the receipts that keep a repeated one out (paste.js append,
\* mutationReceipt, publishAppend).
THEOREM AppendInvariant == Spec => []AppendInv
BY AppendInit, AppendStep, PTL DEF Spec

\* However often its caller repeats it, whatever is lost and whoever stops, an
\* append publishes at most one version (publishAppend and its receipt).
THEOREM AlwaysAppendOnce == Spec => []AppendOnce
<1>1. AppendInv => AppendOnce
  BY DEF AppendInv
<1>2. QED
  BY <1>1, AppendInvariant, PTL

\* A caller that was refused may delete the bytes it uploaded: no version ever
\* refers to them (appendArtifact, and the service that discards the upload).
THEOREM AlwaysRefusalFinal == Spec => []RefusalFinal
<1>1. AppendInv => RefusalFinal
  BY DEF AppendInv, Published, IsPublished, RefusalFinal
<1>2. QED
  BY <1>1, AppendInvariant, PTL

\* An append is published once or refused for good.
THEOREM AlwaysAppendsFinal == Spec => []AppendsFinal
<1>1. AppendOnce /\ RefusalFinal => AppendsFinal
  BY DEF AppendsFinal
<1>2. QED
  BY <1>1, AlwaysAppendOnce, AlwaysRefusalFinal, PTL

-----------------------------------------------------------------------------
(***************************************************************************)
(* Ledgers.  A slug's entry names one incarnation: whatever is written     *)
(* there, of the incarnation it names or of one it takes the place of, is  *)
(* written together with that incarnation's record.                        *)
(***************************************************************************)

\* An entry is written together with the record of the incarnation it names.
LEMMA LedgerStep ==
  ASSUME LedgerTyped, ChargeIsAllocation, NEW g \in Generation, NEW e \in Entry,
         Enter(g, e), e.gen \in {g, None},
         \A h \in Generation \ {g} : account'[h] = account[h],
         e.gen = g => e.charged = account'[g].allocated
  PROVE  ChargeIsAllocation'
<1>1. ASSUME NEW h \in Generation, Listed(h)'
      PROVE  EntryOf(h)'.charged = account'[h].allocated
  <2>1. /\ OwnerOf(h) \in Owner /\ SlugOf(h) \in Slug /\ h # None
        /\ OwnerOf(g) \in Owner /\ SlugOf(g) \in Slug
    BY GenerationFields
  <2>2. CASE OwnerOf(h) = OwnerOf(g) /\ SlugOf(h) = SlugOf(g)
    <3>1. entries'[OwnerOf(h)][SlugOf(h)] = e
      BY <2>1, <2>2 DEF Enter, LedgerTyped
    <3>2. h = g /\ e.gen = g
      BY <1>1, <2>1, <3>1 DEF Listed, EntryOf
    <3>3. QED
      BY <3>1, <3>2 DEF EntryOf
  <2>3. CASE ~(OwnerOf(h) = OwnerOf(g) /\ SlugOf(h) = SlugOf(g))
    <3>1. entries'[OwnerOf(h)][SlugOf(h)] = entries[OwnerOf(h)][SlugOf(h)] /\ h # g
      BY <2>1, <2>3 DEF Enter, LedgerTyped
    <3>2. Listed(h) /\ account'[h] = account[h]
      BY <1>1, <3>1 DEF Listed, EntryOf
    <3>3. QED
      BY <3>1, <3>2 DEF EntryOf, ChargeIsAllocation
  <2>4. QED
    BY <2>2, <2>3
<1>2. QED
  BY <1>1 DEF ChargeIsAllocation

LEMMA LedgerUnchanged ==
  ASSUME ChargeIsAllocation, UNCHANGED <<entries, account>>
  PROVE  ChargeIsAllocation'
BY DEF ChargeIsAllocation, Listed, EntryOf

LEMMA ReserveLedger ==
  ASSUME LedgerTyped, ChargeIsAllocation, NEW g \in Generation, Reserve(g)
  PROVE  ChargeIsAllocation'
<1>1. CASE UNCHANGED <<entries, account>>
  BY <1>1, LedgerUnchanged
<1>2. CASE ~UNCHANGED <<entries, account>>
  <2> DEFINE size == Creates[g].size
             e == [gen |-> g, charged |-> size,
                   listing |-> [status |-> Creates[g].status, served |-> 1,
                                latest |-> 1, pinned |-> 0, name |-> 0]]
  <2>1. /\ Enter(g, e)
        /\ account' = [account EXCEPT ![g] = [version |-> 0, allocated |-> size, target |-> size]]
    BY <1>2 DEF Reserve
  <2>2. e \in Entry /\ e.gen = g /\ e.charged = size
    BY GenerationFields, ConstantsAssumption DEF Entry, Listing, Status, Names
  <2>3. /\ account'[g].allocated = size
        /\ \A h \in Generation \ {g} : account'[h] = account[h]
    BY <2>1 DEF LedgerTyped
  <2> HIDE DEF e, size
  <2>4. QED
    BY <2>1, <2>2, <2>3, LedgerStep
<1>3. QED
  BY <1>1, <1>2

LEMMA ReleaseLedger ==
  ASSUME LedgerTyped, ChargeIsAllocation, NEW g \in Generation, ReleaseEntry(g)
  PROVE  ChargeIsAllocation'
<1>1. CASE UNCHANGED <<entries, account>>
  BY <1>1, LedgerUnchanged
<1>2. CASE ~UNCHANGED <<entries, account>>
  <2>1. Enter(g, NoEntry) /\ \A h \in Generation \ {g} : account'[h] = account[h]
    BY <1>2 DEF ReleaseEntry, LedgerTyped
  <2>2. NoEntry \in Entry /\ NoEntry.gen = None /\ g # None
    BY EmptyRecords, GenerationFields DEF NoEntry
  <2>3. QED
    BY <2>1, <2>2, LedgerStep
<1>3. QED
  BY <1>1, <1>2

\* A confirm changes the listing of the entry alone.
LEMMA ConfirmLedger ==
  ASSUME LedgerTyped, ChargeIsAllocation, NEW g \in Generation, NEW status \in Status,
         ConfirmEntry(g, status), UNCHANGED account
  PROVE  ChargeIsAllocation'
<1>1. CASE ~Listed(g)
  BY <1>1, LedgerUnchanged DEF ConfirmEntry
<1>2. CASE Listed(g)
  <2> DEFINE e == [EntryOf(g) EXCEPT !.listing.status = IF @ = "pending" THEN status ELSE @]
  <2>1. EntryOf(g) \in Entry /\ EntryOf(g).gen = g
    BY <1>2, EntryTyped DEF Listed
  <2>2. e \in Entry /\ e.gen = g /\ e.charged = EntryOf(g).charged
    BY <2>1 DEF Entry, Listing
  <2>3. Enter(g, e)
    BY <1>2 DEF ConfirmEntry
  <2>4. EntryOf(g).charged = account'[g].allocated
    BY <1>2 DEF ChargeIsAllocation
  <2> HIDE DEF e
  <2>5. QED
    BY <2>2, <2>3, <2>4, LedgerStep
<1>3. QED
  BY <1>1, <1>2

\* A decision that grants moves the charge and the allocation together, and a
\* refused one moves neither.
LEMMA StageLedger ==
  ASSUME LedgerTyped, ChargeIsAllocation, NEW m \in Message, StageEffect(m)
  PROVE  ChargeIsAllocation'
<1> DEFINE g == m.gen
<1>1. /\ g \in Generation /\ g # None /\ EntryOf(g) \in Entry /\ account[g] \in FenceRecord
      /\ m.target \in Nat /\ m.listing \in Listing
  BY EntryTyped, GenerationFields DEF Message
<1>2. CASE UNCHANGED <<entries, account>>
  BY <1>2, LedgerUnchanged
<1>3. CASE ArtifactDecide(m) /\ ~UNCHANGED <<entries, account>>
  <2> DEFINE e == [EntryOf(g) EXCEPT !.charged =
                     IF DecideAnswer(m) = "granted" THEN m.target ELSE @]
  <2>1. /\ Listed(g) /\ Decides(account[g], m.version) /\ Enter(g, e)
        /\ account' = [account EXCEPT ![g] = Decision(m)]
    BY <1>3 DEF ArtifactDecide
  <2>2. /\ account'[g] = Decision(m)
        /\ \A h \in Generation \ {g} : account'[h] = account[h]
    BY <1>1, <2>1 DEF LedgerTyped
  <2>3. e \in Entry /\ e.gen = g
    BY <1>1, <2>1 DEF Entry, Listed
  <2>4. e.charged = IF DecideAnswer(m) = "granted" THEN m.target ELSE EntryOf(g).charged
    BY <1>1 DEF Entry
  <2>5. EntryOf(g).charged = account[g].allocated
    BY <1>1, <2>1 DEF ChargeIsAllocation
  <2>6. EntryOf(g).gen # None
    BY <1>1, <2>1 DEF Listed
  <2>7. DecideAnswer(m) = IF Grants(account[g], OwnerTotal(OwnerOf(g)), m.target, m.cap)
                          THEN "granted" ELSE "refused"
    <3>1. /\ DecideAnswer(m) = FenceAnswer(account[g], OwnerTotal(OwnerOf(g)), m.version,
                                           m.target, m.cap)
          /\ m.version # account[g].version
      BY <1>1, <2>1, <2>6 DEF DecideAnswer, Decides, FenceRecord
    <3>2. QED
      BY <2>1, <3>1 DEF FenceAnswer
  <2>8. Decision(m).allocated =
           IF Grants(account[g], OwnerTotal(OwnerOf(g)), m.target, m.cap)
           THEN m.target ELSE account[g].allocated
    BY DEF Decision, Decided
  <2>9. e.charged = account'[g].allocated
    BY <2>2, <2>4, <2>5, <2>7, <2>8
  <2> HIDE DEF e
  <2>10. QED
    BY <1>1, <2>1, <2>2, <2>3, <2>9, LedgerStep
<1>4. CASE ArtifactProject(m) /\ ~UNCHANGED <<entries, account>>
  <2> DEFINE e == [EntryOf(g) EXCEPT !.listing = m.listing]
  <2>1. Listed(g) /\ Enter(g, e) /\ UNCHANGED account
    BY <1>4 DEF ArtifactProject, MayProject
  <2>2. e \in Entry /\ e.gen = g /\ e.charged = EntryOf(g).charged
    BY <1>1, <2>1 DEF Entry, Listed
  <2>3. EntryOf(g).charged = account'[g].allocated
    BY <1>1, <2>1 DEF ChargeIsAllocation
  <2> HIDE DEF e
  <2>4. QED
    BY <1>1, <2>1, <2>2, <2>3, LedgerStep
<1>5. CASE ArtifactDrop(m) /\ ~UNCHANGED <<entries, account>>
  <2>1. Enter(g, NoEntry) /\ UNCHANGED account
    BY <1>5 DEF ArtifactDrop
  <2>2. NoEntry \in Entry /\ NoEntry.gen = None
    BY EmptyRecords DEF NoEntry
  <2>3. QED
    BY <1>1, <2>1, <2>2, LedgerStep
<1>6. QED
  BY <1>2, <1>3, <1>4, <1>5 DEF StageEffect

-----------------------------------------------------------------------------

LedgerInv == Shape /\ ChargeIsAllocation

LEMMA LedgerInit == Init => LedgerInv
BY ShapeInit, GenerationFields
   DEF Init, LedgerInv, ChargeIsAllocation, Listed, EntryOf, NoEntry

LEMMA LedgerNext == LedgerInv /\ [Next]_vars => LedgerInv'
<1> SUFFICES ASSUME LedgerInv, [Next]_vars
             PROVE  LedgerInv'
  OBVIOUS
<1>1. Shape' /\ Shape /\ LedgerTyped /\ ChargeIsAllocation
  BY ShapeStep DEF LedgerInv, Shape
<1>2. ASSUME NEW g \in Generation, CreateStep(g)
      PROVE  ChargeIsAllocation'
  <2>1. CASE Reserve(g)
    BY <1>1, <2>1, ReserveLedger
  <2>2. CASE Confirm(g)
    <3>1. Creates[g].status \in Status
      BY GenerationFields DEF Status
    <3>2. QED
      BY <1>1, <2>2, <3>1, ConfirmLedger DEF Confirm
  <2>3. CASE Release(g)
    BY <1>1, <2>3, ReleaseLedger DEF Release
  <2>4. QED
    BY <1>1, <1>2, <2>1, <2>2, <2>3, LedgerUnchanged
       DEF CreateStep, Put, PutLost, Forgotten, identityVars
<1>3. ASSUME NEW o \in Owner, IdentityStep(o)
      PROVE  ChargeIsAllocation'
  <2>1. CASE IntentAnswered(o)
    <3>1. resolver[o] \in Answer
      BY <1>1 DEF Shape, IntentsTyped
    <3>2. /\ resolver[o].gen \in Generation
          /\ resolver[o].found \in Status \union {"absent"}
      BY <2>1, <3>1 DEF IntentAnswered, Answer
    <3>3. QED
      BY <1>1, <2>1, <3>2, ReleaseLedger, ConfirmLedger DEF IntentAnswered
  <2>2. QED
    BY <1>1, <1>3, <2>1, LedgerUnchanged
       DEF IdentityStep, ResolveIntent, AbortCreate, ResolverFails
<1>4. ASSUME NEW s \in Slug, SagaStep(s)
      PROVE  ChargeIsAllocation'
  <2>1. CASE IdentityAnswers(s)
    <3>1. pending[s].kind # "none"
      BY <1>1, <2>1 DEF IdentityAnswers, Shape, Named
    <3>2. StageRequest(s) \in Message
      BY <1>1, <3>1, StageRequestTyped
    <3>3. QED
      BY <1>1, <2>1, <3>2, StageLedger DEF IdentityAnswers
  <2>2. CASE ~IdentityAnswers(s)
    <3>1. UNCHANGED <<entries, account>>
      BY <1>4, <2>2
         DEF SagaStep, CallFails, PasteStops, Alarm, GoesOn, Project, Retry, SettleAbsent,
             Refuse, Publish, AbandonAppend, Advance, Clear, FinishDrop, identityVars
    <3>2. QED
      BY <1>1, <3>1, LedgerUnchanged
  <2>3. QED
    BY <2>1, <2>2
<1>5. ASSUME NEW p \in Op, RequestStep(p)
      PROVE  ChargeIsAllocation'
  <2>1. UNCHANGED <<entries, account>>
    BY <1>5
       DEF RequestStep, Issue, Replay, Busy, Resume, Mismatch, StartAppend,
           AppendRefused, StartDelete, DeleteNothing, StartPin, StartRemove, StartFail,
           StartProjection, Project, Answered, identityVars
  <2>2. QED
    BY <1>1, <2>1, LedgerUnchanged
<1>6. ASSUME NEW m \in late, LateArrives(m)
      PROVE  ChargeIsAllocation'
  <2>1. m \in Message
    BY <1>1 DEF Shape, NetTyped
  <2>2. CASE StageEffect(m)
    BY <1>1, <2>1, <2>2, StageLedger
  <2>3. CASE ~StageEffect(m)
    BY <1>1, <1>6, <2>3, LedgerUnchanged DEF LateArrives, identityVars
  <2>4. QED
    BY <2>2, <2>3
<1>7. ASSUME UNCHANGED vars
      PROVE  ChargeIsAllocation'
  BY <1>1, <1>7, LedgerUnchanged DEF vars, identityVars
<1>8. ChargeIsAllocation'
  BY <1>2, <1>3, <1>4, <1>5, <1>6, <1>7 DEF Next
<1>9. QED
  BY <1>1, <1>8 DEF LedgerInv

\* The charge an owner's list shows and the allocation the last decision left
\* are one number, over releases, drops and later incarnations (artifactDecide,
\* release, artifactDrop).
THEOREM AlwaysChargeIsAllocation == Spec => []ChargeIsAllocation
<1>1. LedgerInv => ChargeIsAllocation
  BY DEF LedgerInv
<1>2. QED
  BY <1>1, LedgerInit, LedgerNext, PTL DEF Spec

-----------------------------------------------------------------------------
(* The fence against a late put.                                           *)

FenceInv == Shape /\ AbortFences

\* Rows are written only by a put of a generation that is not fenced; every
\* other step keeps a row's generation or removes the row.
LEMMA FenceStep ==
  ASSUME FenceInv, NEW s \in Slug, NEW r, row' = [row EXCEPT ![s] = r],
         r.gen \in {row[s].gen, None}, UNCHANGED aborted
  PROVE  AbortFences'
BY GenerationFields DEF FenceInv, Shape, RowsTyped, FencesTyped, AbortFences, Present

LEMMA PutFence ==
  ASSUME FenceInv, NEW g \in Generation, WriteRow(g), UNCHANGED aborted
  PROVE  AbortFences'
<1>1. CASE ~MayPut(g)
  BY <1>1 DEF WriteRow, FenceInv, AbortFences, Present
<1>2. CASE MayPut(g)
  <2>1. /\ \A x \in Slug \ {SlugOf(g)} : row'[x] = row[x]
        /\ row'[SlugOf(g)].gen = g /\ g \notin aborted
    BY <1>2, GenerationFields DEF WriteRow, MayPut, FenceInv, Shape, RowsTyped
  <2>2. QED
    BY <2>1, GenerationFields
       DEF FenceInv, Shape, FencesTyped, AbortFences, Present
<1>3. QED
  BY <1>1, <1>2

LEMMA AbortFence ==
  ASSUME FenceInv, NEW g \in Generation, aborted' = Fencing(g), UNCHANGED row
  PROVE  AbortFences'
BY DEF Fencing, FenceInv, AbortFences, Present

LEMMA FenceUnchanged ==
  ASSUME FenceInv, UNCHANGED <<row, aborted>>
  PROVE  AbortFences'
BY DEF FenceInv, AbortFences, Present

\* Rolling a row onto a version, or renaming it, keeps its generation.
LEMMA RolledGeneration ==
  ASSUME NEW r \in Row, NEW pinned, NEW vs
  PROVE  RollServed(r, pinned, vs).gen = r.gen
BY DEF RollServed, Row

LEMMA ProjectFence ==
  ASSUME FenceInv, NEW p \in Op, Project(p)
  PROVE  AbortFences'
<1> DEFINE s == TargetOf(p)
<1>1. s \in Slug /\ row[s] \in Row /\ UNCHANGED aborted
  BY RequestFields DEF Project, FenceInv, Shape, RowsTyped
<1>2. \/ row' = [row EXCEPT ![s] = [row[s] EXCEPT !.status = "ready"]]
      \/ \E n \in Names : row' = [row EXCEPT ![s] = [row[s] EXCEPT !.name = n]]
  BY DEF Project
<1>3. /\ [row[s] EXCEPT !.status = "ready"].gen = row[s].gen
      /\ \A n \in Names : [row[s] EXCEPT !.name = n].gen = row[s].gen
  BY <1>1 DEF Row
<1>4. QED
  BY <1>1, <1>2, <1>3, FenceStep

LEMMA FenceNext == FenceInv /\ [Next]_vars => FenceInv'
<1> SUFFICES ASSUME FenceInv, [Next]_vars
             PROVE  FenceInv'
  OBVIOUS
<1>1. Shape' /\ Shape
  BY ShapeStep DEF FenceInv
<1>2. ASSUME NEW g \in Generation, CreateStep(g)
      PROVE  AbortFences'
  <2>1. CASE Put(g)
    BY <2>1, PutFence DEF Put
  <2>2. CASE ~Put(g)
    BY <1>2, <2>2, FenceUnchanged
       DEF CreateStep, Reserve, PutLost, Confirm, Release, Forgotten, pasteVars
  <2>3. QED
    BY <2>1, <2>2
<1>3. ASSUME NEW o \in Owner, IdentityStep(o)
      PROVE  AbortFences'
  <2>1. CASE AbortCreate(o)
    <3>1. resolver[o].gen \in Generation
      BY <1>1, <2>1 DEF AbortCreate, Shape, IntentsTyped, Answer
    <3>2. QED
      BY <2>1, <3>1, AbortFence DEF AbortCreate
  <2>2. CASE ~AbortCreate(o)
    BY <1>3, <2>2, FenceUnchanged
       DEF IdentityStep, ResolveIntent, IntentAnswered, ResolverFails, pasteVars
  <2>3. QED
    BY <2>1, <2>2
<1>4. ASSUME NEW s \in Slug, SagaStep(s)
      PROVE  AbortFences'
  <2>1. CASE GoesOn(s) /\ Project(handler[s].then)
    <3>1. handler[s].then \in Op
      BY <1>1, <2>1 DEF GoesOn, Shape, Named
    <3>2. QED
      BY <2>1, <3>1, ProjectFence
  <2>2. CASE Refuse(s) \/ Advance(s) \/ SettleAbsent(s)
    <3>1. UNCHANGED aborted /\ pending[s].version \in Nat
      BY <1>1, <2>2 DEF Refuse, Advance, SettleAbsent, Shape, WorkTyped, Pending
    <3>2. Fenced(s, pending[s].version).gen = row[s].gen
      BY <1>1, <3>1, FencedSound DEF Shape
    <3>3. \/ row' = [row EXCEPT ![s] = Fenced(s, pending[s].version)]
          \/ UNCHANGED row
      BY <2>2 DEF Refuse, Advance, SettleAbsent
    <3>4. QED
      BY <3>1, <3>2, <3>3, FenceStep, FenceUnchanged
  <2>3. CASE Publish(s)
    <3> DEFINE vs == Append(versions[s], [upload |-> pending[s].op, charge |-> pending[s].charge,
                                          deleted |-> FALSE])
               r  == RollServed(Fenced(s, pending[s].version), row[s].pinned, vs)
    <3>1. row' = [row EXCEPT ![s] = r] /\ UNCHANGED aborted
      BY <2>3 DEF Publish
    <3>2. /\ Fenced(s, pending[s].version) \in Row
          /\ Fenced(s, pending[s].version).gen = row[s].gen
      BY <1>1, <2>3, FencedSound DEF Shape, WorkTyped, Pending
    <3>3. r.gen = row[s].gen
      BY <3>2, RolledGeneration
    <3> HIDE DEF r
    <3>4. QED
      BY <3>1, <3>3, FenceStep
  <2>4. QED
    BY <1>4, <2>1, <2>2, <2>3, FenceUnchanged
       DEF SagaStep, IdentityAnswers, CallFails, PasteStops, Alarm, GoesOn, Retry,
           AbandonAppend, Clear, FinishDrop
<1>5. ASSUME NEW p \in Op, RequestStep(p)
      PROVE  AbortFences'
  <2> DEFINE s == TargetOf(p)
  <2>1. s \in Slug /\ row[s] \in Row
    BY <1>1, RequestFields DEF Shape, RowsTyped
  <2>2. CASE StartDelete(p)
    <3>1. /\ \E vs : row' = [row EXCEPT ![s] = RollServed(row[s], row[s].pinned, vs)]
          /\ UNCHANGED aborted
      BY <2>2, Zenon DEF StartDelete
    <3>2. QED
      BY <2>1, <3>1, RolledGeneration, FenceStep
  <2>3. CASE StartPin(p)
    <3>1. /\ \E v : row' = [row EXCEPT ![s] = RollServed(row[s], v, versions[s])]
          /\ UNCHANGED aborted
      BY <2>3 DEF StartPin
    <3>2. QED
      BY <2>1, <3>1, RolledGeneration, FenceStep
  <2>4. CASE StartRemove(p)
    <3>1. row' = [row EXCEPT ![s] = NoRow] /\ UNCHANGED aborted /\ NoRow.gen = None
      BY <2>4 DEF StartRemove, NoRow
    <3>2. QED
      BY <2>1, <3>1, FenceStep
  <2>5. CASE StartFail(p)
    <3> DEFINE r == [row[s] EXCEPT !.status = "failed"]
    <3>1. row' = [row EXCEPT ![s] = r] /\ UNCHANGED aborted /\ r.gen = row[s].gen
      BY <2>1, <2>5 DEF StartFail, Row
    <3> HIDE DEF r
    <3>2. QED
      BY <2>1, <3>1, FenceStep
  <2>6. CASE StartProjection(p)
    BY <2>6, ProjectFence DEF StartProjection
  <2>7. QED
    BY <1>5, <2>2, <2>3, <2>4, <2>5, <2>6, FenceUnchanged
       DEF RequestStep, Issue, Replay, Busy, Resume, Mismatch, StartAppend,
           AppendRefused, DeleteNothing, Answered, pasteVars
<1>6. ASSUME NEW m \in late, LateArrives(m)
      PROVE  AbortFences'
  <2>1. m.gen \in Generation
    BY <1>1 DEF Shape, NetTyped, Message
  <2>2. \/ UNCHANGED <<row, aborted>>
        \/ WriteRow(m.gen) /\ UNCHANGED aborted
        \/ aborted' = Fencing(m.gen) /\ UNCHANGED row
    BY <1>6 DEF LateArrives, pasteVars
  <2>3. QED
    BY <2>1, <2>2, PutFence, AbortFence, FenceUnchanged
<1>7. ASSUME UNCHANGED vars
      PROVE  AbortFences'
  BY <1>7, FenceUnchanged DEF vars, pasteVars
<1>8. AbortFences'
  BY <1>2, <1>3, <1>4, <1>5, <1>6, <1>7 DEF Next
<1>9. QED
  BY <1>1, <1>8 DEF FenceInv

\* Once recovery has found a create's row absent and fenced it, no put of that
\* create writes the row, however late it arrives (put, abortCreate).
THEOREM AlwaysAbortFences == Spec => []AbortFences
<1>1. Init => FenceInv
  BY ShapeInit DEF Init, FenceInv, AbortFences
<1>2. FenceInv => AbortFences
  BY DEF FenceInv
<1>3. QED
  BY <1>1, <1>2, FenceNext, PTL DEF Spec
-----------------------------------------------------------------------------
(* What resumes an operation.                                              *)

\* A pending operation has the alarm that resumes it, set or at work (the runtime
\* runs again one that did not end), and nothing else has one.
PendingArmed == alarm = {s \in Slug : pending[s].kind # "none"}

\* One slug's operation begins, goes on or ends, with its alarm.
LEMMA ArmsOne ==
  ASSUME Shape, PendingArmed, NEW s \in Slug, NEW q, pending' = [pending EXCEPT ![s] = q],
         \/ q.kind # "none" /\ alarm' = alarm \union {s}
         \/ q.kind # "none" /\ pending[s].kind # "none" /\ alarm' = alarm
         \/ q.kind = "none" /\ alarm' = alarm \ {s}
  PROVE  PendingArmed'
<1>1. pending \in [Slug -> Pending]
  BY DEF Shape, WorkTyped
<1>2. pending'[s] = q /\ \A t \in Slug \ {s} : pending'[t] = pending[t]
  BY <1>1
<1>3. QED
  BY <1>2 DEF PendingArmed

\* What starts on a slug is stored with its alarm.
LEMMA BeginArms ==
  ASSUME Shape, PendingArmed, NEW s \in Slug, NEW q, q.kind # "none", Begin(s, q)
  PROVE  PendingArmed'
<1>1. pending' = [pending EXCEPT ![s] = q] /\ alarm' = alarm \union {s}
  BY DEF Begin
<1>2. QED
  BY <1>1, ArmsOne

LEMMA ProjectArms ==
  ASSUME Shape, PendingArmed, NEW p \in Op, Project(p)
  PROVE  PendingArmed'
<1> DEFINE s == TargetOf(p)
           q == [NoPending EXCEPT !.kind = "projection", !.stage = "project", !.gen = GenOf(p),
                                  !.version = row[s].version, !.latest = Len(versions[s])]
<1>1. s \in Slug
  BY RequestFields
<1>2. q.kind = "projection"
  BY DEF NoPending
<1>3. Begin(s, q)
  BY DEF Project
<1> HIDE DEF s, q
<1>4. QED
  BY <1>1, <1>2, <1>3, BeginArms

LEMMA SagaArms ==
  ASSUME Shape, PendingArmed, NEW s \in Slug, SagaStep(s)
  PROVE  PendingArmed'
<1>1. /\ pending \in [Slug -> Pending] /\ NoPending.kind = "none"
      /\ handler[s].at \notin {"idle", "next"} => pending[s].kind # "none"
  BY DEF Shape, WorkTyped, Named, NoPending
<1>2. CASE IdentityAnswers(s) \/ CallFails(s) \/ PasteStops(s) \/ Alarm(s)
  BY <1>2 DEF IdentityAnswers, CallFails, PasteStops, Alarm, PendingArmed
<1>3. CASE Retry(s)
  <2>1. UNCHANGED pending /\ alarm' = alarm \union {s} /\ pending[s].kind # "none"
    BY <1>1, <1>3 DEF Retry
  <2>2. QED
    BY <2>1 DEF PendingArmed
<1>4. CASE SettleAbsent(s) \/ Refuse(s) \/ Clear(s) \/ FinishDrop(s)
  <2>1. Cleared(s)
    BY <1>4 DEF SettleAbsent, Refuse, Clear, FinishDrop
  <2>2. QED
    BY <1>1, <2>1, ArmsOne DEF Cleared
<1>5. CASE Publish(s) \/ Advance(s)
  <2>1. PICK stage : GoOn(s, [pending[s] EXCEPT !.stage = stage]) /\ alarm' = alarm
    BY <1>5 DEF Publish, Advance
  <2> DEFINE q == [pending[s] EXCEPT !.stage = stage]
  <2>2. q.kind = pending[s].kind /\ pending[s].kind # "none"
    BY <1>1, <1>5 DEF Pending, Publish, Advance
  <2>3. pending' = [pending EXCEPT ![s] = q]
    BY <2>1 DEF GoOn
  <2> HIDE DEF q
  <2>4. QED
    BY <2>1, <2>2, <2>3, ArmsOne
<1>6. CASE AbandonAppend(s)
  <2> DEFINE q == [pending[s] EXCEPT !.kind = "abandon", !.version = @ + 1,
                     !.target = @ - pending[s].charge, !.latest = Len(versions[s]), !.charge = 0]
  <2>1. q.kind = "abandon"
    BY <1>1 DEF Pending
  <2>2. pending' = [pending EXCEPT ![s] = q] /\ alarm' = alarm \union {s}
    BY <1>6 DEF AbandonAppend, GoOn
  <2> HIDE DEF q
  <2>3. QED
    BY <2>1, <2>2, ArmsOne
<1>7. CASE GoesOn(s)
  <2>1. CASE Project(handler[s].then) /\ handler[s].then \in Op
    BY <2>1, ProjectArms
  <2>2. CASE UNCHANGED <<pending, alarm>>
    BY <2>2 DEF PendingArmed
  <2>3. QED
    BY <1>7, <2>1, <2>2 DEF GoesOn, Shape, Named
<1>8. QED
  BY <1>2, <1>3, <1>4, <1>5, <1>6, <1>7 DEF SagaStep

LEMMA RequestArms ==
  ASSUME Shape, PendingArmed, NEW p \in Op, RequestStep(p)
  PROVE  PendingArmed'
<1> DEFINE s == TargetOf(p)
<1>1. s \in Slug
  BY RequestFields
<1>2. CASE Issue(p) \/ Replay(p) \/ Busy(p) \/ Resume(p) \/ Mismatch(p) \/ AppendRefused(p) \/ DeleteNothing(p)
  BY <1>2 DEF Issue, Replay, Busy, Resume, Mismatch, AppendRefused, DeleteNothing, Answered, pasteVars,
              PendingArmed
<1>3. CASE StartProjection(p)
  BY <1>3, ProjectArms DEF StartProjection
<1>4. CASE StartAppend(p) \/ StartDelete(p) \/ StartPin(p) \/ StartRemove(p) \/ StartFail(p)
  <2>1. \E kind \in OpKinds : \E target, cap, latest, charge :
           Begin(s, Decide(p, kind, target, cap, latest, charge))
    <3>1. CASE StartAppend(p)
      BY <3>1 DEF StartAppend, OpKinds
    <3>2. CASE StartDelete(p)
      BY <3>2 DEF StartDelete, OpKinds
    <3>3. CASE StartPin(p)
      BY <3>3 DEF StartPin, OpKinds
    <3>4. CASE StartRemove(p)
      BY <3>4 DEF StartRemove, OpKinds
    <3>5. CASE StartFail(p)
      BY <3>5 DEF StartFail, OpKinds
    <3>6. QED
      BY <1>4, <3>1, <3>2, <3>3, <3>4, <3>5
  <2>2. ASSUME NEW kind \in OpKinds, NEW target, NEW cap, NEW latest, NEW charge
        PROVE  Decide(p, kind, target, cap, latest, charge).kind # "none"
    BY DEF Decide, OpKinds
  <2> HIDE DEF s
  <2>3. QED
    BY <1>1, <2>1, <2>2, BeginArms
<1>5. QED
  BY <1>2, <1>3, <1>4 DEF RequestStep

\* No operation is ever left pending without the alarm that resumes it, nor an
\* alarm without an operation: whichever commit is the last before the cell
\* stops, it holds both (paste.js append, remove, queueProjection,
\* abandonAppend, clearArtifactPending).  It is what OperationEnds needs besides fairness.
THEOREM AlwaysPendingArmed == Spec => []PendingArmed
<1>1. Init => PendingArmed
  BY DEF Init, PendingArmed, NoPending
<1>2. Shape /\ PendingArmed /\ [Next]_vars => PendingArmed'
  <2> SUFFICES ASSUME Shape, PendingArmed, [Next]_vars
               PROVE  PendingArmed'
    OBVIOUS
  <2>1. ASSUME NEW g \in Generation, CreateStep(g)
        PROVE  PendingArmed'
    <3>1. UNCHANGED <<pending, alarm>>
      BY <2>1 DEF CreateStep, Reserve, Put, PutLost, Confirm, Release, Forgotten, pasteVars
    <3>2. QED
      BY <3>1 DEF PendingArmed
  <2>2. ASSUME NEW o \in Owner, IdentityStep(o)
        PROVE  PendingArmed'
    <3>1. UNCHANGED <<pending, alarm>>
      BY <2>2 DEF IdentityStep, ResolveIntent, AbortCreate, IntentAnswered, ResolverFails, pasteVars
    <3>2. QED
      BY <3>1 DEF PendingArmed
  <2>3. ASSUME NEW m \in late, LateArrives(m)
        PROVE  PendingArmed'
    <3>1. UNCHANGED <<pending, alarm>>
      BY <2>3 DEF LateArrives, pasteVars
    <3>2. QED
      BY <3>1 DEF PendingArmed
  <2>4. CASE UNCHANGED vars
    BY <2>4 DEF vars, pasteVars, PendingArmed
  <2>5. QED
    BY <2>1, <2>2, <2>3, <2>4, SagaArms, RequestArms DEF Next
<1>3. QED
  BY <1>1, <1>2, ShapeInvariant, PTL DEF Spec

=============================================================================
