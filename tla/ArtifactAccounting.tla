------------------------ MODULE ArtifactAccounting ------------------------
(***************************************************************************)
(* Artifact accounting across two kinds of cell: the Identity cell of an   *)
(* owner (quota, listing, create intents; worker/src/cells/identity.js)    *)
(* and the Paste cell of a slug (row, versions, one pending operation;     *)
(* worker/src/cells/paste.js, artifact-saga.js), with the Go front end     *)
(* that drives a create (internal/worker/pasterepo.go).                    *)
(*                                                                         *)
(* Every operation runs under the cell's lock (blockConcurrencyWhile), its *)
(* calls to the other cell included; each local transaction is one atomic  *)
(* step.  A call can be lost, its answer can be lost, a cell can be        *)
(* stopped between two steps, and a copy of a request whose caller gave up *)
(* can arrive later.                                                       *)
(*                                                                         *)
(* Abstractions.  A generation here is one attempt of a create, the pair   *)
(* (slug, generation) of the code; it fixes the row, so fingerprint        *)
(* mismatches cannot occur.  A version's bytes are its upload,             *)
(* named by the request that brought it.  An intent may be due at any time *)
(* (the 30 s grace only makes an early recovery rarer).  Retry deadlines   *)
(* and attempt counts are dropped: an armed alarm may fire.                *)
(*                                                                         *)
(* A definition whose comment says "defect" is a plausible bug, used only  *)
(* to test that the properties notice it.                                  *)
(***************************************************************************)
EXTENDS Integers, FiniteSets, Sequences, Fence, Totals

CONSTANTS
    Owner, Slug, Generation,
    Op,               \* mutation requests, each with its own operation id
    None,             \* no generation, no request
    Creates,          \* generation -> what its create asks for
    Requests,         \* request -> the generation it read, and its kind
    Charges,          \* bytes an appended version may add
    MaxName,          \* bound on names (0 is unnamed)
    UserCap,          \* an owner's quota, USER_QUOTA_BYTES
    MaxVersions,      \* bound on a slug's versions
    MaxFaults,        \* bound on lost calls, lost answers and stops
    LateKinds,        \* kinds of request whose copies may arrive late
    EarlyOps          \* may an owner act on a slug whose put is still retried?

Kinds == {"append", "abandon", "deleteVersion", "pin", "remove", "fail", "projection"}
OpKinds == {"append", "deleteVersion", "pin", "remove", "fail", "ready", "rename"}
Stages == {"decide", "project", "drop"}

ASSUME ConstantsAssumption ==
    /\ None \notin Generation \union Op /\ Generation \intersect Op = {}
    /\ Creates \in [Generation ->
          [owner: Owner, slug: Slug, size: Nat, status: {"pending", "ready"}]]
    /\ Requests \in [Op -> [gen: Generation, kind: OpKinds]]
    /\ Charges \subseteq Nat
    /\ MaxName \in Nat /\ UserCap \in Nat \ {0}
    /\ MaxVersions \in Nat \ {0} /\ MaxFaults \in Nat
    /\ LateKinds \subseteq Stages \union {"put", "abort"}
    /\ EarlyOps \in BOOLEAN

VARIABLES
    \* The Identity cells.
    entries,    \* owner -> slug -> listing entry
    account,    \* generation -> its decision record, artifact-account:<slug>:<gen>
    intents,    \* generations whose create intent is outstanding
    resolver,   \* owner -> the intent its alarm is resolving
    \* The Paste cells.
    row,        \* slug -> authoritative row
    versions,   \* slug -> versions 1 .. maxVer
    pending,    \* slug -> artifactPending
    alarm,      \* slugs whose alarm is set
    tombstone,  \* slug -> generation of artifactTombstone
    receipts,   \* request -> its permanent outcome
    aborted,    \* generations with a create-abort key
    handler,    \* slug -> where its running mutation or alarm is
    \* The front end and the network.
    create,     \* generation -> step of InsertWithQuotaCheck
    caller,     \* request -> what its caller was told
    late,       \* copies of requests whose callers gave up
    faults

identityVars == <<entries, account, intents, resolver>>
pasteVars    == <<row, versions, pending, alarm, tombstone, receipts, aborted, handler>>
frontVars    == <<create, caller>>
netVars      == <<late, faults>>
vars == <<identityVars, pasteVars, frontVars, netVars>>

-----------------------------------------------------------------------------
(* Shapes.  An absent record has gen None (or kind "none").                *)

Names == 0 .. MaxName
Status == {"none", "pending", "ready", "failed"}

\* What the owner's list shows of an artifact beside its charge; served stands
\* for the served version's size and kind.
Listing == [status: Status, served: Nat, latest: Nat, pinned: Nat, name: Names]
NoListing == [status |-> "none", served |-> 0, latest |-> 0, pinned |-> 0, name |-> 0]

Entry == [gen: Generation \union {None}, charged: Nat, listing: Listing]
NoEntry == [gen |-> None, charged |-> 0, listing |-> NoListing]

\* served is the version the row is a view of: its upload, manifest, kind, size.
Row == [gen: Generation \union {None}, status: Status, version: Nat,
        served: Nat, pinned: Nat, name: Names]
NoRow == [gen |-> None, status |-> "none", version |-> 0, served |-> 0, pinned |-> 0, name |-> 0]

Version == [upload: Generation \union Op, charge: Nat, deleted: BOOLEAN]

Pending == [kind: Kinds \union {"none"}, stage: Stages, op: Op \union {None},
            gen: Generation \union {None}, version: Nat, target: Nat, cap: Nat,
            latest: Nat, charge: Nat]
NoPending == [kind |-> "none", stage |-> "decide", op |-> None, gen |-> None, version |-> 0,
              target |-> 0, cap |-> 0, latest |-> 0, charge |-> 0]

Events == {"absent", "refused", "granted", "conflict", "projected", "dropped"}
\* "call": a stage call is due or outstanding; an event: its answer is in;
\* "next": the operation in `then` goes on after the one it found pending.
Handler == [at: Events \union {"idle", "call", "next"}, then: Op \union {None}]
Idle == [at |-> "idle", then |-> None]

Answer == [gen: Generation \union {None}, found: {"asking", "absent"} \union Status]
NoAnswer == [gen |-> None, found |-> "asking"]

Message == [type: Stages \union {"put", "abort"}, gen: Generation, version: Nat,
            target: Nat, cap: Nat, listing: Listing]

TypeOK ==
    /\ entries \in [Owner -> [Slug -> Entry]]
    /\ account \in [Generation -> FenceRecord]
    /\ intents \subseteq Generation
    /\ resolver \in [Owner -> Answer]
    /\ row \in [Slug -> Row]
    /\ versions \in [Slug -> Seq(Version)]
    /\ pending \in [Slug -> Pending]
    /\ alarm \subseteq Slug
    /\ tombstone \in [Slug -> Generation \union {None}]
    /\ receipts \in [Op -> {"none", "ok", "over-quota", "too-large"}]
    /\ aborted \subseteq Generation
    /\ handler \in [Slug -> Handler]
    /\ create \in [Generation -> {"new", "put", "retry", "confirm", "release",
                               "done", "failed"}]
    /\ caller \in [Op -> {"idle", "asked", "ok", "refused"}]
    /\ late \subseteq Message
    /\ faults \in 0 .. MaxFaults

Init ==
    /\ entries = [o \in Owner |-> [s \in Slug |-> NoEntry]]
    /\ account = [g \in Generation |-> NoRecord]
    /\ intents = {}
    /\ resolver = [o \in Owner |-> NoAnswer]
    /\ row = [s \in Slug |-> NoRow]
    /\ versions = [s \in Slug |-> <<>>]
    /\ pending = [s \in Slug |-> NoPending]
    /\ alarm = {}
    /\ tombstone = [s \in Slug |-> None]
    /\ receipts = [p \in Op |-> "none"]
    /\ aborted = {}
    /\ handler = [s \in Slug |-> Idle]
    /\ create = [g \in Generation |-> "new"]
    /\ caller = [p \in Op |-> "idle"]
    /\ late = {}
    /\ faults = 0

-----------------------------------------------------------------------------
(* Shared reads.                                                           *)

\* A mutation waits for the cell's lock: the alarm holds the Identity cell's
\* while it resolves an intent, a running mutation holds the Paste cell's.
IdentityFree(o) == resolver[o].gen = None
PasteFree(s) == handler[s].at = "idle"

OwnerOf(g) == Creates[g].owner
SlugOf(g) == Creates[g].slug
GenOf(p) == Requests[p].gen
KindOf(p) == Requests[p].kind
TargetOf(p) == SlugOf(GenOf(p))   \* the slug whose cell the request goes to

EntryOf(g) == entries[OwnerOf(g)][SlugOf(g)]
Listed(g) == EntryOf(g).gen = g

OwnerTotal(o) == Total([s \in Slug |-> entries[o][s].charged])

LiveVersions(vs) == {i \in DOMAIN vs : ~vs[i].deleted}
LiveCharge(vs) == Total([i \in LiveVersions(vs) |-> vs[i].charge])

\* Defect: the newest live version is served whatever is pinned.
ServedNewest(pinned, vs) == CHOOSE i \in LiveVersions(vs) : \A j \in LiveVersions(vs) : j <= i

\* The pin when it is live, otherwise the newest live version.
ServedOf(pinned, vs) ==
    CASE pinned \in LiveVersions(vs) -> pinned
      [] OTHER -> CHOOSE i \in LiveVersions(vs) : \A j \in LiveVersions(vs) : j <= i

\* The row rolled onto the version it serves; a pin that is not live is dropped.
RollServed(r, pinned, vs) ==
    [r EXCEPT !.served = ServedOf(pinned, vs),
              !.pinned = IF pinned \in LiveVersions(vs) THEN pinned ELSE 0]

Fault == faults < MaxFaults /\ faults' = faults + 1
NoFault == UNCHANGED netVars

\* Each cell holds its lock over a call to the other: neither can answer.
\* Only the runtime ends that, by failing a call.
WaitOnEachOther(o, s) ==
    /\ resolver[o].gen # None /\ resolver[o].found = "asking"
    /\ SlugOf(resolver[o].gen) = s
    /\ handler[s].at = "call" /\ OwnerOf(pending[s].gen) = o

\* A request whose caller gave up is lost, or a copy of it stays on its way.
LateCopy(m) ==
    \/ UNCHANGED late
    \/ m.type \in LateKinds /\ late' = late \union {m}

BareMessage(type, g) ==
    [type |-> type, gen |-> g, version |-> 0, target |-> 0, cap |-> 0, listing |-> NoListing]

-----------------------------------------------------------------------------
(* Identity: reserve, confirm, release.                                    *)

Enter(g, e) == entries' = [entries EXCEPT ![OwnerOf(g)][SlugOf(g)] = e]

\* The first step of a create: quota check, entry, record and intent in one
\* transaction.  The answer may be lost, which ends the create at the caller.
Reserve(g) ==
    LET size == Creates[g].size IN
    /\ create[g] = "new"
    /\ IdentityFree(OwnerOf(g))
    /\ IF EntryOf(g).gen # None \/ OwnerTotal(OwnerOf(g)) + size > UserCap
       THEN /\ create' = [create EXCEPT ![g] = "failed"]
            /\ UNCHANGED <<entries, account, intents>> /\ NoFault
       ELSE /\ Enter(g, [gen |-> g, charged |-> size,
                         listing |-> [status |-> Creates[g].status, served |-> 1,
                                     latest |-> 1, pinned |-> 0, name |-> 0]])
            /\ account' = [account EXCEPT ![g] = [version |-> 0, allocated |-> size, target |-> size]]
            /\ intents' = intents \union {g}
            /\ \/ create' = [create EXCEPT ![g] = "put"] /\ NoFault
               \/ create' = [create EXCEPT ![g] = "failed"] /\ Fault /\ UNCHANGED late
    /\ UNCHANGED <<resolver, pasteVars, caller>>

\* Defect: the intent outlives an entry that has already left pending.
ConfirmEntryIfPending(g, status) ==
    IF Listed(g) /\ EntryOf(g).listing.status = "pending"
    THEN /\ Enter(g, [EntryOf(g) EXCEPT !.listing.status = status])
         /\ intents' = intents \ {g}
    ELSE UNCHANGED <<entries, intents>>

\* 404 without the entry, 409 on another incarnation's; otherwise a pending
\* entry takes the row's status and the intent is discharged.
ConfirmEntry(g, status) ==
    IF Listed(g)
    THEN /\ Enter(g, [EntryOf(g) EXCEPT !.listing.status = IF @ = "pending" THEN status ELSE @])
         /\ intents' = intents \ {g}
    ELSE UNCHANGED <<entries, intents>>

\* Defect: the intent goes, the reservation stays.
ReleaseIntentOnly(g) == intents' = intents \ {g} /\ UNCHANGED <<entries, account>>

\* A release of the incarnation the slug lists, or of one it never listed.
ReleaseEntry(g) ==
    IF EntryOf(g).gen \notin {None, g}
    THEN UNCHANGED <<entries, account, intents>>
    ELSE /\ IF Listed(g)
            THEN /\ account' = [account EXCEPT ![g] = [version |-> @.version + 1, allocated |-> 0, target |-> 0]]
                 /\ Enter(g, NoEntry)
            ELSE UNCHANGED <<entries, account>>
         /\ intents' = intents \ {g}

\* The last steps of a create.  The caller does nothing more whatever the
\* answer; a lost request is Forgotten.  A create whose confirm got no answer
\* has succeeded, one whose confirm was refused has not.
Confirm(g) ==
    /\ create[g] = "confirm"
    /\ IdentityFree(OwnerOf(g))
    /\ ConfirmEntry(g, Creates[g].status)
    /\ create' = [create EXCEPT ![g] = IF Listed(g) THEN "done" ELSE "failed"]
    /\ UNCHANGED <<account, resolver, pasteVars, caller>> /\ NoFault

Release(g) ==
    /\ create[g] = "release"
    /\ IdentityFree(OwnerOf(g))
    /\ ReleaseEntry(g)
    /\ create' = [create EXCEPT ![g] = "failed"]
    /\ UNCHANGED <<resolver, pasteVars, caller>> /\ NoFault

Forgotten(g) ==
    /\ create[g] \in {"confirm", "release"}
    /\ create' = [create EXCEPT ![g] = IF @ = "confirm" THEN "done" ELSE "failed"]
    /\ Fault /\ UNCHANGED late
    /\ UNCHANGED <<identityVars, pasteVars, caller>>

-----------------------------------------------------------------------------
(* Paste: put and abortcreate.                                             *)

\* Defect: a put does not look for the abort of its generation.
MayPutUnfenced(g) == row[SlugOf(g)].gen = None /\ tombstone[SlugOf(g)] = None

\* Whether this generation's row may be written: no row, not aborted, and the
\* previous incarnation settled.
MayPut(g) ==
    /\ row[SlugOf(g)].gen = None
    /\ g \notin aborted
    /\ tombstone[SlugOf(g)] = None

\* The row is written with version 1, whose charge is the reserved size; an
\* earlier incarnation's versions are cleared.
WriteRow(g) ==
    LET s == SlugOf(g) IN
    IF MayPut(g)
    THEN /\ row' = [row EXCEPT ![s] =
                      [gen |-> g, status |-> Creates[g].status, version |-> 0, served |-> 1,
                       pinned |-> 0, name |-> 0]]
         /\ versions' = [versions EXCEPT ![s] =
                           <<[upload |-> g, charge |-> Creates[g].size, deleted |-> FALSE]>>]
    ELSE UNCHANGED <<row, versions>>

\* One of two attempts.  A row of this generation, old or just written, is
\* success; any other answer means it can never land.
Put(g) ==
    LET s == SlugOf(g) IN
    /\ create[g] \in {"put", "retry"}
    /\ PasteFree(s)
    /\ WriteRow(g)
    /\ \/ /\ create' = [create EXCEPT ![g] =
                          IF MayPut(g) \/ row[s].gen = g THEN "confirm" ELSE "release"]
          /\ NoFault
       \/ /\ create' = [create EXCEPT ![g] = IF @ = "put" THEN "retry" ELSE "failed"]
          /\ Fault /\ UNCHANGED late
    /\ UNCHANGED <<identityVars, pending, alarm, tombstone, receipts, aborted, handler, caller>>

\* The put does not arrive, or not yet.
PutLost(g) ==
    /\ create[g] \in {"put", "retry"}
    /\ create' = [create EXCEPT ![g] = IF @ = "put" THEN "retry" ELSE "failed"]
    /\ Fault /\ LateCopy(BareMessage("put", g))
    /\ UNCHANGED <<identityVars, pasteVars, caller>>

-----------------------------------------------------------------------------
(* Identity: the alarm that resolves an outstanding create intent.         *)

ResolveIntent(g) ==
    /\ g \in intents
    /\ IdentityFree(OwnerOf(g))
    /\ resolver' = [resolver EXCEPT ![OwnerOf(g)] = [gen |-> g, found |-> "asking"]]
    /\ UNCHANGED <<entries, account, intents, pasteVars, frontVars>> /\ NoFault

\* Defect: recovery finds a row absent and leaves no fence.
NoFencing(g) == aborted

\* A create whose row is not there may not put it any more.
Fencing(g) == IF row[SlugOf(g)].gen = g THEN aborted ELSE aborted \union {g}

\* abortcreate reports this generation's row or fences it against a late put.
AbortCreate(o) ==
    LET g == resolver[o].gen
        r == row[SlugOf(g)]
    IN
    /\ resolver[o].gen # None /\ resolver[o].found = "asking"
    /\ PasteFree(SlugOf(g))
    /\ resolver' = [resolver EXCEPT ![o].found = IF r.gen = g THEN r.status ELSE "absent"]
    /\ aborted' = Fencing(g)
    /\ UNCHANGED <<entries, account, intents, row, versions, pending, alarm, tombstone, receipts,
                   handler, frontVars>>
    /\ NoFault

\* Absent releases the reservation, present confirms it; a confirm the entry
\* refuses keeps the intent and its alarm.
IntentAnswered(o) ==
    LET g == resolver[o].gen IN
    /\ resolver[o].gen # None /\ resolver[o].found # "asking"
    /\ \/ resolver[o].found = "absent" /\ ReleaseEntry(g)
       \/ resolver[o].found # "absent" /\ ConfirmEntry(g, resolver[o].found) /\ UNCHANGED account
    /\ resolver' = [resolver EXCEPT ![o] = NoAnswer]
    /\ UNCHANGED <<pasteVars, frontVars>> /\ NoFault

\* The call fails or the cell stops; the alarm fires again.
ResolverFails(o) ==
    /\ resolver[o].gen # None
    /\ resolver' = [resolver EXCEPT ![o] = NoAnswer]
    /\ \/ Fault /\ IF resolver[o].found = "asking"
                   THEN LateCopy(BareMessage("abort", resolver[o].gen)) ELSE UNCHANGED late
       \/ (\E s \in Slug : WaitOnEachOther(o, s)) /\ NoFault
    /\ UNCHANGED <<entries, account, intents, pasteVars, frontVars>>

-----------------------------------------------------------------------------
(* Identity: the answers to a pending operation's stage calls.             *)

Decision(m) ==
    Decided(account[m.gen], OwnerTotal(OwnerOf(m.gen)), m.version, m.target, m.cap)

\* artifactdecide: the fence over this incarnation's record.
DecideAnswer(m) ==
    CASE EntryOf(m.gen).gen = None -> "absent"
      [] Listed(m.gen) ->
            FenceAnswer(account[m.gen], OwnerTotal(OwnerOf(m.gen)), m.version, m.target, m.cap)
      [] OTHER -> "conflict"

\* Defect: a refused target is charged too.
ArtifactDecideRefused(m) ==
    IF Listed(m.gen) /\ Decides(account[m.gen], m.version)
    THEN /\ account' = [account EXCEPT ![m.gen] = Decision(m)]
         /\ Enter(m.gen, [EntryOf(m.gen) EXCEPT !.charged = m.target])
    ELSE UNCHANGED <<account, entries>>

ArtifactDecide(m) ==
    IF Listed(m.gen) /\ Decides(account[m.gen], m.version)
    THEN /\ account' = [account EXCEPT ![m.gen] = Decision(m)]
         /\ Enter(m.gen, [EntryOf(m.gen) EXCEPT !.charged =
                            IF DecideAnswer(m) = "granted" THEN m.target ELSE @])
    ELSE UNCHANGED <<account, entries>>

\* artifactproject: only the listing, and only at the decided version.
MayProject(m) == Listed(m.gen) /\ account[m.gen].version = m.version

ArtifactProject(m) ==
    /\ IF MayProject(m) THEN Enter(m.gen, [EntryOf(m.gen) EXCEPT !.listing = m.listing])
                        ELSE UNCHANGED entries
    /\ UNCHANGED account

\* Defect: a drop does not compare generations.
MayDropAnyIncarnation(m) ==
    account[m.gen] = [version |-> m.version, allocated |-> 0, target |-> 0]

\* artifactdrop: only after this version released everything.
MayDrop(m) ==
    /\ account[m.gen] = [version |-> m.version, allocated |-> 0, target |-> 0]
    /\ EntryOf(m.gen).gen \in {None, m.gen}

ArtifactDrop(m) ==
    /\ IF MayDrop(m) THEN Enter(m.gen, NoEntry) ELSE UNCHANGED entries
    /\ UNCHANGED account

StageAnswer(m) ==
    CASE m.type = "decide"  -> DecideAnswer(m)
      [] m.type = "project" -> IF MayProject(m) THEN "projected" ELSE "conflict"
      [] m.type = "drop"    -> IF MayDrop(m) THEN "dropped" ELSE "conflict"

StageEffect(m) ==
    \/ m.type = "decide" /\ ArtifactDecide(m)
    \/ m.type = "project" /\ ArtifactProject(m)
    \/ m.type = "drop" /\ ArtifactDrop(m)

\* What the Paste cell sends for the stage its operation is at.
StageRequest(s) ==
    LET q == pending[s] IN
    [type |-> q.stage, gen |-> q.gen,
     version |-> q.version,
     target  |-> IF q.stage = "decide" THEN q.target ELSE 0,
     cap     |-> IF q.stage = "decide" THEN q.cap ELSE 0,
     listing |-> IF q.stage = "project"
                 THEN [status |-> row[s].status, served |-> row[s].served, latest |-> q.latest,
                       pinned |-> row[s].pinned, name |-> row[s].name]
                 ELSE NoListing]

IdentityAnswers(s) ==
    LET m == StageRequest(s) IN
    /\ handler[s].at = "call"
    /\ IdentityFree(OwnerOf(m.gen))
    /\ StageEffect(m)
    /\ handler' = [handler EXCEPT ![s].at = StageAnswer(m)]
    /\ UNCHANGED <<intents, resolver, row, versions, pending, alarm, tombstone, receipts, aborted,
                   frontVars>>
    /\ NoFault

\* The call throws (counted as an attempt, retried by the alarm) or the cell
\* stops while it waits.
CallFails(s) ==
    /\ handler[s].at = "call"
    /\ handler' = [handler EXCEPT ![s] = Idle]
    /\ \/ Fault /\ LateCopy(StageRequest(s))
       \/ (\E o \in Owner : WaitOnEachOther(o, s)) /\ NoFault
    /\ UNCHANGED <<identityVars, row, versions, pending, alarm, tombstone, receipts, aborted, frontVars>>

\* The cell stops between two local commits.
PasteStops(s) ==
    /\ handler[s].at \notin {"idle", "call"}
    /\ handler' = [handler EXCEPT ![s] = Idle]
    /\ Fault /\ UNCHANGED late
    /\ UNCHANGED <<identityVars, row, versions, pending, alarm, tombstone, receipts, aborted, frontVars>>

\* A copy nobody waits for arrives.
LateArrives(m) ==
    /\ m \in late
    /\ late' = late \ {m}
    /\ \/ /\ m.type \in Stages
          /\ IdentityFree(OwnerOf(m.gen))
          /\ StageEffect(m)
          /\ UNCHANGED <<intents, resolver, pasteVars>>
       \/ /\ m.type = "put"
          /\ PasteFree(SlugOf(m.gen))
          /\ WriteRow(m.gen)
          /\ UNCHANGED <<identityVars, pending, alarm, tombstone, receipts, aborted, handler>>
       \/ /\ m.type = "abort"
          /\ PasteFree(SlugOf(m.gen))
          /\ aborted' = Fencing(m.gen)
          /\ UNCHANGED <<identityVars, row, versions, pending, alarm, tombstone, receipts, handler>>
    /\ UNCHANGED <<frontVars, faults>>

-----------------------------------------------------------------------------
(* Paste: what a pending operation does with an answer (nextPending,       *)
(* resumeArtifactPending).                                                 *)

\* Defect: a failed create is projected, not dropped.
DropKindsRemoveOnly == {"remove"}

DropKinds == {"remove", "fail"}

AfterDecide(kind) == IF kind \in DropKinds THEN "drop" ELSE "project"

\* The operation is over: the mutation that found it pending goes on.
Cleared(s) ==
    /\ pending' = [pending EXCEPT ![s] = NoPending]
    /\ alarm' = alarm \ {s}
    /\ handler' = [handler EXCEPT ![s] =
                     IF @.then = None THEN Idle ELSE [at |-> "next", then |-> @.then]]

GoOn(s, q) ==
    /\ pending' = [pending EXCEPT ![s] = q]
    /\ handler' = [handler EXCEPT ![s].at = "call"]

\* The row carries the fence's version, when there is a row.
Fenced(s, version) == [row[s] EXCEPT !.version = IF row[s].gen = None THEN @ ELSE version]

Retry(s) ==
    /\ \/ handler[s].at = "conflict"
       \/ handler[s].at = "absent" /\ pending[s].kind \notin DropKinds
    /\ alarm' = alarm \union {s}
    /\ handler' = [handler EXCEPT ![s] = Idle]
    /\ UNCHANGED <<identityVars, row, versions, pending, tombstone, receipts, aborted, frontVars>>
    /\ NoFault

\* The owner no longer lists the artifact: nothing is left to drop.
SettleAbsent(s) ==
    LET q == pending[s] IN
    /\ handler[s].at = "absent"
    /\ \/ /\ q.kind = "remove" /\ tombstone[s] = q.gen
          /\ tombstone' = [tombstone EXCEPT ![s] = None]
          /\ UNCHANGED row
       \/ /\ q.kind = "fail"
          /\ row' = IF row[s].gen = q.gen THEN [row EXCEPT ![s] = Fenced(s, q.version)] ELSE row
          /\ UNCHANGED tombstone
    /\ Cleared(s)
    /\ UNCHANGED <<identityVars, versions, receipts, aborted, frontVars>>
    /\ NoFault

\* A quota refusal ends the operation with a permanent receipt.
Refuse(s) ==
    LET q == pending[s] IN
    /\ handler[s].at = "refused"
    /\ row' = [row EXCEPT ![s] = Fenced(s, q.version)]
    /\ receipts' = [receipts EXCEPT ![q.op] = "over-quota"]
    /\ Cleared(s)
    /\ UNCHANGED <<identityVars, versions, tombstone, aborted, frontVars>>
    /\ NoFault

\* A granted append goes live: version, served view and receipt together.
Publish(s) ==
    LET q  == pending[s]
        vs == Append(versions[s], [upload |-> q.op, charge |-> q.charge, deleted |-> FALSE])
    IN
    /\ handler[s].at = "granted" /\ q.kind = "append"
    /\ versions' = [versions EXCEPT ![s] = vs]
    /\ row' = [row EXCEPT ![s] = RollServed(Fenced(s, q.version), row[s].pinned, vs)]
    /\ receipts' = [receipts EXCEPT ![q.op] = "ok"]
    /\ GoOn(s, [q EXCEPT !.stage = "project"])
    /\ UNCHANGED <<identityVars, alarm, tombstone, aborted, frontVars>>
    /\ NoFault

\* Defect: the refused version stays charged.
AbandonCharged(s) ==
    /\ handler[s].at = "granted" /\ pending[s].kind = "append"
    /\ receipts' = [receipts EXCEPT ![pending[s].op] = "too-large"]
    /\ row' = [row EXCEPT ![s] = Fenced(s, pending[s].version)]
    /\ Cleared(s)
    /\ UNCHANGED <<identityVars, versions, tombstone, aborted, frontVars>>
    /\ NoFault

\* The storage refuses the granted version: the charge is settled back down at
\* the next version.
AbandonAppend(s) ==
    LET q == pending[s] IN
    /\ handler[s].at = "granted" /\ q.kind = "append"
    /\ receipts' = [receipts EXCEPT ![q.op] = "too-large"]
    /\ alarm' = alarm \union {s}
    /\ GoOn(s, [q EXCEPT !.kind = "abandon", !.version = @ + 1, !.target = @ - q.charge,
                         !.latest = Len(versions[s]), !.charge = 0])
    /\ UNCHANGED <<identityVars, row, versions, tombstone, aborted, frontVars>>
    /\ NoFault

Advance(s) ==
    LET q == pending[s] IN
    /\ handler[s].at = "granted" /\ q.kind # "append"
    /\ row' = [row EXCEPT ![s] = Fenced(s, q.version)]
    /\ GoOn(s, [q EXCEPT !.stage = AfterDecide(q.kind)])
    /\ UNCHANGED <<identityVars, versions, alarm, tombstone, receipts, aborted, frontVars>>
    /\ NoFault

Clear(s) ==
    /\ handler[s].at = "projected"
    /\ Cleared(s)
    /\ UNCHANGED <<identityVars, row, versions, tombstone, receipts, aborted, frontVars>>
    /\ NoFault

\* Only now may the slug take a new incarnation.
FinishDrop(s) ==
    LET q == pending[s] IN
    /\ handler[s].at = "dropped"
    /\ \/ /\ q.kind = "remove" /\ tombstone[s] = q.gen
          /\ tombstone' = [tombstone EXCEPT ![s] = None]
       \/ q.kind # "remove" /\ UNCHANGED tombstone
    /\ Cleared(s)
    /\ UNCHANGED <<identityVars, row, versions, receipts, aborted, frontVars>>
    /\ NoFault

\* The alarm resumes what is pending.
Alarm(s) ==
    /\ s \in alarm /\ PasteFree(s)
    /\ pending[s].kind # "none"
    /\ handler' = [handler EXCEPT ![s].at = "call"]
    /\ UNCHANGED <<identityVars, row, versions, pending, alarm, tombstone, receipts, aborted, frontVars>>
    /\ NoFault

-----------------------------------------------------------------------------
(* Paste: the mutations.                                                   *)

\* What the finalizer asks: one of the two, once its create has succeeded.  The
\* row it asks about is therefore pending, and the answers to a settled one
\* ("not-pending") cannot occur.
FinalKinds == {"ready", "fail"}
MayFinalize(g) ==
    /\ create[g] = "done"
    /\ \A p \in Op : GenOf(p) = g /\ KindOf(p) \in FinalKinds => caller[p] = "idle"

\* A caller reads the row, then asks with its generation.  An owner may ask
\* early: the list shows a create from its reservation on.
Issue(p) ==
    LET g == GenOf(p) IN
    /\ caller[p] = "idle"
    /\ row[SlugOf(g)].gen = g
    /\ KindOf(p) \in FinalKinds => MayFinalize(g)
    /\ create[g] \notin {"put", "retry"} \/ EarlyOps
    /\ caller' = [caller EXCEPT ![p] = "asked"]
    /\ UNCHANGED <<identityVars, pasteVars, create>> /\ NoFault

\* A request reaches its cell, once or again: a caller without an answer asks
\* a second time.
Delivered(p) == caller[p] = "asked" /\ PasteFree(TargetOf(p))

Tell(p, answer) == caller' = [caller EXCEPT ![p] = answer]

Answered(p, answer) ==
    /\ Tell(p, answer)
    /\ UNCHANGED <<identityVars, pasteVars, create>> /\ NoFault

Unnamed(p) == KindOf(p) \in {"ready", "rename"}   \* no operation id, no receipt

\* A repeat gets the original outcome.
Replay(p) ==
    /\ Delivered(p) /\ receipts[p] # "none"
    /\ Answered(p, IF receipts[p] = "ok" THEN "ok" ELSE "refused")

\* 423: another operation holds the cell, so this one persists nothing.
Busy(p) ==
    LET q == pending[TargetOf(p)] IN
    /\ Delivered(p) /\ receipts[p] = "none" /\ ~Unnamed(p)
    /\ q.kind # "none" /\ q.op # p
    /\ Answered(p, "refused")

\* The repeat of an unresolved operation resumes it, and a status or name
\* change settles what it finds pending before its own turn.
Resume(p) ==
    LET s == TargetOf(p)
        q == pending[s]
    IN
    /\ Delivered(p) /\ receipts[p] = "none" /\ q.kind # "none"
    /\ \/ q.op = p /\ handler' = [handler EXCEPT ![s].at = "call"]
       \/ /\ Unnamed(p) /\ row[s].gen = GenOf(p)
          /\ KindOf(p) = "ready" => row[s].status = "pending"
          /\ handler' = [handler EXCEPT ![s] = [at |-> "call", then |-> p]]
    /\ UNCHANGED <<identityVars, row, versions, pending, alarm, tombstone, receipts, aborted, frontVars>>
    /\ NoFault

\* Defect: a repeat starts the operation anew.
TurnWithoutReceipt(p, kind) ==
    /\ Delivered(p) /\ KindOf(p) = kind
    /\ pending[TargetOf(p)].kind = "none"
    /\ row[TargetOf(p)].gen = GenOf(p)

\* An idle cell holding the incarnation the request names.
Turn(p, kind) ==
    /\ Delivered(p) /\ KindOf(p) = kind
    /\ receipts[p] = "none" /\ pending[TargetOf(p)].kind = "none"
    /\ row[TargetOf(p)].gen = GenOf(p)

\* No row, or another incarnation's: 404, 409, or changed: false.
Mismatch(p) ==
    /\ Delivered(p) /\ receipts[p] = "none"
    /\ Unnamed(p) \/ pending[TargetOf(p)].kind = "none"
    /\ row[TargetOf(p)].gen # GenOf(p)
    /\ Answered(p, "refused")

\* Defect: the pending operation is persisted without its alarm.
BeginWithoutAlarm(s, q) ==
    /\ pending' = [pending EXCEPT ![s] = q]
    /\ handler' = [handler EXCEPT ![s] = [at |-> "call", then |-> None]]
    /\ UNCHANGED alarm

\* The pending operation and its alarm are one commit with what it changes.
Begin(s, q) ==
    /\ pending' = [pending EXCEPT ![s] = q]
    /\ alarm' = alarm \union {s}
    /\ handler' = [handler EXCEPT ![s] = [at |-> "call", then |-> None]]

Decide(p, kind, target, cap, latest, charge) ==
    [kind |-> kind, stage |-> "decide", op |-> p, gen |-> GenOf(p),
     version |-> row[TargetOf(p)].version + 1, target |-> target, cap |-> cap,
     latest |-> latest, charge |-> charge]

\* Growth reserves before it publishes: nothing visible changes yet.
StartAppend(p) ==
    LET s == TargetOf(p)
        n == Len(versions[s])
    IN
    /\ Turn(p, "append")
    /\ n < MaxVersions
    /\ \E charge \in Charges :
          Begin(s, Decide(p, "append", LiveCharge(versions[s]) + charge, UserCap, n + 1, charge))
    /\ UNCHANGED <<identityVars, row, versions, tombstone, receipts, aborted, frontVars>>
    /\ NoFault

\* Too large to persist (413), or computed against a base that moved (409).
AppendRefused(p) == Turn(p, "append") /\ Answered(p, "refused")

NextLive(vs, v) == {i \in LiveVersions(vs) : i > v /\ \A j \in LiveVersions(vs) : j > v => i <= j}

\* Version v tombstoned.  The next live version takes over the charge of the
\* objects it shared with v alone (freedBy).
Tombstoned(vs, v, inherited) ==
    [i \in DOMAIN vs |->
        IF i = v THEN [vs[i] EXCEPT !.deleted = TRUE]
        ELSE IF i \in NextLive(vs, v) THEN [vs[i] EXCEPT !.charge = @ + inherited]
        ELSE vs[i]]

\* Shrink tombstones before it releases.
StartDelete(p) ==
    LET s == TargetOf(p)
        n == Len(versions[s])
        r == row[s]
    IN
    /\ Turn(p, "deleteVersion")
    /\ \E v \in LiveVersions(versions[s]) :
         /\ v # IF r.pinned # 0 THEN r.pinned ELSE ServedOf(0, versions[s])
         /\ \E inherited \in IF NextLive(versions[s], v) = {} THEN {0} ELSE 0 .. versions[s][v].charge :
              LET vs == Tombstoned(versions[s], v, inherited) IN
              /\ versions' = [versions EXCEPT ![s] = vs]
              /\ row' = [row EXCEPT ![s] = RollServed(r, r.pinned, vs)]
              /\ Begin(s, Decide(p, "deleteVersion", LiveCharge(vs), 0, n, 0))
    /\ receipts' = [receipts EXCEPT ![p] = "ok"]
    /\ UNCHANGED <<identityVars, tombstone, aborted, frontVars>>
    /\ NoFault

\* The served version is refused; one already deleted, or unknown, frees nothing.
DeleteNothing(p) ==
    LET vs == versions[TargetOf(p)]
        r  == row[TargetOf(p)]
    IN
    /\ Turn(p, "deleteVersion")
    /\ \E v \in 0 .. Len(vs) :
         /\ \/ v \notin LiveVersions(vs)
            \/ v = IF r.pinned # 0 THEN r.pinned ELSE ServedOf(0, vs)
         /\ Answered(p, IF v \in DOMAIN vs /\ vs[v].deleted THEN "ok" ELSE "refused")

StartPin(p) ==
    LET s == TargetOf(p) IN
    /\ Turn(p, "pin")
    /\ \E v \in LiveVersions(versions[s]) \union {0} :
         row' = [row EXCEPT ![s] = RollServed(@, v, versions[s])]
    /\ Begin(s, Decide(p, "pin", LiveCharge(versions[s]), 0, Len(versions[s]), 0))
    /\ receipts' = [receipts EXCEPT ![p] = "ok"]
    /\ UNCHANGED <<identityVars, versions, tombstone, aborted, frontVars>>
    /\ NoFault

\* The row goes and its tombstone stays until the charge is released.
StartRemove(p) ==
    LET s == TargetOf(p) IN
    /\ Turn(p, "remove")
    /\ row' = [row EXCEPT ![s] = NoRow]
    /\ tombstone' = [tombstone EXCEPT ![s] = GenOf(p)]
    /\ Begin(s, Decide(p, "remove", 0, 0, Len(versions[s]), 0))
    /\ receipts' = [receipts EXCEPT ![p] = "ok"]
    /\ UNCHANGED <<identityVars, versions, aborted, frontVars>>
    /\ NoFault

StartFail(p) ==
    LET s == TargetOf(p) IN
    /\ Turn(p, "fail")
    /\ row[s].status \in {"pending", "failed"}
    /\ row' = [row EXCEPT ![s].status = "failed"]
    /\ Begin(s, Decide(p, "fail", 0, 0, Len(versions[s]), 0))
    /\ receipts' = [receipts EXCEPT ![p] = "ok"]
    /\ UNCHANGED <<identityVars, versions, tombstone, aborted, frontVars>>
    /\ NoFault

\* queueProjection: the row and the projection of the listing in one commit.
Project(p) ==
    LET s == TargetOf(p) IN
    /\ \/ KindOf(p) = "ready" /\ row' = [row EXCEPT ![s].status = "ready"]
       \/ KindOf(p) = "rename" /\ \E n \in Names : row' = [row EXCEPT ![s].name = n]
    /\ Begin(s, [NoPending EXCEPT !.kind = "projection", !.stage = "project", !.gen = GenOf(p),
                                  !.version = row[s].version, !.latest = Len(versions[s])])
    /\ Tell(p, "ok")
    /\ UNCHANGED <<identityVars, versions, tombstone, receipts, aborted, create>>
    /\ NoFault

StartProjection(p) ==
    /\ \/ Turn(p, "ready") /\ row[TargetOf(p)].status = "pending"
       \/ Turn(p, "rename")
    /\ Project(p)

\* The operation found pending is settled; the same mutation goes on, if the
\* row is still the one it read.
GoesOn(s) ==
    LET p == handler[s].then IN
    /\ handler[s].at = "next"
    /\ \/ row[s].gen = GenOf(p) /\ Project(p)
       \/ /\ row[s].gen # GenOf(p)
          /\ handler' = [handler EXCEPT ![s] = Idle]
          /\ UNCHANGED <<identityVars, row, versions, pending, alarm, tombstone, receipts, aborted,
                         frontVars>>
          /\ NoFault

-----------------------------------------------------------------------------

CreateStep(g) == Reserve(g) \/ Put(g) \/ PutLost(g) \/ Confirm(g) \/ Release(g) \/ Forgotten(g)
IdentityStep(o) ==
    \/ \E g \in Generation : OwnerOf(g) = o /\ ResolveIntent(g)
    \/ AbortCreate(o) \/ IntentAnswered(o) \/ ResolverFails(o)
SagaStep(s) ==
    \/ IdentityAnswers(s) \/ CallFails(s) \/ PasteStops(s) \/ Alarm(s) \/ GoesOn(s)
    \/ Retry(s) \/ SettleAbsent(s) \/ Refuse(s) \/ Publish(s) \/ AbandonAppend(s)
    \/ Advance(s) \/ Clear(s) \/ FinishDrop(s)
RequestStep(p) ==
    \/ Issue(p) \/ Replay(p) \/ Busy(p) \/ Resume(p) \/ Mismatch(p)
    \/ StartAppend(p) \/ AppendRefused(p) \/ StartDelete(p) \/ DeleteNothing(p)
    \/ StartPin(p) \/ StartRemove(p) \/ StartFail(p) \/ StartProjection(p)

Next ==
    \/ \E g \in Generation : CreateStep(g)
    \/ \E o \in Owner : IdentityStep(o)
    \/ \E s \in Slug : SagaStep(s)
    \/ \E p \in Op : RequestStep(p)
    \/ \E m \in late : LateArrives(m)

Spec == Init /\ [][Next]_vars
=============================================================================
