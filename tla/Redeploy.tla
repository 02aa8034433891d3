------------------------------ MODULE Redeploy ------------------------------
(***************************************************************************)
(* Redeploy reuse: which stored objects the versions of a site share, what *)
(* a version is charged, and what deleting one frees                       *)
(* (worker/src/cells/paste.js reuseCharge and freedBy,                     *)
(* internal/service/deploy_site.go, upload_bytes.go).                      *)
(*                                                                         *)
(* A deploy reads the head of the site, stages what the head does not hold *)
(* under an upload prefix of its own, and appends its manifest.  Other     *)
(* deploys, deletes and pins come in between.  A delete decides what it    *)
(* frees from the live neighbours alone, in its own commit, and the        *)
(* service deletes those bytes afterwards, one at a time.                  *)
(*                                                                         *)
(* Abstractions.  One site.  A file is its content: two with one digest    *)
(* are one.  Which files are packed is fixed.  The pending operation that  *)
(* holds the cell over an append or a delete, and its charge, are          *)
(* ArtifactAccounting; here each is one commit, and the quota refuses or   *)
(* does not.                                                               *)
(***************************************************************************)
EXTENDS Integers, FiniteSets, Sequences, FiniteSetsExt, Totals

CONSTANTS
    Uploads,    \* upload ids, one per deploy
    Files,      \* contents
    Packed,     \* those that go into the pack of their deploy
    ObjectSize, \* content -> stored size
    FirstUpload, FirstFiles, \* the deploy that created the site
    Twice,      \* contents an archive may hold under one path with another
    MaxSlips    \* bound: lost answers and failed deletes

ASSUME RedeployAssumption ==
    /\ IsFiniteSet(Uploads) /\ IsFiniteSet(Files)
    /\ Packed \subseteq Files /\ ObjectSize \in [Files -> Nat]
    /\ FirstUpload \in Uploads /\ FirstFiles \in SUBSET Files \ {{}}
    /\ Twice \subseteq Files /\ MaxSlips \in Nat

VARIABLES
    history, \* the site's versions; none once it was removed
    pinned,  \* the pinned version, or 0
    stored,  \* the objects of the blob store: <<upload, content>>
    deploy,  \* upload -> its deploy
    release, \* what the service has still to delete: prefixes and objects, as sets
    slips

redeployVars == <<history, pinned, stored, deploy, release, slips>>

NoCharge == -1 \* a version from before charges were recorded
NoDeploy == [stage |-> "none", base |-> 0, objects |-> {}]
Prefix(u) == {u} \X Files

RedeployInit ==
    /\ history = <<[upload |-> FirstUpload, objects |-> {FirstUpload} \X FirstFiles,
                    dead |-> FALSE, charge |-> NoCharge]>>
    /\ pinned = 0 /\ stored = {FirstUpload} \X FirstFiles
    /\ deploy = [u \in Uploads |-> IF u = FirstUpload THEN [NoDeploy EXCEPT !.stage = "over"] ELSE NoDeploy]
    /\ release = {} /\ slips = 0

Retained == {v \in DOMAIN history : ~history[v].dead}
HeadVersion == Max(Retained \union {0})
OfVersion(v) == IF v = 0 THEN {} ELSE history[v].objects
StoredSize(objects) == Total([o \in objects |-> ObjectSize[o[2]]])
VersionCharge(v) == IF history[v].charge = NoCharge THEN StoredSize(history[v].objects)
                    ELSE history[v].charge

Slips == slips < MaxSlips /\ slips' = slips + 1

-----------------------------------------------------------------------------
(* A deploy. *)

\* DeployToSlug: a file the head holds unpacked points there, every other is
\* stored; a path sent twice leaves a stray beside them.
DeployStarts(u) == \E files \in SUBSET Files \ {{}}, strays \in SUBSET Twice :
    LET reused == {o \in OfVersion(HeadVersion) : o[2] \in files \ Packed}
        own == {u} \X {f \in files : \A o \in reused : o[2] # f}
    IN
    /\ deploy[u].stage = "none" /\ history # <<>>
    /\ deploy' = [deploy EXCEPT ![u] =
           [stage |-> "staged", base |-> HeadVersion, objects |-> reused \union own]]
    /\ stored' = stored \union own \union ({u} \X strays)
    /\ UNCHANGED <<history, pinned, release, slips>>

\* reuseCharge: the base is still the head, and an object outside the
\* deploy's own prefix is one of the base's, unpacked.
SharesOnly(u, base) ==
    \A o \in deploy[u].objects : o[1] = u \/ (o \in OfVersion(base) /\ o[2] \notin Packed)

MayReuseLive(u) == deploy[u].base \in Retained /\ SharesOnly(u, deploy[u].base)

MayReuse(u) == deploy[u].base = HeadVersion /\ history # <<>> /\ SharesOnly(u, HeadVersion)

Published(u) == Append(history,
    [upload |-> u, objects |-> deploy[u].objects, dead |-> FALSE,
     charge |-> StoredSize({o \in deploy[u].objects : o[1] = u})])

Over(u) == deploy' = [deploy EXCEPT ![u] = [NoDeploy EXCEPT !.stage = "over"]]

\* The append is published; or refused, for the reuse or the quota, and the
\* service discards the upload; or its outcome is unknown and nothing is.
AppendVersion(u) ==
    /\ deploy[u].stage = "staged" /\ Over(u)
    /\ \/ MayReuse(u) /\ history' = Published(u) /\ UNCHANGED <<stored, slips>>
       \/ UNCHANGED <<history, slips>> /\ stored' = stored \ Prefix(u)
       \/ /\ Slips /\ UNCHANGED stored
          /\ UNCHANGED history \/ (MayReuse(u) /\ history' = Published(u))
    /\ UNCHANGED <<pinned, release>>

-----------------------------------------------------------------------------
(* A version delete. *)

PrevOf(v) == Max({w \in Retained : w < v} \union {0})
NextOf(v) == LET later == {w \in Retained : w > v} IN IF later = {} THEN 0 ELSE Min(later)

Freed(v) == OfVersion(v) \ (OfVersion(PrevOf(v)) \union OfVersion(NextOf(v)))

\* A prefix goes whole when its version is deleted and neither neighbour
\* references a key under it.
FreedPrefixes(v) ==
    LET gone == {history[w].upload : w \in (DOMAIN history \ Retained) \union {v}}
        held == {o[1] : o \in OfVersion(PrevOf(v)) \union OfVersion(NextOf(v))}
    IN  (({o[1] : o \in Freed(v)} \union {history[v].upload}) \intersect gone) \ held

FreedBy(v) == {Prefix(u) : u \in FreedPrefixes(v)}
              \union {{o} : o \in {x \in Freed(v) : x[1] \notin FreedPrefixes(v)}}

\* The next version is charged what its new predecessor does not hold; one
\* from before charges, that shares nothing, keeps its size.
Recharged(v) ==
    LET n == NextOf(v)
        dead == [history EXCEPT ![v].dead = TRUE]
    IN
    IF n = 0 \/ (history[n].charge = NoCharge /\ Freed(v) = OfVersion(v)) THEN dead
    ELSE [dead EXCEPT ![n].charge = StoredSize(OfVersion(n) \ OfVersion(PrevOf(v)))]

ServedVersion == IF pinned = 0 THEN HeadVersion ELSE pinned

\* The service deletes what the answer names; without an answer, nothing.
Releases(freed) ==
    \/ release' = release \union freed /\ UNCHANGED slips
    \/ UNCHANGED release /\ Slips

DeleteVersion(v) ==
    /\ v \in Retained /\ v # ServedVersion
    /\ history' = Recharged(v)
    /\ Releases(FreedBy(v))
    /\ UNCHANGED <<pinned, stored, deploy>>

PinVersion(v) ==
    /\ v \in Retained \union {0} /\ v # pinned /\ history # <<>>
    /\ pinned' = v
    /\ UNCHANGED <<history, stored, deploy, release, slips>>

\* remove: the prefixes of every version, of the deleted ones too.
RemoveSite ==
    /\ history # <<>>
    /\ history' = <<>> /\ pinned' = 0
    /\ Releases({Prefix(history[v].upload) : v \in DOMAIN history})
    /\ UNCHANGED <<stored, deploy>>

\* discardRelease, one call after the other; a failed one is only logged.
Discards(x) ==
    /\ x \in release /\ release' = release \ {x}
    /\ \/ stored' = stored \ x /\ UNCHANGED slips
       \/ UNCHANGED stored /\ Slips
    /\ UNCHANGED <<history, pinned, deploy>>

RedeployNext ==
    \/ \E u \in Uploads : DeployStarts(u) \/ AppendVersion(u)
    \/ \E v \in Retained \union {0} : DeleteVersion(v) \/ PinVersion(v)
    \/ RemoveSite \/ \E x \in release : Discards(x)

-----------------------------------------------------------------------------
\* The objects a live version names are stored; the live versions together
\* are charged each of those objects once; and an object that none names any
\* more is deleted, unless an answer or a delete was lost.  A stray no version
\* ever named may stay as long as something under its prefix does (paste.js
\* freedBy, reuseCharge).
ReuseExact ==
    LET named == UNION {history[v].objects : v \in Retained}
        everNamed == UNION {history[v].objects : v \in DOMAIN history}
        kept == {o[1] : o \in named} \union {history[v].upload : v \in Retained}
                \union {u \in Uploads : deploy[u].stage = "staged"}
    IN
    /\ named \subseteq stored
    /\ Total([v \in Retained |-> VersionCharge(v)]) = StoredSize(named)
    /\ slips = 0 /\ release = {} =>
         \A o \in stored \ named : o \notin everNamed /\ o[1] \in kept
=============================================================================
