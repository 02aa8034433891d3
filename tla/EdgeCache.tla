----------------------------- MODULE EdgeCache ------------------------------
(***************************************************************************)
(* The edge cache in front of the public reads (worker/src/public/         *)
(* caches.js, withEdgeCache) and the purges that follow a moderation       *)
(* (worker/src/abuse-routes.js).                                           *)
(*                                                                         *)
(* A read that misses takes its fill deadline, asks the Paste cell what    *)
(* the slug serves, and stores the answer in the background; a purge drops *)
(* what is stored when it runs, never a fill still under way.  So a route  *)
(* that changes what a slug serves purges at once and again RepurgeAfter   *)
(* later.                                                                  *)
(*                                                                         *)
(* Abstractions.  An entry is the slug's host: paths and flags multiply    *)
(* the keys under one host, and a purge names the host.  A read that fills *)
(* nothing (a HEAD, a conditional request, a 404, an answer over the size  *)
(* cap) is one that is abandoned.  The entry's TTL is longer than any      *)
(* behaviour here, so a stale entry shows.  Only Watched slugs are read,   *)
(* and only their second purges are followed.  The clock counts units of   *)
(* about five seconds.                                                     *)
(***************************************************************************)
EXTENDS Integers, FiniteSets

CONSTANTS
    Slugs,
    Watched,      \* slugs whose reads are followed
    FillWindow,   \* EDGE_FILL_WINDOW_MS
    RepurgeAfter, \* REPURGE_MS
    MaxTime       \* bound on the clock

ASSUME EdgeAssumption ==
    /\ Watched \subseteq Slugs
    /\ FillWindow \in Nat /\ RepurgeAfter \in Nat /\ MaxTime \in Nat
    /\ FillWindow < RepurgeAfter

VARIABLES
    now,     \* the clock
    edge,    \* slugs whose host the edge cache holds a copy of
    reads,   \* slug -> the read under way that may fill its entry
    timers   \* the second purges waiting: <<slug, due>>

edgeVars == <<now, edge, reads, timers>>

NoRead == [stage |-> "none", deadline |-> 0]

EdgeInit ==
    /\ now = 0
    /\ edge = {}
    /\ reads = [s \in Watched |-> NoRead]
    /\ timers = {}

\* A miss: the deadline is taken before the cell call.
ReadBegins(s) ==
    /\ s \notin edge
    /\ reads[s] = NoRead
    /\ reads' = [reads EXCEPT ![s] = [stage |-> "asked", deadline |-> now + FillWindow]]
    /\ UNCHANGED <<now, edge, timers>>

\* The Paste cell answers; only a page that is served is stored.
ReadResolves(s, served) ==
    /\ reads[s].stage = "asked"
    /\ reads' = [reads EXCEPT ![s] = IF served THEN [@ EXCEPT !.stage = "filling"] ELSE NoRead]
    /\ UNCHANGED <<now, edge, timers>>

\* A fill that would end after its deadline is abandoned.
InTime(s) == now <= reads[s].deadline

\* The background put ends, with the entry stored.
Fills(s) ==
    /\ reads[s].stage = "filling"
    /\ InTime(s)
    /\ edge' = edge \union {s}
    /\ reads' = [reads EXCEPT ![s] = NoRead]
    /\ UNCHANGED <<now, timers>>

\* ... or without: late, over the size cap, or its client gone.
Abandons(s) ==
    /\ reads[s].stage = "filling"
    /\ reads' = [reads EXCEPT ![s] = NoRead]
    /\ UNCHANGED <<now, edge, timers>>

PurgeOnce(s, refused) ==
    /\ edge' = IF refused THEN edge ELSE edge \ {s}
    /\ timers' = timers

\* What a moderation route leaves behind: the first purge, which the purge
\* API may refuse, and the timer of the second.
PurgeTwice(s, refused) ==
    /\ edge' = IF refused THEN edge ELSE edge \ {s}
    /\ timers' = IF s \in Watched THEN timers \union {<<s, now + RepurgeAfter>>} ELSE timers

SecondPurge(s) == \E t \in timers :
    /\ t[1] = s /\ t[2] <= now
    /\ timers' = timers \ {t}
    /\ edge' = edge \ {s}
    /\ UNCHANGED <<now, reads>>

\* Time passes; a timer that is due fires before it does.
Tick ==
    /\ now < MaxTime
    /\ \A t \in timers : t[2] > now
    /\ now' = now + 1
    /\ UNCHANGED <<edge, reads, timers>>
=============================================================================
