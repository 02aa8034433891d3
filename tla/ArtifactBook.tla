---------------------------- MODULE ArtifactBook ----------------------------
(***************************************************************************)
(* What artifact accounting promises as one book, whatever its cells are   *)
(* in the middle of (docs/SPEC.md, "Artifact accounting on celld").  An    *)
(* artifact is paid for before it is shown and for as long as it is; it is *)
(* shown once, taken down once and released once; every request has one    *)
(* outcome; and no owner is billed above the quota.                        *)
(*                                                                         *)
(* Every action is one instant.  The cells that implement it take several  *)
(* commits, calls, retries and recoveries for each.                        *)
(***************************************************************************)
EXTENDS Integers, Totals

CONSTANTS Owner, Slug, Generation, Op, Creates, Requests, UserCap

VARIABLES
    life,    \* generation -> what has become of its create
    bill,    \* owner -> slug -> the bytes billed
    held,    \* generation -> the uploads a visitor may ask for, and their bytes
    outcome  \* request -> what it was answered, for good

bookVars == <<life, bill, held, outcome>>

Lives == {"new", "reserved", "shown", "down", "over"}
Nothing == [uploads |-> {}, bytes |-> 0]

Of(p) == Requests[p].gen
SameAccount(g, h) == Creates[g].owner = Creates[h].owner /\ Creates[g].slug = Creates[h].slug
Billed(g) == bill[Creates[g].owner][Creates[g].slug]
BilledInAll(o) == Total(bill[o])
Pays(g) == life[g] \in {"reserved", "shown", "down"}

Becomes(g, stage) == life' = [life EXCEPT ![g] = stage]
Bills(g, bytes) == bill' = [bill EXCEPT ![Creates[g].owner][Creates[g].slug] = bytes]
Holds(g, uploads, bytes) == held' = [held EXCEPT ![g] = [uploads |-> uploads, bytes |-> bytes]]
Answers(p, answer) == outcome[p] = "none" /\ outcome' = [outcome EXCEPT ![p] = answer]

BookInit ==
    /\ life = [g \in Generation |-> "new"]
    /\ bill = [o \in Owner |-> [s \in Slug |-> 0]]
    /\ held = [g \in Generation |-> Nothing]
    /\ outcome = [p \in Op |-> "none"]

-----------------------------------------------------------------------------
\* A create is turned away ...
TurnAway(g) == life[g] = "new" /\ Becomes(g, "over") /\ UNCHANGED <<bill, held, outcome>>

\* ... or pays for its upload, if nobody has the slug on this owner's bill.
Reserve(g) ==
    /\ life[g] = "new" /\ \A h \in Generation : Pays(h) => ~SameAccount(g, h)
    /\ BilledInAll(Creates[g].owner) + Creates[g].size <= UserCap
    /\ Becomes(g, "reserved") /\ Bills(g, Creates[g].size)
    /\ UNCHANGED <<held, outcome>>

Show(g) ==
    /\ life[g] = "reserved" /\ Creates[g].size <= Billed(g)
    /\ \A h \in Generation : life[h] = "shown" => Creates[h].slug # Creates[g].slug
    /\ Becomes(g, "shown") /\ Holds(g, {g}, Creates[g].size)
    /\ UNCHANGED <<bill, outcome>>

\* Never below what is shown, and up only within the quota.
Rebill(g) ==
    LET left == UserCap - (BilledInAll(Creates[g].owner) - Billed(g)) IN
    /\ Pays(g)
    /\ \/ \E bytes \in held[g].bytes .. Billed(g) : Bills(g, bytes)
       \/ \E bytes \in held[g].bytes .. left : Bills(g, bytes)
    /\ UNCHANGED <<life, held, outcome>>

\* An append is shown once it is paid for, and answered with that.
Publish(p) ==
    LET g == Of(p) IN
    /\ Requests[p].kind = "append" /\ Answers(p, "ok")
    /\ life[g] = "shown" /\ p \notin held[g].uploads
    /\ \E bytes \in held[g].bytes .. Billed(g) : Holds(g, held[g].uploads \union {p}, bytes)
    /\ UNCHANGED <<life, bill>>

Refuse(p) ==
    /\ Requests[p].kind = "append"
    /\ Answers(p, "over-quota") \/ Answers(p, "too-large")
    /\ UNCHANGED <<life, bill, held>>

\* A version goes, and another stays.
Retire(p) ==
    LET g == Of(p) IN
    /\ Requests[p].kind = "deleteVersion" /\ Answers(p, "ok")
    /\ life[g] = "shown"
    /\ \E u \in held[g].uploads, bytes \in 0 .. held[g].bytes :
         held[g].uploads # {u} /\ Holds(g, held[g].uploads \ {u}, bytes)
    /\ UNCHANGED <<life, bill>>

TakeDown(p) ==
    /\ Requests[p].kind \in {"remove", "fail"} /\ Answers(p, "ok")
    /\ life[Of(p)] = "shown" /\ Becomes(Of(p), "down") /\ Holds(Of(p), {}, 0)
    /\ UNCHANGED bill

\* A request that changes nothing a visitor may ask for.
Acknowledge(p) ==
    /\ Answers(p, "ok")
    /\ \/ Requests[p].kind = "pin"
       \/ Requests[p].kind \in {"deleteVersion", "remove", "fail"} /\ life[Of(p)] # "shown"
    /\ UNCHANGED <<life, bill, held>>

Release(g) ==
    /\ life[g] \in {"reserved", "down"}
    /\ Becomes(g, "over") /\ Bills(g, 0) /\ UNCHANGED <<held, outcome>>

BookNext ==
    \/ \E g \in Generation : TurnAway(g) \/ Reserve(g) \/ Show(g) \/ Rebill(g) \/ Release(g)
    \/ \E p \in Op : Publish(p) \/ Refuse(p) \/ Retire(p) \/ TakeDown(p) \/ Acknowledge(p)

BookSpec == BookInit /\ [][BookNext]_bookVars
=============================================================================
