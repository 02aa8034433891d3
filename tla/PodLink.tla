------------------------------ MODULE PodLink -------------------------------
(***************************************************************************)
(* Linking a Solid pod (worker/src/solid/link.js, the pod and link         *)
(* operations of worker/src/cells/identity.js) and the payload store that  *)
(* reads the link of an object (worker/src/solid/pod.js).                  *)
(*                                                                         *)
(* A link is started by the owner's key and opened in a browser, which may *)
(* press Continue several times and sign in at each.  A callback reads the *)
(* link, talks to the provider and to the pod, and then completes the link *)
(* in its cell and sets the pod in the owner's: requests of several        *)
(* logins, several links and `pod unlink` run in between.                  *)
(*                                                                         *)
(* Abstractions.  One owner.  The provider and the pod are external: they  *)
(* answer, refuse or are not reached.  The secret of the link and the PKCE *)
(* verifier decide only whether a request is made.  A request that stops   *)
(* is one that is never continued.                                         *)
(***************************************************************************)
EXTENDS Naturals, FiniteSets, Sequences, SequencesExt

CONSTANTS
    Links,
    Logins,    \* presses of Continue
    Storages,  \* the storages of the WebID
    Isolates,  \* Worker isolates, each with its cache of links
    Attempts   \* LINK_LOGIN_ATTEMPTS

ASSUME PodAssumption == Attempts \in Nat \ {0}

VARIABLES
    link,     \* link -> its record
    login,    \* press -> its request
    pod,      \* the owner's pod
    shared,   \* storages whose hostthis/ folder is shared with hostthis
    isolate,  \* isolate -> link -> the storage it read
    objects   \* uploads stored in a pod: <<link, storage>>

podVars == <<link, login, pod, shared, isolate, objects>>

NoStorage == "none"
NoPod == [id |-> NoStorage, storage |-> NoStorage]
NoLink == [state |-> "none", logins |-> <<>>, storage |-> NoStorage, expired |-> FALSE]
NoLogin == [stage |-> "none", link |-> NoStorage, storage |-> NoStorage]

PodInit ==
    /\ link = [l \in Links |-> NoLink]
    /\ login = [g \in Logins |-> NoLogin]
    /\ pod = NoPod /\ shared = {} /\ objects = {}
    /\ isolate = [i \in Isolates |-> [l \in Links |-> NoStorage]]

\* linkStart: once.
LinkStart(l) ==
    /\ link[l].state = "none"
    /\ link' = [link EXCEPT ![l].state = "pending"]
    /\ UNCHANGED <<login, pod, shared, isolate, objects>>

LinkExpires(l) ==
    /\ link[l].state = "pending" /\ ~link[l].expired
    /\ link' = [link EXCEPT ![l].expired = TRUE]
    /\ UNCHANGED <<login, pod, shared, isolate, objects>>

LiveLink(l) == link[l].state = "pending" /\ ~link[l].expired

-----------------------------------------------------------------------------
(* beginLogin. *)

\* The link is live; the profile and the provider are read after that.
Continue(g) == \E l \in Links, s \in Storages :
    /\ login[g].stage = "none" /\ LiveLink(l)
    /\ login' = [login EXCEPT ![g] = [stage |-> "chosen", link |-> l, storage |-> s]]
    /\ UNCHANGED <<link, pod, shared, isolate, objects>>

Latest(logins) == SubSeq(logins, IF Len(logins) > Attempts THEN 2 ELSE 1, Len(logins))

To(g, stage) == login' = [login EXCEPT ![g].stage = stage]

\* linkBegin: the last few logins stay valid.
LinkBegin(g) ==
    LET l == login[g].link IN
    /\ login[g].stage = "chosen"
    /\ IF link[l].state = "pending"
       THEN /\ link' = [link EXCEPT ![l].logins = Latest(Append(@, g))]
            /\ To(g, "redirected")
       ELSE UNCHANGED link /\ To(g, "over")
    /\ UNCHANGED <<pod, shared, isolate, objects>>

-----------------------------------------------------------------------------
(* callback. *)

CallbackStarts(g) ==
    LET l == login[g].link IN
    /\ login[g].stage = "redirected"
    /\ To(g, IF LiveLink(l) /\ g \in ToSet(link[l].logins) THEN "exchanging" ELSE "over")
    /\ UNCHANGED <<link, pod, shared, isolate, objects>>

\* The provider refuses the code, the token names another WebID, or it is the
\* owner's.
TokenAnswered(g) ==
    /\ login[g].stage = "exchanging"
    /\ \/ To(g, "signedin")
       \/ To(g, "over")
    /\ UNCHANGED <<link, pod, shared, isolate, objects>>

\* shareContainer: a refusal may come after the rule was written.
Shares(g) ==
    /\ login[g].stage = "signedin"
    /\ \/ shared' = shared \union {login[g].storage} /\ (To(g, "shared") \/ To(g, "over"))
       \/ shared' = shared /\ To(g, "over")
    /\ UNCHANGED <<link, pod, isolate, objects>>

\* linkComplete: once, with the storage of the login that got here first.
MayCompleteAgain(l) == link[l].state \in {"pending", "linked"}

MayComplete(l) == link[l].state = "pending"

LinkComplete(g) ==
    LET l == login[g].link IN
    /\ login[g].stage = "shared"
    /\ IF MayComplete(l)
       THEN /\ link' = [link EXCEPT ![l] = [NoLink EXCEPT !.state = "linked", !.storage = login[g].storage]]
            /\ To(g, "linked") \/ To(g, "over")
       ELSE UNCHANGED link /\ To(g, "over")
    /\ UNCHANGED <<pod, shared, isolate, objects>>

PodSet(g) ==
    /\ login[g].stage = "linked"
    /\ pod' = [id |-> login[g].link, storage |-> login[g].storage]
    /\ To(g, "over")
    /\ UNCHANGED <<link, shared, isolate, objects>>

PodClear ==
    /\ pod # NoPod /\ pod' = NoPod
    /\ UNCHANGED <<link, login, shared, isolate, objects>>

-----------------------------------------------------------------------------
(* The payload store. *)

\* podBase: an isolate keeps the storage of a linked record it has read.
PodBase(i, l) == IF isolate[i][l] # NoStorage THEN isolate[i][l]
                 ELSE IF link[l].state = "linked" THEN link[l].storage ELSE NoStorage

\* An upload of the owner names the link in its id, and is put through it.
PodPut(i) ==
    LET l == pod.id IN
    /\ pod # NoPod /\ PodBase(i, l) # NoStorage
    /\ isolate' = [isolate EXCEPT ![i][l] = PodBase(i, l)]
    /\ objects' = objects \union {<<l, PodBase(i, l)>>}
    /\ UNCHANGED <<link, login, pod, shared>>

LoginStep(g) ==
    Continue(g) \/ LinkBegin(g) \/ CallbackStarts(g) \/ TokenAnswered(g) \/ Shares(g)
    \/ LinkComplete(g) \/ PodSet(g)

PodNext ==
    \/ \E l \in Links : LinkStart(l) \/ LinkExpires(l)
    \/ \E g \in Logins : LoginStep(g)
    \/ PodClear \/ \E i \in Isolates : PodPut(i)

-----------------------------------------------------------------------------
\* Whatever logins and links run against each other, the owner's pod is the
\* storage its link was completed with, which a sign-in through that link has
\* shared, and every isolate finds an object of the link where another put it
\* (identity.js linkComplete, pod.js podBase).
PodBound ==
    /\ pod # NoPod => /\ link[pod.id].state = "linked" /\ link[pod.id].storage = pod.storage
                      /\ pod.storage \in shared
    /\ \A o \in objects, i \in Isolates : PodBase(i, o[1]) = o[2]
=============================================================================
