---------------------------- MODULE MCFrontEnds ------------------------------
(***************************************************************************)
(* The three ways in, for TLC: uploads over SSH, the creates of rooms over *)
(* the public routes, and a reader of a knowledge base.  They share no     *)
(* state, so a behaviour chooses one at its start and only that one moves, *)
(* as in MCServices.                                                       *)
(***************************************************************************)
EXTENDS MCUploads, MCKnowledgeBase, RoomCreation

VARIABLE part \* the one that runs in this behaviour

frontEnds == <<part, uploadVars, baseVars, creationVars>>

\* Two networks: two creates come from each, and two are at work at once.
TwoNetworks == [c \in Creates |-> IF c \in {"c1", "c2"} THEN "near" ELSE "far"]

FrontEndsInit ==
    /\ part \in {"uploads", "base", "rooms"}
    /\ Init /\ BaseInit /\ CreationInit
    \* The initial states that only another part tells apart are one.
    /\ part # "uploads" => [kind |-> kind, bounds |-> left] = Mix(Pastes, 0, 0, 0)
    /\ part # "base" => entries.seq = <<Root>> /\ budget = Reading(3, 0, 0)

Uploading == part = "uploads" /\ Next /\ UNCHANGED <<part, baseVars, creationVars>>
Browsing == part = "base" /\ BaseNext /\ UNCHANGED <<part, uploadVars, creationVars>>

\* Creates of one network are alike until they come, so they may as well come
\* in one order.
InOrder == \A pair \in {<<"c1", "c2">>, <<"c3", "c4">>} :
    stage'[pair[2]] # "new" => stage'[pair[1]] # "new"
Creating ==
    /\ part = "rooms" /\ CreationNext /\ InOrder
    /\ UNCHANGED <<part, uploadVars, baseVars>>

FrontEndsNext == Uploading \/ Browsing \/ Creating

\* That of UploadLifecycle and of KnowledgeBase.
FrontEndsFair ==
    /\ \A u \in Uploads :
          /\ WF_uploadVars(part = "uploads" /\ Running /\ Session(u))
          /\ WF_uploadVars(part = "uploads" /\ Running /\ Background(u))
    /\ WF_baseVars(part = "base" /\ PageAnswers)
    /\ WF_baseVars(part = "base" /\ TimerRuns)
    /\ WF_baseVars(part = "base" /\ Walks)

FrontEndsSpec == FrontEndsInit /\ [][FrontEndsNext]_frontEnds /\ FrontEndsFair
=============================================================================
