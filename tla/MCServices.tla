----------------------------- MODULE MCServices -----------------------------
(***************************************************************************)
(* The cells and streams that share no state with the ledgers, for TLC:    *)
(* the moved cell, the relay and the push schedule of a room, the TURN     *)
(* cell, a response body, the pod link, the change feed, the gate of the   *)
(* SSH sessions, the redeploys of a site and the delayed purges.  They     *)
(* share none with each other either, so no behaviour of one depends on    *)
(* another, and running them together would multiply their states to no    *)
(* end.  A behaviour therefore chooses one of them at its start and only   *)
(* that one moves.                                                         *)
(***************************************************************************)
EXTENDS CellMove, RoomRelay, RoomPush, TurnBudget, BodyStream, PodLink,
        ChangeFeed, SessionGate, Redeploy, Repurging

VARIABLE cell \* the one that runs in this behaviour

services == <<cell, moveVars, relayVars, pushVars, turnVars, bodyVars, podVars,
             feedVars, gateVars, redeployVars, repurgeVars>>

ItemInstants == [i \in Items |-> IF i \in Daily THEN 1 ELSE 2]

ObjectSizes == [f \in Files |-> IF f = "b" THEN 2 ELSE 1]

\* What a behaviour of the feed, or of the gate, does.
Feeding(q, t, p, l) == [requests |-> q, touches |-> t, polls |-> p, lost |-> l]
FeedWorks == {Feeding(2, 0, 0, 1), Feeding(0, 4, 0, 1), Feeding(0, 3, 1, 0)}

Gating(d, r, s, l) == [list |-> d, refreshes |-> r, sessions |-> s, lost |-> l]
GateWorks == {Gating(2, 2, 0, 0), Gating(1, 1, 1, 0), Gating(0, 0, 2, 2)}

\* One network in two spellings, and another.
Networks == {<< << <<0, 1>>, <<1, 0>> >>, 3>>, << << <<0, 1>>, <<1, 1>> >>, 3>>,
             << << <<0, 1>>, <<0, 0>> >>, 2>>}

ServicesInit ==
    /\ cell \in {"move", "relay", "push", "turn", "body", "pod", "feed", "gate",
                "reuse", "repurge"}
    /\ MoveInit /\ RelayInit /\ PushInit /\ TurnInit /\ BodyInit /\ PodInit
    /\ FeedInit /\ GateInit /\ RedeployInit /\ RepurgingInit
    \* The initial states that only another service tells apart are one.
    /\ cell # "move" => source.kv = Keys
    /\ cell # "feed" => work = Feeding(2, 0, 0, 1) /\ row.stamp = CHOOSE s \in Stamps : TRUE
    /\ cell # "gate" => allowed = Gating(1, 1, 1, 0)

Moves == cell = "move" /\ MoveNext
    /\ UNCHANGED <<cell, relayVars, pushVars, turnVars, bodyVars, podVars, feedVars, gateVars, redeployVars, repurgeVars>>
Relays == cell = "relay" /\ RelayNext
    /\ UNCHANGED <<cell, moveVars, pushVars, turnVars, bodyVars, podVars, feedVars, gateVars, redeployVars, repurgeVars>>
Pushes == cell = "push" /\ PushNext
    /\ UNCHANGED <<cell, moveVars, relayVars, turnVars, bodyVars, podVars, feedVars, gateVars, redeployVars, repurgeVars>>
Turns == cell = "turn" /\ TurnNext
    /\ UNCHANGED <<cell, moveVars, relayVars, pushVars, bodyVars, podVars, feedVars, gateVars, redeployVars, repurgeVars>>
Streams == cell = "body" /\ BodyNext
    /\ UNCHANGED <<cell, moveVars, relayVars, pushVars, turnVars, podVars, feedVars, gateVars, redeployVars, repurgeVars>>
Linking == cell = "pod" /\ PodNext
    /\ UNCHANGED <<cell, moveVars, relayVars, pushVars, turnVars, bodyVars, feedVars, gateVars, redeployVars, repurgeVars>>
Feeds == cell = "feed" /\ FeedNext
    /\ UNCHANGED <<cell, moveVars, relayVars, pushVars, turnVars, bodyVars, podVars, gateVars, redeployVars, repurgeVars>>
Gates == cell = "gate" /\ GateNext
    /\ UNCHANGED <<cell, moveVars, relayVars, pushVars, turnVars, bodyVars, podVars, feedVars, redeployVars, repurgeVars>>
Redeploys == cell = "reuse" /\ RedeployNext
    /\ UNCHANGED <<cell, moveVars, relayVars, pushVars, turnVars, bodyVars, podVars, feedVars, gateVars, repurgeVars>>
Repurges == cell = "repurge" /\ RepurgingNext
    /\ UNCHANGED <<cell, moveVars, relayVars, pushVars, turnVars, bodyVars, podVars, feedVars, gateVars, redeployVars>>

ServicesNext == Moves \/ Relays \/ Pushes \/ Turns \/ Streams \/ Linking
                \/ Feeds \/ Gates \/ Redeploys \/ Repurges

\* The runtime fires a due alarm, answers its calls and serves a request it
\* took; the clock runs; a body and a cache put go on reading.
ServicesFair ==
    /\ WF_pushVars(cell = "push" /\ FireWorks) /\ WF_pushVars(cell = "push" /\ ClockRuns)
    /\ WF_turnVars(cell = "turn" /\ AlarmWorks) /\ WF_turnVars(cell = "turn" /\ IssueWorks)
    /\ WF_turnVars(cell = "turn" /\ ReadingAges)
    /\ WF_bodyVars(cell = "body" /\ BodyWorks) /\ WF_bodyVars(cell = "body" /\ PutWorks)

ServicesSpec == ServicesInit /\ [][ServicesNext]_services /\ ServicesFair
=============================================================================
