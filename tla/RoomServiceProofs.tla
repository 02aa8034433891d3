------------------------- MODULE RoomServiceProofs --------------------------
(***************************************************************************)
(* Proofs about the services of a room, for all their constants.           *)
(*                                                                         *)
(* The rooms of an app, and those made in a window, exceed their limits by *)
(* a known number.  A create that passed the preflight and is not recorded *)
(* yet is a room the app will have.  The rooms and these together pass the *)
(* limit by at most the others at work, because a create passes only while *)
(* the rooms alone are below it.  So it is with a window and the creates   *)
(* its count let in, and more: a create counts what the ledger still       *)
(* holds, which is whatever was recorded within Window of the clock now,   *)
(* and the clock is MaxFlight past the create's own at most, so a create   *)
(* misses nothing of a window shorter by MaxFlight.                        *)
(*                                                                         *)
(* A client of the relay converges: the views it will pass through as it   *)
(* reads the frames on their way end at the document, or at a gap, for     *)
(* which it leaves.  A TURN credential is forgotten only when it is spent: *)
(* a run drops from the list only what has expired or what it revoked.  A  *)
(* reminder is sent once: the schedule is advanced past whatever is sent   *)
(* before it is sent, and no advance, save or restart takes it back.  What *)
(* a run or a fire leaves to do has an alarm (TurnWatched, PushArmed).     *)
(***************************************************************************)
EXTENDS RoomCreation, RoomRelay, TurnBudget, RoomPush,
        TotalsProofs, SequenceTheorems, FiniteSetTheorems, TLAPS

(* The creation of a room *)

Stages == {"new", "asked", "counted", "free", "recorded", "made", "lost", "removed", "refused"}

\* The creates the app has let through and not recorded yet.
Passed == {c \in Creates : stage[c] = "free"}

CreationTypes == stage \in [Creates -> Stages] /\ total \in Int

\* No more creates are at work than may be.
AtWork == IsFiniteSet(Working) /\ Cardinality(Working) <= Together

CreationInv ==
    /\ CreationTypes /\ AtWork
    /\ total + Cardinality(Passed) <= RoomLimit + Together - 1

-----------------------------------------------------------------------------

\* Those that passed are at work (routes.js createRoom).
LEMMA PassedFinite ==
  ASSUME AtWork
  PROVE  /\ IsFiniteSet(Passed) /\ Cardinality(Passed) \in Nat
         /\ Cardinality(Working) \in Nat /\ Cardinality(Passed) <= Cardinality(Working)
<1>1. Passed \subseteq Working
  BY DEF Passed, Working
<1>2. QED
  BY <1>1, FS_Subset, FS_CardinalityType DEF AtWork

\* A create goes from one stage to another.
LEMMA Moved ==
  ASSUME CreationTypes, NEW c \in Creates, NEW where \in Stages, Goes(c, where)
  PROVE  /\ stage' \in [Creates -> Stages] /\ stage'[c] = where
         /\ \A d \in Creates \ {c} : stage'[d] = stage[d]
BY DEF Goes, CreationTypes

\* A create at work goes on, or ends: nobody else is at work after it.
LEMMA WorkOn ==
  ASSUME AtWork, NEW c \in Working, \A d \in Creates \ {c} : stage'[d] = stage[d]
  PROVE  AtWork'
<1>1. Working' \subseteq Working
  BY DEF Working
<1>2. IsFiniteSet(Working') /\ Cardinality(Working') <= Cardinality(Working)
  BY <1>1, FS_Subset DEF AtWork
<1>3. Cardinality(Working') \in Nat /\ Cardinality(Working) \in Nat /\ Together \in Nat
  BY <1>2, FS_CardinalityType, CreationAssumption DEF AtWork
<1>4. QED
  BY <1>2, <1>3 DEF AtWork

\* A step that lets nobody pass the preflight and makes no room keeps the bound.
LEMMA NoneMore ==
  ASSUME CreationInv, AtWork', CreationTypes', Passed' \subseteq Passed, total' <= total
  PROVE  CreationInv'
<1>1. Cardinality(Passed') <= Cardinality(Passed)
  BY PassedFinite, FS_Subset DEF CreationInv
<1>2. Cardinality(Passed) \in Nat /\ Cardinality(Passed') \in Nat
  BY PassedFinite, <1>1, FS_Subset, FS_CardinalityType DEF CreationInv
<1>3. QED
  BY <1>1, <1>2, CreationAssumption DEF CreationInv, CreationTypes

-----------------------------------------------------------------------------
(* The steps. *)

LEMMA AsksKeeps == ASSUME CreationInv, NEW c \in Creates, Asks(c) PROVE CreationInv'
<1>1. /\ stage[c] = "new" /\ Cardinality(Working) < Together /\ total' = total
      /\ stage' \in [Creates -> Stages] /\ stage'[c] = "asked"
      /\ \A d \in Creates \ {c} : stage'[d] = stage[d]
  BY Moved DEF Asks, CreationInv, Stages
<1>2. Working' = Working \union {c} /\ c \notin Working
  BY <1>1 DEF Working
<1>3. /\ IsFiniteSet(Working') /\ Cardinality(Working') = Cardinality(Working) + 1
      /\ Cardinality(Working) \in Nat
  BY <1>2, FS_AddElement, FS_CardinalityType DEF CreationInv, AtWork
<1>4. AtWork'
  BY <1>1, <1>3, CreationAssumption DEF AtWork
<1>5. Passed' \subseteq Passed /\ total' <= total /\ CreationTypes'
  BY <1>1 DEF Passed, CreationInv, CreationTypes
<1>6. QED
  BY <1>4, <1>5, NoneMore

\* A create that is counted, refused or fails.
LEMMA EndsKeeps ==
  ASSUME CreationInv, NEW c \in Working, NEW where \in Stages \ {"free"}, Goes(c, where),
         UNCHANGED total
  PROVE  CreationInv'
<1>1. c \in Creates
  BY DEF Working
<1>2. /\ stage' \in [Creates -> Stages] /\ stage'[c] = where
      /\ \A d \in Creates \ {c} : stage'[d] = stage[d]
  BY <1>1, Moved DEF CreationInv
<1>3. AtWork'
  BY <1>2, WorkOn DEF CreationInv
<1>4. Passed' \subseteq Passed /\ total' <= total /\ CreationTypes'
  BY <1>2 DEF Passed, CreationInv, CreationTypes
<1>5. QED
  BY <1>3, <1>4, NoneMore

LEMMA PreflightKeeps == ASSUME CreationInv, NEW c \in Creates, Preflight(c) PROVE CreationInv'
<1>1. c \in Working /\ stage[c] = "counted" /\ total' = total
  BY DEF Preflight, Working
<1>2. CASE AppFull
  BY <1>1, <1>2, EndsKeeps DEF Preflight, Stages
<1>3. CASE ~AppFull
  <2>1. /\ stage' \in [Creates -> Stages] /\ stage'[c] = "free"
        /\ \A d \in Creates \ {c} : stage'[d] = stage[d]
    BY <1>3, Moved DEF Preflight, CreationInv, Stages
  <2>2. AtWork'
    BY <1>1, <2>1, WorkOn DEF CreationInv
  <2>3. Cardinality(Passed') \in Nat /\ Cardinality(Passed') <= Together
    <3>1. /\ IsFiniteSet(Working') /\ Cardinality(Working') <= Together /\ Passed' \subseteq Working'
      BY <2>2 DEF AtWork, Passed, Working
    <3>2. Cardinality(Working') \in Nat /\ Cardinality(Passed') \in Nat
          /\ Cardinality(Passed') <= Cardinality(Working')
      BY <3>1, FS_Subset, FS_CardinalityType
    <3>3. QED
      BY <3>1, <3>2, CreationAssumption
  <2>4. total <= RoomLimit - 1 /\ total \in Int
    BY <1>3, CreationAssumption DEF AppFull, CreationInv, CreationTypes
  <2>5. QED
    BY <1>1, <2>1, <2>2, <2>3, <2>4, CreationAssumption DEF CreationInv, CreationTypes
<1>4. QED
  BY <1>2, <1>3

LEMMA RecordKeeps == ASSUME CreationInv, NEW c \in Creates, RoomCreated(c) PROVE CreationInv'
<1>1. /\ c \in Working /\ stage[c] = "free" /\ total' = total + 1
      /\ stage' \in [Creates -> Stages] /\ stage'[c] \in {"recorded", "lost"}
      /\ \A d \in Creates \ {c} : stage'[d] = stage[d]
  BY Moved DEF RoomCreated, Working, CreationInv, Stages
<1>2. AtWork'
  BY <1>1, WorkOn DEF CreationInv
<1>3. Passed' = Passed \ {c} /\ c \in Passed
  BY <1>1 DEF Passed
<1>4. /\ Cardinality(Passed') = Cardinality(Passed) - 1
      /\ Cardinality(Passed) \in Nat
  BY <1>3, PassedFinite, FS_RemoveElement DEF CreationInv
<1>5. QED
  BY <1>1, <1>2, <1>4, CreationAssumption DEF CreationInv, CreationTypes

LEMMA RemovedKeeps == ASSUME CreationInv, NEW c \in Creates, Removed(c) PROVE CreationInv'
<1>1. /\ stage[c] = "made" /\ total' = total - 1
      /\ stage' \in [Creates -> Stages] /\ stage'[c] = "removed"
      /\ \A d \in Creates \ {c} : stage'[d] = stage[d]
  BY Moved DEF Removed, CreationInv, Stages
<1>2. Working' = Working /\ Passed' = Passed
  BY <1>1 DEF Working, Passed
<1>3. AtWork' /\ CreationTypes' /\ total' <= total
  BY <1>1, <1>2 DEF AtWork, CreationInv, CreationTypes
<1>4. QED
  BY <1>2, <1>3, NoneMore

LEMMA QuietKeeps == ASSUME CreationInv, UNCHANGED <<stage, total>> PROVE CreationInv'
BY DEF CreationInv, CreationTypes, AtWork, Working, Passed

LEMMA InitCreation == CreationInit => CreationInv
<1> SUFFICES ASSUME CreationInit PROVE CreationInv
  OBVIOUS
<1>1. Working = {} /\ Passed = {}
  BY DEF CreationInit, Working, Passed
<1>2. QED
  BY <1>1, FS_EmptySet, CreationAssumption DEF CreationInit, CreationInv, CreationTypes, AtWork, Stages

LEMMA NextCreation == CreationInv /\ [CreationNext]_creationVars => CreationInv'
<1> SUFFICES ASSUME CreationInv, [CreationNext]_creationVars PROVE CreationInv'
  OBVIOUS
<1>1. ASSUME NEW c \in Creates, Counts(c) \/ Saves(c) \/ Fails(c) PROVE CreationInv'
  <2>1. c \in Working /\ UNCHANGED total
    BY <1>1 DEF Counts, Saves, Fails, Working
  <2>2. \E where \in {"counted", "made", "lost", "refused"} : Goes(c, where)
    BY <1>1 DEF Counts, Saves, Fails
  <2>3. QED
    BY <2>1, <2>2, EndsKeeps DEF Stages
<1>2. ASSUME NEW c \in Creates,
             Asks(c) \/ Preflight(c) \/ RoomCreated(c) \/ Removed(c)
      PROVE  CreationInv'
  BY <1>2, AsksKeeps, PreflightKeeps, RecordKeeps, RemovedKeeps
<1>3. CASE Ticks \/ UNCHANGED creationVars
  BY <1>3, QuietKeeps DEF Ticks, creationVars
<1>4. QED
  BY <1>1, <1>2, <1>3 DEF CreationNext

-----------------------------------------------------------------------------
(* The rates. *)

\* The creates whose count let them in.
LetIn == {c \in Creates : stage[c] \in {"counted", "free", "recorded", "made", "lost", "removed"}}

\* Those of them that came in the window before t and belong to S.
Slots(S, t) == {c \in LetIn \cap S : t - (Window - MaxFlight) < came[c] /\ came[c] <= t}
Network(s) == {c \in Creates : SubnetOf[c] = s}

Clocked ==
    /\ instant \in Int /\ came \in [Creates -> Int]
    /\ \A c \in Creates : /\ came[c] <= instant
                          /\ stage[c] = "asked" => instant - came[c] <= MaxFlight

\* The ledger holds what was recorded within the window of the clock now.
Kept ==
    /\ IsFiniteSet(ledger)
    /\ \A e \in Recorded : instant - came[e] < Window => e \in ledger

Bounded(S, limit) == \A t \in Int : Cardinality(Slots(S, t)) <= limit + Together - 1

Rated ==
    /\ IsFiniteSet(LetIn)
    /\ Bounded(Creates, PerApp)
    /\ \A s \in SubnetsIn(Creates) : Bounded(Network(s), PerSubnet)

RatesInv == CreationInv /\ Clocked /\ Kept /\ Rated

LEMMA SlotsFinite ==
  ASSUME IsFiniteSet(LetIn), NEW S, NEW t
  PROVE  IsFiniteSet(Slots(S, t)) /\ Cardinality(Slots(S, t)) \in Nat
<1>1. Slots(S, t) \subseteq LetIn
  BY DEF Slots
<1>2. QED
  BY <1>1, FS_Subset, FS_CardinalityType

\* What a step that lets nobody in leaves of the bounds.
LEMMA NobodyLetIn ==
  ASSUME Rated, \A d \in LetIn' : d \in LetIn /\ came'[d] = came[d]
  PROVE  Rated'
<1>1. LetIn' \subseteq LetIn
  OBVIOUS
<1>2. IsFiniteSet(LetIn')
  BY <1>1, FS_Subset DEF Rated
<1>3. ASSUME NEW S, NEW t, NEW most \in Int, Cardinality(Slots(S, t)) <= most
      PROVE  Cardinality(Slots(S, t)') <= most
  <2>1. Slots(S, t)' \subseteq Slots(S, t)
    BY DEF Slots
  <2>2. /\ IsFiniteSet(Slots(S, t)) /\ Cardinality(Slots(S, t)) \in Nat
    BY SlotsFinite DEF Rated
  <2>3. /\ Cardinality(Slots(S, t)') <= Cardinality(Slots(S, t))
        /\ IsFiniteSet(Slots(S, t)')
    BY <2>1, <2>2, FS_Subset
  <2>4. Cardinality(Slots(S, t)') \in Nat
    BY <2>3, FS_CardinalityType
  <2>5. QED
    BY <1>3, <2>2, <2>3, <2>4
<1>4. PerApp + Together - 1 \in Int /\ PerSubnet + Together - 1 \in Int
  BY CreationAssumption
<1>5. ASSUME NEW t \in Int PROVE Cardinality(Slots(Creates, t)') <= PerApp + Together - 1
  BY <1>3, <1>4 DEF Rated, Bounded
<1>6. ASSUME NEW s \in SubnetsIn(Creates), NEW t \in Int
      PROVE  Cardinality(Slots(Network(s), t)') <= PerSubnet + Together - 1
  BY <1>3, <1>4 DEF Rated, Bounded
<1>7. QED
  BY <1>2, <1>5, <1>6 DEF Rated, Bounded

\* A create that is let in finds at most the limit less one recorded beside it,
\* and the rest of the window is at work with it.
LEMMA OneLetIn ==
  ASSUME RatesInv, NEW c \in Creates, stage[c] = "asked",
         NEW S \in SUBSET Creates, c \in S, NEW limit \in Nat \ {0},
         Cardinality(Live(c) \cap S) < limit,
         NEW t \in Int, t - (Window - MaxFlight) < came[c], came[c] <= t
  PROVE  Cardinality(Slots(S, t) \union {c}) <= limit + Together - 1
<1> DEFINE made == {e \in Recorded \cap S : t - (Window - MaxFlight) < came[e] /\ came[e] <= t}
           through == {e \in Slots(S, t) : stage[e] \in {"counted", "free"}}
<1>1. made \subseteq Live(c) \cap S
  <2> SUFFICES ASSUME NEW e \in made PROVE e \in Live(c)
    OBVIOUS
  <2>1. /\ came[e] \in Int /\ came[c] \in Int /\ instant \in Int
        /\ instant - came[c] <= MaxFlight
        /\ t - (Window - MaxFlight) < came[e]
    BY DEF RatesInv, Clocked, Recorded
  <2>2. instant - came[e] < Window /\ came[c] - came[e] < Window
    BY <2>1, CreationAssumption
  <2>3. e \in ledger
    BY <2>2 DEF RatesInv, Kept
  <2>4. QED
    BY <2>2, <2>3 DEF Live
<1>2. IsFiniteSet(Live(c) \cap S)
  <2>1. Live(c) \cap S \subseteq ledger
    BY DEF Live
  <2>2. QED
    BY <2>1, FS_Subset DEF RatesInv, Kept
<1>3. IsFiniteSet(made) /\ Cardinality(made) \in Nat /\ Cardinality(made) <= limit - 1
  <2>1. IsFiniteSet(made) /\ Cardinality(made) <= Cardinality(Live(c) \cap S)
    BY <1>1, <1>2, FS_Subset
  <2>2. Cardinality(made) \in Nat /\ Cardinality(Live(c) \cap S) \in Nat
    BY <1>2, <2>1, FS_CardinalityType
  <2>3. QED
    BY <2>1, <2>2
<1>4. /\ IsFiniteSet(through \union {c})
      /\ Cardinality(through \union {c}) \in Nat
      /\ Cardinality(through \union {c}) <= Together
  <2>1. through \union {c} \subseteq Working
    BY DEF Slots, LetIn, Working
  <2>2. IsFiniteSet(Working) /\ Cardinality(Working) \in Nat /\ Cardinality(Working) <= Together
    BY FS_CardinalityType DEF RatesInv, CreationInv, AtWork
  <2>3. /\ IsFiniteSet(through \union {c})
        /\ Cardinality(through \union {c}) <= Cardinality(Working)
    BY <2>1, <2>2, FS_Subset
  <2>4. Cardinality(through \union {c}) \in Nat
    BY <2>3, FS_CardinalityType
  <2>5. QED
    BY <2>2, <2>3, <2>4, CreationAssumption
<1>5. Slots(S, t) \union {c} = made \union (through \union {c})
  BY DEF Slots, LetIn, Recorded
<1>6. made \cap (through \union {c}) = {}
  BY DEF Recorded
<1> HIDE DEF made, through
<1>7. Cardinality(made \union (through \union {c}))
        = Cardinality(made) + Cardinality(through \union {c})
          - Cardinality(made \cap (through \union {c}))
  BY <1>3, <1>4, FS_Union
<1>8. Cardinality(made \cap (through \union {c})) = 0
  BY <1>6, FS_EmptySet
<1>9. Together \in Nat
  BY CreationAssumption
<1>10. Cardinality(Slots(S, t) \union {c}) = Cardinality(made) + Cardinality(through \union {c})
  <2>1. Cardinality(Slots(S, t) \union {c}) = Cardinality(made \union (through \union {c}))
    BY <1>5
  <2>2. QED
    BY <2>1, <1>3, <1>4, <1>7, <1>8
<1>11. QED
  BY <1>3, <1>4, <1>9, <1>10

\* The create's count, over the network of the create and over the app.
LEMMA CountRates == ASSUME RatesInv, NEW c \in Creates, Counts(c) PROVE Rated'
<1>1. /\ stage[c] = "asked" /\ came' = came
      /\ stage' \in [Creates -> Stages]
      /\ \A d \in Creates \ {c} : stage'[d] = stage[d]
  BY Moved DEF Counts, RatesInv, CreationInv, Stages
<1>2. CASE stage'[c] # "counted"
  <2>1. stage'[c] = "refused"
    BY <1>1, <1>2 DEF Counts, Goes, RatesInv, CreationInv, CreationTypes
  <2>2. \A d \in LetIn' : d \in LetIn /\ came'[d] = came[d]
    BY <1>1, <2>1 DEF LetIn
  <2>3. QED
    BY <2>2, NobodyLetIn DEF RatesInv
<1>3. CASE stage'[c] = "counted"
  <2> DEFINE near == {e \in Live(c) : SubnetOf[e] = SubnetOf[c]}
  <2>1. ~(Cardinality(near) >= PerSubnet \/ Cardinality(Live(c)) >= PerApp)
    BY <1>3 DEF Counts, Goes, RatesInv, CreationInv, CreationTypes
  <2>2. /\ IsFiniteSet(Live(c)) /\ Cardinality(Live(c)) \in Nat
        /\ IsFiniteSet(near) /\ Cardinality(near) \in Nat
    <3>1. Live(c) \subseteq ledger /\ near \subseteq Live(c)
      BY DEF Live
    <3>2. QED
      BY <3>1, FS_Subset, FS_CardinalityType DEF RatesInv, Kept
  <2>3. Cardinality(Live(c)) < PerApp /\ Cardinality(near) < PerSubnet
    BY <2>1, <2>2, CreationAssumption
  <2>4. LetIn' = LetIn \union {c} /\ c \notin LetIn
    BY <1>1, <1>3 DEF LetIn
  <2>5. ASSUME NEW S \in SUBSET Creates, c \in S, NEW limit \in Nat \ {0},
               Cardinality(Live(c) \cap S) < limit, Bounded(S, limit)
        PROVE  Bounded(S, limit)'
    <3> SUFFICES ASSUME NEW t \in Int
                 PROVE  Cardinality(Slots(S, t)') <= limit + Together - 1
      BY DEF Bounded
    <3>1. CASE t - (Window - MaxFlight) < came[c] /\ came[c] <= t
      <4>1. Slots(S, t)' = Slots(S, t) \union {c}
        BY <1>1, <2>4, <2>5, <3>1 DEF Slots
      <4>2. QED
        BY <1>1, <2>5, <3>1, <4>1, OneLetIn
    <3>2. CASE ~(t - (Window - MaxFlight) < came[c] /\ came[c] <= t)
      <4>1. Slots(S, t)' = Slots(S, t)
        BY <1>1, <2>4, <3>2 DEF Slots
      <4>2. QED
        BY <2>5, <4>1 DEF Bounded
    <3>3. QED
      BY <3>1, <3>2
  <2>6. ASSUME NEW S, c \notin S, NEW limit, Bounded(S, limit) PROVE Bounded(S, limit)'
    <3>1. \A t \in Int : Slots(S, t)' = Slots(S, t)
      BY <1>1, <2>4, <2>6 DEF Slots
    <3>2. QED
      BY <2>6, <3>1 DEF Bounded
  <2>7. IsFiniteSet(LetIn')
    BY <2>4, FS_AddElement DEF RatesInv, Rated
  <2>8. Bounded(Creates, PerApp)'
    <3>1. Cardinality(Live(c) \cap Creates) < PerApp
      <4>1. /\ Live(c) \cap Creates \subseteq Live(c)
            /\ Cardinality(Live(c) \cap Creates) <= Cardinality(Live(c))
            /\ IsFiniteSet(Live(c) \cap Creates)
        BY <2>2, FS_Subset
      <4>2. Cardinality(Live(c) \cap Creates) \in Nat /\ PerApp \in Nat
        BY <4>1, FS_CardinalityType, CreationAssumption
      <4>3. QED
        BY <2>2, <2>3, <4>1, <4>2
    <3>2. Bounded(Creates, PerApp) /\ PerApp \in Nat \ {0}
      BY CreationAssumption DEF RatesInv, Rated
    <3>3. QED
      BY <2>5, <3>1, <3>2
  <2>9. ASSUME NEW s \in SubnetsIn(Creates) PROVE Bounded(Network(s), PerSubnet)'
    <3>1. Bounded(Network(s), PerSubnet) /\ PerSubnet \in Nat \ {0}
      BY CreationAssumption DEF RatesInv, Rated
    <3>2. CASE SubnetOf[c] = s
      <4>1. Live(c) \cap Network(s) \subseteq near
        BY <3>2 DEF Network
      <4>2. /\ IsFiniteSet(Live(c) \cap Network(s))
            /\ Cardinality(Live(c) \cap Network(s)) <= Cardinality(near)
        BY <2>2, <4>1, FS_Subset
      <4>3. Cardinality(Live(c) \cap Network(s)) \in Nat
        BY <4>2, FS_CardinalityType
      <4>4. Cardinality(Live(c) \cap Network(s)) < PerSubnet
        BY <2>2, <2>3, <3>1, <4>2, <4>3
      <4>5. Network(s) \in SUBSET Creates /\ c \in Network(s)
        BY <3>2 DEF Network
      <4>6. QED
        BY <2>5, <3>1, <4>4, <4>5
    <3>3. CASE SubnetOf[c] # s
      <4>1. c \notin Network(s)
        BY <3>3 DEF Network
      <4>2. QED
        BY <2>6, <3>1, <4>1
    <3>4. QED
      BY <3>2, <3>3
  <2>10. QED
    BY <2>7, <2>8, <2>9 DEF Rated
<1>4. QED
  BY <1>2, <1>3

\* The clock of a create is never ahead, and its count never later than
\* MaxFlight after it.
LEMMA ClockKeeps == ASSUME RatesInv, [CreationNext]_creationVars PROVE Clocked'
<1>1. ASSUME NEW c \in Creates, Asks(c) PROVE Clocked'
  <2>1. /\ came' = [came EXCEPT ![c] = instant] /\ instant' = instant
        /\ stage' \in [Creates -> Stages] /\ stage'[c] = "asked"
        /\ \A d \in Creates \ {c} : stage'[d] = stage[d]
    BY <1>1, Moved DEF Asks, RatesInv, CreationInv, Stages
  <2>2. QED
    BY <2>1, CreationAssumption DEF RatesInv, Clocked
<1>2. ASSUME NEW c \in Creates, NEW where \in Stages \ {"asked"}, Goes(c, where),
             UNCHANGED <<instant, came>>
      PROVE  Clocked'
  <2>1. /\ stage'[c] = where
        /\ \A d \in Creates \ {c} : stage'[d] = stage[d]
    BY <1>2, Moved DEF RatesInv, CreationInv
  <2>2. QED
    BY <1>2, <2>1 DEF RatesInv, Clocked
<1>3. ASSUME NEW c \in Creates,
             \/ Counts(c) \/ Preflight(c) \/ RoomCreated(c)
             \/ Saves(c) \/ Fails(c) \/ Removed(c)
      PROVE  Clocked'
  <2>1. /\ UNCHANGED <<instant, came>>
        /\ \E where \in Stages \ {"asked"} : Goes(c, where)
    BY <1>3 DEF Counts, Preflight, RoomCreated, Saves, Fails, Removed, Stages
  <2>2. QED
    BY <1>2, <2>1
<1>4. CASE Ticks
  BY <1>4, CreationAssumption DEF Ticks, RatesInv, Clocked
<1>5. CASE UNCHANGED creationVars
  BY <1>5 DEF creationVars, RatesInv, Clocked
<1>6. QED
  BY <1>1, <1>3, <1>4, <1>5 DEF CreationNext

\* A count drops nothing that a later one could ask for.
LEMMA LedgerKeeps == ASSUME RatesInv, [CreationNext]_creationVars PROVE Kept'
<1>1. ASSUME ledger' = ledger, instant' \in {instant, instant + 1},
             \A e \in Recorded' : e \in Recorded /\ came'[e] = came[e]
      PROVE  Kept'
  <2>1. ASSUME NEW e \in Recorded', instant' - came'[e] < Window PROVE e \in ledger'
    <3>1. e \in Recorded /\ came'[e] = came[e] /\ came[e] \in Int /\ instant \in Int
      BY <1>1 DEF RatesInv, Clocked, Recorded
    <3>2. instant - came[e] < Window
      BY <1>1, <2>1, <3>1, CreationAssumption
    <3>3. QED
      BY <1>1, <3>1, <3>2 DEF RatesInv, Kept
  <2>2. QED
    BY <1>1, <2>1 DEF RatesInv, Kept
<1>2. ASSUME NEW c \in Creates, Counts(c) PROVE Kept'
  <2>1. /\ ledger' = Live(c) /\ instant' = instant /\ came' = came
        /\ \E where \in {"counted", "refused"} : stage'[c] = where
        /\ \A d \in Creates \ {c} : stage'[d] = stage[d]
    BY <1>2, Moved DEF Counts, RatesInv, CreationInv, Stages
  <2>2. Recorded' \subseteq Recorded
    BY <2>1 DEF Recorded
  <2>3. ASSUME NEW e \in Recorded', instant' - came'[e] < Window PROVE e \in ledger'
    <3>1. /\ came[e] \in Int /\ came[c] \in Int /\ instant \in Int /\ came[c] <= instant
          /\ e \in ledger
      BY <2>1, <2>2, <2>3 DEF RatesInv, Clocked, Kept, Recorded
    <3>2. came[c] - came[e] < Window
      BY <2>1, <2>3, <3>1, CreationAssumption
    <3>3. QED
      BY <2>1, <3>1, <3>2 DEF Live
  <2>4. Live(c) \subseteq ledger
    BY DEF Live
  <2>5. IsFiniteSet(ledger')
    BY <2>1, <2>4, FS_Subset DEF RatesInv, Kept
  <2>6. QED
    BY <2>3, <2>5 DEF Kept
<1>3. ASSUME NEW c \in Creates, RoomCreated(c) PROVE Kept'
  <2>1. /\ ledger' = ledger \union {c} /\ instant' = instant /\ came' = came
        /\ \A d \in Creates \ {c} : stage'[d] = stage[d]
    BY <1>3, Moved DEF RoomCreated, RatesInv, CreationInv, Stages
  <2>2. IsFiniteSet(ledger')
    BY <2>1, FS_AddElement DEF RatesInv, Kept
  <2>3. Recorded' \subseteq Recorded \union {c}
    BY <2>1 DEF Recorded
  <2>4. QED
    BY <2>1, <2>2, <2>3 DEF RatesInv, Kept
<1>4. ASSUME NEW c \in Creates, Asks(c) \/ Preflight(c) \/ Fails(c) \/ Saves(c) \/ Removed(c)
      PROVE  Kept'
  <2>1. /\ ledger' = ledger /\ instant' = instant /\ came \in [Creates -> Int]
        /\ \A d \in Creates \ {c} : stage'[d] = stage[d] /\ came'[d] = came[d]
    BY <1>4, Moved DEF Asks, Preflight, Fails, Saves, Removed, RatesInv, CreationInv, Clocked, Stages
  <2>2. CASE stage[c] \in {"new", "counted", "asked", "free"}
    <3>1. stage'[c] \in {"asked", "free", "refused"}
      BY <1>4, <2>2, Moved DEF Asks, Preflight, Fails, Saves, Removed, RatesInv, CreationInv, Stages
    <3>2. \A e \in Recorded' : e \in Recorded /\ came'[e] = came[e]
      BY <2>1, <3>1 DEF Recorded
    <3>3. QED
      BY <1>1, <2>1, <3>2
  <2>3. CASE stage[c] \in {"recorded", "made"}
    <3>1. came' = came
      BY <1>4, <2>3 DEF Asks, Preflight, Fails, Saves, Removed
    <3>2. \A e \in Recorded' : e \in Recorded /\ came'[e] = came[e]
      BY <2>1, <2>3, <3>1 DEF Recorded
    <3>3. QED
      BY <1>1, <2>1, <3>2
  <2>4. QED
    BY <1>4, <2>2, <2>3 DEF Asks, Preflight, Fails, Saves, Removed
<1>5. CASE Ticks \/ UNCHANGED creationVars
  BY <1>1, <1>5 DEF Ticks, creationVars, Recorded
<1>6. QED
  BY <1>2, <1>3, <1>4, <1>5 DEF CreationNext

\* Only a count lets anybody in.
LEMMA RatesKeep == ASSUME RatesInv, [CreationNext]_creationVars PROVE Rated'
<1>1. ASSUME NEW c \in Creates,
             \/ Asks(c) \/ Preflight(c) \/ RoomCreated(c)
             \/ Saves(c) \/ Fails(c) \/ Removed(c)
      PROVE  Rated'
  <2>1. /\ came \in [Creates -> Int]
        /\ \A d \in Creates \ {c} : stage'[d] = stage[d] /\ came'[d] = came[d]
    BY <1>1, Moved DEF Asks, Preflight, RoomCreated, Fails, Saves, Removed,
                       RatesInv, CreationInv, Clocked, Stages
  <2>2. c \in LetIn' => c \in LetIn /\ came'[c] = came[c]
    <3>1. CASE stage[c] \in {"new", "asked"}
      <4>1. stage'[c] \in {"asked", "refused"}
        BY <1>1, <3>1, Moved DEF Asks, Preflight, RoomCreated, Fails, Saves, Removed,
                                 RatesInv, CreationInv, Stages
      <4>2. QED
        BY <4>1 DEF LetIn
    <3>2. CASE stage[c] \notin {"new", "asked"}
      <4>1. c \in LetIn /\ came' = came
        BY <1>1, <3>2 DEF Asks, Preflight, RoomCreated, Fails, Saves, Removed, LetIn
      <4>2. QED
        BY <4>1
    <3>3. QED
      BY <3>1, <3>2
  <2>3. \A d \in LetIn' : d \in LetIn /\ came'[d] = came[d]
    BY <2>1, <2>2 DEF LetIn
  <2>4. QED
    BY <2>3, NobodyLetIn DEF RatesInv
<1>2. CASE Ticks \/ UNCHANGED creationVars
  <2>1. \A d \in LetIn' : d \in LetIn /\ came'[d] = came[d]
    BY <1>2 DEF Ticks, creationVars, LetIn
  <2>2. QED
    BY <2>1, NobodyLetIn DEF RatesInv
<1>3. QED
  BY <1>1, <1>2, CountRates DEF CreationNext

LEMMA InitRates == CreationInit => RatesInv
<1> SUFFICES ASSUME CreationInit PROVE RatesInv
  OBVIOUS
<1>1. LetIn = {} /\ Recorded = {}
  BY DEF CreationInit, LetIn, Recorded
<1>2. IsFiniteSet({}) /\ Cardinality({}) = 0
  BY FS_EmptySet
<1>3. Clocked /\ Kept
  BY <1>1, <1>2, CreationAssumption DEF CreationInit, Clocked, Kept
<1>4. ASSUME NEW S, NEW t PROVE Cardinality(Slots(S, t)) = 0
  <2>1. Slots(S, t) = {}
    BY <1>1 DEF Slots
  <2>2. QED
    BY <1>2, <2>1
<1>5. 0 <= PerApp + Together - 1 /\ 0 <= PerSubnet + Together - 1
  BY CreationAssumption
<1>6. Rated
  BY <1>1, <1>2, <1>4, <1>5 DEF Rated, Bounded
<1>7. QED
  BY <1>3, <1>6, InitCreation DEF RatesInv

LEMMA NextRates == RatesInv /\ [CreationNext]_creationVars => RatesInv'
BY NextCreation, ClockKeeps, LedgerKeeps, RatesKeep DEF RatesInv

\* What is recorded in a window was let in.
LEMMA RatesHold == RatesInv => RatesKept
<1> SUFFICES ASSUME RatesInv, NEW t \in 0 .. instant
             PROVE  LET made == Within(t, Window - MaxFlight) IN
                    /\ Cardinality(made) <= PerApp + Together - 1
                    /\ \A s \in SubnetsIn(made) :
                          Cardinality({c \in made : SubnetOf[c] = s}) <= PerSubnet + Together - 1
  BY DEF RatesKept
<1> DEFINE made == Within(t, Window - MaxFlight)
<1>1. t \in Int
  BY DEF RatesInv, Clocked
<1>2. ASSUME NEW S, NEW part, part \subseteq Slots(S, t), NEW limit \in Nat,
             Bounded(S, limit)
      PROVE  Cardinality(part) <= limit + Together - 1
  <2>1. IsFiniteSet(Slots(S, t)) /\ Cardinality(Slots(S, t)) \in Nat
    BY SlotsFinite DEF RatesInv, Rated
  <2>2. IsFiniteSet(part) /\ Cardinality(part) <= Cardinality(Slots(S, t))
    BY <1>2, <2>1, FS_Subset
  <2>3. Cardinality(part) \in Nat /\ Together \in Nat
    BY <2>2, FS_CardinalityType, CreationAssumption
  <2>4. Cardinality(Slots(S, t)) <= limit + Together - 1
    BY <1>1, <1>2 DEF Bounded
  <2>5. QED
    BY <1>2, <2>1, <2>2, <2>3, <2>4
<1>3. Cardinality(made) <= PerApp + Together - 1
  <2>1. made \subseteq Slots(Creates, t)
    BY DEF Within, Slots, Recorded, LetIn
  <2>2. Bounded(Creates, PerApp) /\ PerApp \in Nat
    BY CreationAssumption DEF RatesInv, Rated
  <2>3. QED
    BY <1>2, <2>1, <2>2
<1>4. ASSUME NEW s \in SubnetsIn(made)
      PROVE  Cardinality({c \in made : SubnetOf[c] = s}) <= PerSubnet + Together - 1
  <2>1. {c \in made : SubnetOf[c] = s} \subseteq Slots(Network(s), t)
    BY DEF Within, Slots, Recorded, LetIn, Network
  <2>2. s \in SubnetsIn(Creates)
    BY DEF SubnetsIn, Within, Recorded
  <2>3. Bounded(Network(s), PerSubnet) /\ PerSubnet \in Nat
    BY <2>2, CreationAssumption DEF RatesInv, Rated
  <2>4. QED
    BY <1>2, <2>1, <2>3
<1>5. QED
  BY <1>3, <1>4

\* However creates overtake each other between the clock, the count, the
\* preflight and the record, and whatever fails, is lost or removed, an app and
\* a network make at most their limits of rooms in a window, the app at most
\* its limit of rooms in all, and one more for each of the others at work at
\* once (routes.js createRoom, paste.js roomCounts, roomPreflight, roomCreated).
THEOREM AlwaysCreationLimits == CreationSpec => []CreationLimits
<1>1. RatesInv => CreationLimits
  <2>1. RatesInv => RoomsBounded
    BY PassedFinite, CreationAssumption
       DEF RatesInv, CreationInv, CreationTypes, RoomsBounded
  <2>2. QED
    BY <2>1, RatesHold DEF CreationLimits
<1>2. QED
  BY <1>1, InitRates, NextRates, PTL DEF CreationSpec

-----------------------------------------------------------------------------
(* The relay *)

\* The relay by itself.
RelaySpec == RelayInit /\ [][RelayNext]_relayVars

\* The values a room can hold.
Documents == [RoomKeys -> RoomValues \union {Unset}]

\* What may be on its way to a client.
Frames ==
    [type : {"snapshot"}, seq : Nat, kv : Documents]
    \union [type : {"put"}, seq : Nat, key : RoomKeys, value : RoomValues]
    \union [type : {"delete"}, seq : Nat, key : RoomKeys]
    \union [type : {"ephemeral"}]

\* A socket is a record of the four fields, its frames in a sequence.
SocketShape(s) ==
    /\ s = [stage |-> s.stage, frames |-> s.frames, seq |-> s.seq, kv |-> s.kv]
    /\ s.frames \in Seq(Frames)

RelayTypes ==
    /\ room \in [exists : BOOLEAN, seq : Nat, kv : Documents, emptied : Nat]
    /\ DOMAIN socket = Clients /\ socket = [c \in Clients |-> socket[c]]
    /\ \A c \in Clients : SocketShape(socket[c])

\* What a client shows, or that it will find a gap and leave.
Views == [state : {"shown", "gap"}, seq : Nat, kv : Documents]

After(view, frame) ==
    IF view.state = "gap" THEN view
    ELSE IF frame.type = "snapshot" THEN [state |-> "shown", seq |-> frame.seq, kv |-> frame.kv]
    ELSE IF frame.type = "ephemeral" \/ frame.seq <= view.seq THEN view
    ELSE IF frame.seq = view.seq + 1
         THEN [state |-> "shown", seq |-> frame.seq,
               kv |-> [view.kv EXCEPT ![frame.key] = IF frame.type = "put" THEN frame.value ELSE Unset]]
    ELSE [state |-> "gap", seq |-> view.seq, kv |-> view.kv]

Showing(s) == [state |-> "shown", seq |-> s.seq, kv |-> s.kv]

\* The views a client passes through as it reads its frames.
Path(v, s) ==
    /\ v \in [1..(Len(s.frames) + 1) -> Views]
    /\ v[1] = Showing(s)
    /\ \A i \in 1..Len(s.frames) : v[i + 1] = After(v[i], s.frames[i])

\* Where it ends: at the document; at a gap; before a removal that told nobody.
Ends(view) ==
    \/ view.state = "gap"
    \/ view.seq = room.seq /\ view.kv = room.kv
    \/ room.exists /\ room.emptied = room.seq /\ view.seq < room.seq
    \/ ~room.exists /\ view.kv = EmptyRoom

Converging(s) == \E v : Path(v, s) /\ Ends(v[Len(s.frames) + 1])

\* Every open socket is on its way to the document.
RelayInv ==
    /\ RelayTypes
    /\ \A c \in Clients : socket[c].stage = "open" => Converging(socket[c])
    /\ \A c \in Clients : socket[c].stage = "checked" => Showing(socket[c]) \in Views

\* A frame sent to a socket is put behind those on their way, and nothing else
\* of the socket changes (room.js broadcast).
LEMMA SocketSent ==
  ASSUME NEW s, SocketShape(s), NEW f \in Frames
  PROVE  LET t == [s EXCEPT !.frames = Append(@, f)] IN
         SocketShape(t) /\ t.stage = s.stage /\ t.frames = Append(s.frames, f) /\ t.seq = s.seq /\ t.kv = s.kv
<1> DEFINE g == Append(s.frames, f)
<1>1. g \in Seq(Frames)
  BY DEF SocketShape
<1> HIDE DEF g
<1>2. [s EXCEPT !.frames = g] = [stage |-> s.stage, frames |-> g, seq |-> s.seq, kv |-> s.kv]
  BY DEF SocketShape
<1>3. QED
  BY <1>1, <1>2 DEF SocketShape, g

\* A frame that is appended takes the path one view further.
LEMMA PathGrows ==
  ASSUME NEW s, SocketShape(s), NEW f \in Frames, NEW v, Path(v, s), NEW t,
         t.frames = Append(s.frames, f), t.seq = s.seq, t.kv = s.kv,
         After(v[Len(s.frames) + 1], f) \in Views
  PROVE  \E w : Path(w, t) /\ w[Len(t.frames) + 1] = After(v[Len(s.frames) + 1], f)
<1> DEFINE n == Len(s.frames)
           w == [i \in 1..(n + 2) |-> IF i = n + 2 THEN After(v[n + 1], f) ELSE v[i]]
<1>1. n \in Nat /\ Len(t.frames) = n + 1 /\ \A i \in 1..n : t.frames[i] = s.frames[i]
  BY DEF SocketShape
<1>2. t.frames[n + 1] = f
  BY DEF SocketShape
<1>3. v \in [1..(n + 1) -> Views] /\ v[1] = Showing(s) /\ \A i \in 1..n : v[i + 1] = After(v[i], s.frames[i])
  BY DEF Path
<1> HIDE DEF n
<1>4. w \in [1..(n + 2) -> Views] /\ w[n + 2] = After(v[n + 1], f) /\ \A i \in 1..(n + 1) : w[i] = v[i]
  <2>1. After(v[n + 1], f) \in Views
    BY DEF n
  <2>2. \A i \in 1..(n + 2) : i = n + 2 \/ i \in 1..(n + 1)
    BY <1>1
  <2>3. QED
    BY <1>1, <1>3, <2>1, <2>2
<1> HIDE DEF w
<1>5. w[1] = Showing(t)
  BY <1>1, <1>3, <1>4 DEF Showing
<1>6. ASSUME NEW i \in 1..(n + 1) PROVE w[i + 1] = After(w[i], t.frames[i])
  <2>1. CASE i = n + 1
    <3>1. w[n + 2] = After(w[n + 1], t.frames[n + 1]) /\ i + 1 = n + 2
      BY <1>1, <1>2, <1>4, <2>1
    <3>2. QED
      BY <2>1, <3>1
  <2>2. CASE i \in 1..n
    <3>1. i \in 1..(n + 1) /\ i + 1 \in 1..(n + 1)
      BY <1>1, <2>2
    <3>2. w[i] = v[i] /\ w[i + 1] = v[i + 1] /\ t.frames[i] = s.frames[i]
      BY <1>1, <1>4, <2>2, <3>1
    <3>3. QED
      BY <1>3, <2>2, <3>2
  <2>3. QED
    BY <1>1, <2>1, <2>2
<1>7. Path(w, t)
  <2>1. Len(t.frames) + 1 = n + 2
    BY <1>1
  <2>2. QED
    BY <1>1, <1>4, <1>5, <1>6, <2>1 DEF Path
<1>8. QED
  BY <1>1, <1>4, <1>7 DEF n

\* Reading the first frame leaves the rest of the path.
LEMMA PathShrinks ==
  ASSUME NEW s, SocketShape(s), s.frames # <<>>, NEW v, Path(v, s), NEW t,
         t.frames = Tail(s.frames), Showing(t) = After(Showing(s), Head(s.frames))
  PROVE  \E w : Path(w, t) /\ w[Len(t.frames) + 1] = v[Len(s.frames) + 1]
<1> DEFINE n == Len(s.frames)
           w == [i \in 1..n |-> v[i + 1]]
<1>1. /\ n \in Nat /\ n > 0 /\ Len(t.frames) = n - 1
      /\ \A i \in 1..(n - 1) : t.frames[i] = s.frames[i + 1]
      /\ Head(s.frames) = s.frames[1]
  BY HeadTailProperties DEF SocketShape
<1>2. v \in [1..(n + 1) -> Views] /\ v[1] = Showing(s) /\ \A i \in 1..n : v[i + 1] = After(v[i], s.frames[i])
  BY DEF Path
<1> HIDE DEF n
<1>3. w \in [1..n -> Views] /\ \A i \in 1..n : w[i] = v[i + 1]
  <2>1. \A i \in 1..n : i + 1 \in 1..(n + 1)
    BY <1>1
  <2>2. QED
    BY <1>2, <2>1
<1> HIDE DEF w
<1>4. w[1] = Showing(t)
  <2>1. 1 \in 1..n /\ 1 + 1 = 2
    BY <1>1
  <2>2. v[1 + 1] = After(v[1], s.frames[1])
    BY <1>2, <2>1
  <2>3. QED
    BY <1>1, <1>2, <1>3, <2>1, <2>2
<1>5. ASSUME NEW i \in 1..(n - 1) PROVE w[i + 1] = After(w[i], t.frames[i])
  <2>1. i \in 1..n /\ i + 1 \in 1..n
    BY <1>1
  <2>2. w[i] = v[i + 1] /\ w[i + 1] = v[(i + 1) + 1] /\ t.frames[i] = s.frames[i + 1]
    BY <1>1, <1>3, <2>1
  <2>3. v[(i + 1) + 1] = After(v[i + 1], s.frames[i + 1])
    BY <1>2, <2>1
  <2>4. QED
    BY <2>2, <2>3
<1>6. Path(w, t)
  <2>1. Len(t.frames) + 1 = n /\ 1..Len(t.frames) = 1..(n - 1)
    BY <1>1
  <2>2. QED
    BY <1>3, <1>4, <1>5, <2>1 DEF Path
<1>7. w[Len(t.frames) + 1] = v[n + 1]
  <2>1. Len(t.frames) + 1 = n /\ n \in 1..n
    BY <1>1
  <2>2. QED
    BY <1>3, <2>1
<1>8. QED
  BY <1>6, <1>7 DEF n

\* What reading a frame makes of a view stays a view.
LEMMA AfterIsView ==
  ASSUME NEW view \in Views, NEW f \in Frames
  PROVE  After(view, f) \in Views
<1>1. CASE view.state = "gap"
  BY <1>1 DEF After
<1>2. CASE view.state # "gap" /\ f.type = "snapshot"
  <2>1. f.seq \in Nat /\ f.kv \in Documents
    BY <1>2 DEF Frames
  <2>2. QED
    BY <1>2, <2>1 DEF After, Views
<1>3. CASE view.state # "gap" /\ f.type # "snapshot" /\ (f.type = "ephemeral" \/ f.seq <= view.seq)
  BY <1>3 DEF After
<1>4. CASE view.state # "gap" /\ f.type # "snapshot" /\ ~(f.type = "ephemeral" \/ f.seq <= view.seq)
  <2> DEFINE value == IF f.type = "put" THEN f.value ELSE Unset
             kv == [view.kv EXCEPT ![f.key] = value]
  <2>1. f.seq \in Nat /\ f.key \in RoomKeys /\ value \in RoomValues \union {Unset}
    BY <1>4 DEF Frames
  <2>2. view.kv \in Documents /\ view.seq \in Nat
    BY DEF Views
  <2> HIDE DEF value
  <2>3. kv \in Documents
    BY <2>1, <2>2 DEF Documents
  <2> HIDE DEF kv
  <2>4. After(view, f) = IF f.seq = view.seq + 1 THEN [state |-> "shown", seq |-> f.seq, kv |-> kv]
                         ELSE [state |-> "gap", seq |-> view.seq, kv |-> view.kv]
    BY <1>4 DEF After, kv, value
  <2>5. QED
    BY <2>1, <2>2, <2>3, <2>4 DEF Views
<1>5. QED
  BY <1>1, <1>2, <1>3, <1>4

\* A view that ends well still does once it reads the mirror of a commit: the
\* next sequence takes it to the document, and one behind finds a gap.
LEMMA MirrorEnds ==
  ASSUME RelayTypes, NEW view \in Views, Ends(view), NEW k \in RoomKeys, NEW x \in RoomValues \union {Unset},
         NEW f \in Frames, f.type \in {"put", "delete"}, f.seq = room.seq + 1, f.key = k,
         (f.type = "put" /\ f.value = x) \/ (f.type = "delete" /\ x = Unset),
         Commits(k, x)
  PROVE  Ends(After(view, f))'
<1>1. /\ room.exists /\ room'.seq = room.seq + 1 /\ room'.kv = [room.kv EXCEPT ![k] = x]
      /\ room'.exists = room.exists /\ room'.emptied = room.emptied /\ room.seq \in Nat /\ view.seq \in Nat
  BY DEF RelayTypes, Commits, Views
<1>2. CASE view.state = "gap"
  BY <1>2 DEF After, Ends
<1>3. CASE view.state # "gap" /\ view.seq = room.seq /\ view.kv = room.kv
  <2>1. After(view, f) = [state |-> "shown", seq |-> f.seq,
               kv |-> [view.kv EXCEPT ![f.key] = IF f.type = "put" THEN f.value ELSE Unset]]
    BY <1>1, <1>3 DEF After
  <2>2. (IF f.type = "put" THEN f.value ELSE Unset) = x
    OBVIOUS
  <2>3. After(view, f).seq = room'.seq /\ After(view, f).kv = room'.kv
    BY <1>1, <1>3, <2>1, <2>2
  <2>4. QED
    BY <2>3 DEF Ends
<1>4. CASE view.state # "gap" /\ view.seq < room.seq
  <2>1. After(view, f).state = "gap"
    BY <1>1, <1>4 DEF After
  <2>2. QED
    BY <2>1 DEF Ends
<1>5. QED
  BY <1>1, <1>2, <1>3, <1>4 DEF Ends

\* A broadcast adds its frame to every open socket it is for, and touches no
\* other (room.js broadcast).
LEMMA MirroredSockets ==
  ASSUME RelayTypes, NEW f \in Frames, NEW to, socket' = Mirrored(f, to)
  PROVE  /\ DOMAIN socket' = Clients /\ socket' = [c \in Clients |-> socket'[c]]
         /\ \A c \in Clients :
               /\ SocketShape(socket'[c]) /\ socket'[c].stage = socket[c].stage
               /\ socket[c].stage = "open" /\ c \in to =>
                     /\ socket'[c].frames = Append(socket[c].frames, f)
                     /\ socket'[c].seq = socket[c].seq /\ socket'[c].kv = socket[c].kv
               /\ c \notin to \/ socket[c].stage = "checked" => socket'[c] = socket[c]
<1>1. DOMAIN socket' = Clients /\ socket' = [c \in Clients |-> socket'[c]]
  BY DEF Mirrored
<1>2. ASSUME NEW c \in Clients
      PROVE  /\ SocketShape(socket'[c]) /\ socket'[c].stage = socket[c].stage
             /\ socket[c].stage = "open" /\ c \in to =>
                   /\ socket'[c].frames = Append(socket[c].frames, f)
                   /\ socket'[c].seq = socket[c].seq /\ socket'[c].kv = socket[c].kv
             /\ c \notin to \/ socket[c].stage = "checked" => socket'[c] = socket[c]
  <2>1. SocketShape(socket[c])
    BY DEF RelayTypes
  <2>2. CASE c \in to \intersect OpenSockets
    <3> DEFINE t == [socket[c] EXCEPT !.frames = Append(@, f)]
    <3>1. socket'[c] = t
      BY <2>2 DEF Mirrored
    <3>2. SocketShape(t) /\ t.stage = socket[c].stage /\ t.frames = Append(socket[c].frames, f)
          /\ t.seq = socket[c].seq /\ t.kv = socket[c].kv
      BY <2>1, SocketSent
    <3> HIDE DEF t
    <3>3. socket[c].stage # "checked"
      BY <2>2 DEF OpenSockets
    <3>4. QED
      BY <2>2, <3>1, <3>2, <3>3
  <2>3. CASE c \notin to \intersect OpenSockets
    <3>1. socket'[c] = socket[c]
      BY <2>3 DEF Mirrored
    <3>2. socket[c].stage = "open" => c \notin to
      BY <2>3 DEF OpenSockets
    <3>3. QED
      BY <2>1, <3>1, <3>2
  <2>4. QED
    BY <2>2, <2>3
<1>3. QED
  BY <1>1, <1>2

\* The last view of a path is a view.
LEMMA LastView ==
  ASSUME NEW s, SocketShape(s), NEW v, Path(v, s)
  PROVE  v[Len(s.frames) + 1] \in Views
<1>1. Len(s.frames) + 1 \in 1..(Len(s.frames) + 1)
  BY DEF SocketShape
<1>2. QED
  BY <1>1 DEF Path

\* Nobody is connected at first.
LEMMA InitRelay ==
  ASSUME RelayInit
  PROVE  RelayInv
<1>1. EmptyRoom \in Documents
  BY DEF EmptyRoom, Documents
<1>2. SocketShape(NoSocket)
  BY DEF SocketShape, NoSocket
<1>3. QED
  BY <1>1, <1>2 DEF RelayInit, RelayInv, RelayTypes, NoSocket

\* The record of a room whose sequence moves and whose values change.
LEMMA RoomFields ==
  ASSUME NEW r \in [exists : BOOLEAN, seq : Nat, kv : Documents, emptied : Nat],
         NEW kv \in Documents
  PROVE  [r EXCEPT !.seq = @ + 1, !.kv = kv] \in [exists : BOOLEAN, seq : Nat, kv : Documents, emptied : Nat]
<1> DEFINE n == r.seq + 1
<1>1. n \in Nat
  OBVIOUS
<1> HIDE DEF n
<1>2. [r EXCEPT !.seq = n, !.kv = kv] \in [exists : BOOLEAN, seq : Nat, kv : Documents, emptied : Nat]
  BY <1>1
<1>3. QED
  BY <1>2 DEF n

\* A commit and its mirror, in one turn, leave every socket on its way to the
\* document (room.js broadcastPut, broadcast).
LEMMA MutationMirrored ==
  ASSUME RelayInv, NEW k \in RoomKeys, NEW x \in RoomValues \union {Unset},
         NEW f \in Frames, f.type \in {"put", "delete"}, f.seq = room.seq + 1, f.key = k,
         (f.type = "put" /\ f.value = x) \/ (f.type = "delete" /\ x = Unset),
         Commits(k, x), socket' = Mirrored(f, Clients)
  PROVE  RelayInv'
<1>1. RelayTypes
  BY DEF RelayInv
<1>2. room' \in [exists : BOOLEAN, seq : Nat, kv : Documents, emptied : Nat]
  <2>1. room \in [exists : BOOLEAN, seq : Nat, kv : Documents, emptied : Nat]
    BY <1>1 DEF RelayTypes
  <2> DEFINE kv == [room.kv EXCEPT ![k] = x]
  <2>2. kv \in Documents
    BY <2>1 DEF Documents
  <2>3. room' = [room EXCEPT !.seq = @ + 1, !.kv = kv]
    BY <2>1 DEF Commits
  <2> HIDE DEF kv
  <2>4. QED
    BY <2>1, <2>2, <2>3, RoomFields
<1>3. RelayTypes'
  <2>1. /\ DOMAIN socket' = Clients /\ socket' = [c \in Clients |-> socket'[c]]
        /\ \A c \in Clients : SocketShape(socket'[c])
    BY <1>1, MirroredSockets
  <2>2. QED
    BY <1>2, <2>1 DEF RelayTypes
<1>4. ASSUME NEW c \in Clients, socket'[c].stage = "open"
      PROVE  \E w, end : Path(w, socket'[c]) /\ end = w[Len(socket'[c].frames) + 1] /\ Ends(end)'
  <2>1. /\ socket[c].stage = "open" /\ socket'[c].frames = Append(socket[c].frames, f)
        /\ socket'[c].seq = socket[c].seq /\ socket'[c].kv = socket[c].kv
    BY <1>1, <1>4, MirroredSockets
  <2>2. SocketShape(socket[c])
    BY <1>1 DEF RelayTypes
  <2>3. PICK v : Path(v, socket[c]) /\ Ends(v[Len(socket[c].frames) + 1])
    BY <2>1 DEF RelayInv, Converging
  <2>4. PICK last \in Views : last = v[Len(socket[c].frames) + 1]
    BY <2>2, <2>3, LastView
  <2>5. After(last, f) \in Views
    BY <2>4, AfterIsView
  <2>6. PICK w : Path(w, socket'[c]) /\ w[Len(socket'[c].frames) + 1] = After(last, f)
    <3>1. Path(v, socket[c])
      BY <2>3
    <3>2. After(v[Len(socket[c].frames) + 1], f) \in Views
      BY <2>4, <2>5
    <3>3. \E w : Path(w, socket'[c]) /\ w[Len(socket'[c].frames) + 1] = After(v[Len(socket[c].frames) + 1], f)
      <4> DEFINE t == socket'[c]
      <4>1. t.frames = Append(socket[c].frames, f) /\ t.seq = socket[c].seq /\ t.kv = socket[c].kv
        BY <2>1
      <4> HIDE DEF t
      <4>2. \E w : Path(w, t) /\ w[Len(t.frames) + 1] = After(v[Len(socket[c].frames) + 1], f)
        BY <2>2, <3>1, <3>2, <4>1, PathGrows
      <4>3. QED
        BY <4>2 DEF t
    <3>4. QED
      BY <2>4, <3>3
  <2>7. \A view \in Views : Ends(view) => Ends(After(view, f))'
    BY <1>1, MirrorEnds
  <2>8. Ends(last)
    BY <2>3, <2>4
  <2>9. Ends(After(last, f))'
    BY <2>4, <2>7, <2>8
  <2>10. QED
    BY <2>6, <2>9
<1>5. ASSUME NEW c \in Clients, socket'[c].stage = "checked"
      PROVE  Showing(socket'[c]) \in Views
  BY <1>1, <1>5, MirroredSockets DEF RelayInv
<1>6. QED
  BY <1>3, <1>4, <1>5 DEF RelayInv, Converging

\* So it is with a value put,
LEMMA PutMirrored ==
  ASSUME RelayInv, NEW k \in RoomKeys, NEW x \in RoomValues, PutValue(k, x)
  PROVE  RelayInv'
<1>1. room.seq \in Nat
  BY DEF RelayInv, RelayTypes
<1>2. PutFrame(k, x) \in Frames
  BY <1>1 DEF PutFrame, Frames
<1>3. QED
  BY <1>2, MutationMirrored DEF PutValue, PutFrame

\* and with one deleted, absent ones included.
LEMMA DeleteMirrored ==
  ASSUME RelayInv, NEW k \in RoomKeys, DeleteValue(k)
  PROVE  RelayInv'
<1>1. room.seq \in Nat
  BY DEF RelayInv, RelayTypes
<1>2. DeleteFrame(k) \in Frames
  BY <1>1 DEF DeleteFrame, Frames
<1>3. QED
  BY <1>2, MutationMirrored DEF DeleteValue, DeleteFrame

\* A socket that is replaced, the document standing as it did.
LEMMA SocketReplaced ==
  ASSUME RelayInv, UNCHANGED room, NEW d \in Clients, NEW t, SocketShape(t),
         socket' = [socket EXCEPT ![d] = t],
         t.stage = "open" => Converging(t),
         t.stage = "checked" => Showing(t) \in Views
  PROVE  RelayInv'
<1>1. RelayTypes'
  BY DEF RelayInv, RelayTypes
<1>2. ASSUME NEW c \in Clients, socket'[c].stage = "open"
      PROVE  Converging(socket'[c])
  <2>1. socket'[c] = IF c = d THEN t ELSE socket[c]
    BY DEF RelayInv, RelayTypes
  <2>2. QED
    BY <1>2, <2>1 DEF RelayInv
<1>3. \A view : Ends(view) => Ends(view)'
  BY DEF Ends
<1>4. ASSUME NEW c \in Clients, socket'[c].stage = "checked"
      PROVE  Showing(socket'[c]) \in Views
  <2>1. socket'[c] = IF c = d THEN t ELSE socket[c]
    BY DEF RelayInv, RelayTypes
  <2>2. QED
    BY <1>4, <2>1 DEF RelayInv
<1>5. QED
  BY <1>1, <1>2, <1>3, <1>4 DEF RelayInv, Converging

\* A socket whose stage is written keeps its frames and its view.
LEMMA StageSet ==
  ASSUME NEW s, SocketShape(s), NEW st
  PROVE  SocketShape([s EXCEPT !.stage = st]) /\ [s EXCEPT !.stage = st].stage = st
<1>1. [s EXCEPT !.stage = st] = [stage |-> st, frames |-> s.frames, seq |-> s.seq, kv |-> s.kv]
  BY DEF SocketShape
<1>2. QED
  BY <1>1 DEF SocketShape

\* A client without a socket has the shape of one.
LEMMA NoSocketShape == SocketShape(NoSocket) /\ NoSocket.stage = "none"
BY DEF SocketShape, NoSocket

\* A join that passed the route has shown nothing (routes.js joinRoom).
LEMMA JoinCheckedStep ==
  ASSUME RelayInv, NEW c \in Clients, JoinChecked(c)
  PROVE  RelayInv'
<1> DEFINE t == [NoSocket EXCEPT !.stage = "checked"]
<1>1. SocketShape(t) /\ t.stage = "checked"
  BY NoSocketShape, StageSet
<1>4. Showing(t) \in Views
  BY DEF Showing, Views, NoSocket, EmptyRoom, Documents
<1>2. socket' = [socket EXCEPT ![c] = t] /\ UNCHANGED room
  BY DEF JoinChecked
<1> HIDE DEF t
<1>3. QED
  BY <1>1, <1>2, <1>4, SocketReplaced

\* A client that leaves is no longer held to converge.
LEMMA LeavesStep ==
  ASSUME RelayInv, NEW c \in Clients, Leaves(c)
  PROVE  RelayInv'
<1> DEFINE t == [socket[c] EXCEPT !.stage = "leaving"]
<1>1. SocketShape(t) /\ t.stage = "leaving"
  BY StageSet DEF RelayInv, RelayTypes
<1>2. socket' = [socket EXCEPT ![c] = t] /\ UNCHANGED room
  BY DEF Leaves
<1> HIDE DEF t
<1>3. QED
  BY <1>1, <1>2, SocketReplaced

\* Nor is one whose socket is closed (room.js webSocketClose).
LEMMA ClosesStep ==
  ASSUME RelayInv, NEW c \in Clients, Closes(c)
  PROVE  RelayInv'
<1>1. socket' = [socket EXCEPT ![c] = NoSocket] /\ UNCHANGED room
  BY DEF Closes
<1>2. QED
  BY <1>1, NoSocketShape, SocketReplaced

\* A client that reads a frame is one view further on its path, or it found a
\* gap and leaves.
LEMMA ReceivesStep ==
  ASSUME RelayInv, NEW c \in Clients, Receives(c)
  PROVE  RelayInv'
<1> DEFINE s == socket[c]
           frame == Head(s.frames)
           rest == [s EXCEPT !.frames = Tail(@)]
           applied == [rest EXCEPT !.seq = frame.seq,
                        !.kv[frame.key] = IF frame.type = "put" THEN frame.value ELSE Unset]
           seen == IF frame.type = "snapshot" THEN [rest EXCEPT !.seq = frame.seq, !.kv = frame.kv]
                   ELSE IF frame.type = "ephemeral" \/ frame.seq <= rest.seq THEN rest
                   ELSE IF frame.seq = rest.seq + 1 THEN applied
                   ELSE [rest EXCEPT !.stage = IF @ = "open" THEN "leaving" ELSE @]
<1>1. s.stage \in {"open", "closed"} /\ s.frames # <<>> /\ socket' = [socket EXCEPT ![c] = seen] /\ UNCHANGED room
  BY DEF Receives
<1>2. SocketShape(s)
  BY DEF RelayInv, RelayTypes
<1>3. Tail(s.frames) \in Seq(Frames)
  BY <1>1, <1>2 DEF SocketShape
<1> HIDE DEF s, frame
<1>4. rest = [stage |-> s.stage, frames |-> Tail(s.frames), seq |-> s.seq, kv |-> s.kv]
  <2> DEFINE tail == Tail(s.frames)
  <2>1. rest = [s EXCEPT !.frames = tail]
    OBVIOUS
  <2> HIDE DEF tail
  <2>2. rest = [stage |-> s.stage, frames |-> tail, seq |-> s.seq, kv |-> s.kv]
    BY <1>2, <2>1 DEF SocketShape
  <2>3. QED
    BY <2>2 DEF tail
<1> HIDE DEF rest
<1> DEFINE value == IF frame.type = "put" THEN frame.value ELSE Unset
<1>5. /\ SocketShape(seen) /\ seen.frames = Tail(s.frames)
      /\ \/ seen.stage = s.stage /\ Showing(seen) = After(Showing(s), frame)
         \/ seen.stage \in {"leaving", "closed"}
  <2>1. CASE frame.type = "snapshot"
    <3>1. seen = [stage |-> s.stage, frames |-> Tail(s.frames), seq |-> frame.seq, kv |-> frame.kv]
      BY <1>4, <2>1
    <3> HIDE DEF seen
    <3>2. QED
      BY <1>3, <2>1, <3>1 DEF SocketShape, Showing, After
  <2>2. CASE frame.type # "snapshot" /\ (frame.type = "ephemeral" \/ frame.seq <= s.seq)
    <3>1. seen = rest
      BY <1>4, <2>2
    <3> HIDE DEF seen
    <3>2. QED
      BY <1>3, <1>4, <2>2, <3>1 DEF SocketShape, Showing, After
  <2>3. CASE frame.type # "snapshot" /\ ~(frame.type = "ephemeral" \/ frame.seq <= s.seq) /\ frame.seq = s.seq + 1
    <3>1. seen = [stage |-> s.stage, frames |-> Tail(s.frames), seq |-> frame.seq, kv |-> [s.kv EXCEPT ![frame.key] = value]]
      BY <1>4, <2>3
    <3>2. Showing(seen) = After(Showing(s), frame)
      <4> HIDE DEF seen
      <4>1. Showing(seen) = [state |-> "shown", seq |-> frame.seq, kv |-> [s.kv EXCEPT ![frame.key] = value]]
        <5> DEFINE kv == [s.kv EXCEPT ![frame.key] = value]
        <5>1. seen = [stage |-> s.stage, frames |-> Tail(s.frames), seq |-> frame.seq, kv |-> kv]
          BY <3>1
        <5> HIDE DEF kv
        <5>2. Showing(seen) = [state |-> "shown", seq |-> frame.seq, kv |-> kv]
          BY <5>1 DEF Showing
        <5>3. QED
          BY <5>2 DEF kv
      <4>2. QED
        BY <2>3, <4>1 DEF Showing, After
    <3> HIDE DEF seen
    <3>3. QED
      BY <1>3, <3>1, <3>2 DEF SocketShape
  <2>4. CASE frame.type # "snapshot" /\ ~(frame.type = "ephemeral" \/ frame.seq <= s.seq) /\ frame.seq # s.seq + 1
    <3>1. seen = [stage |-> IF s.stage = "open" THEN "leaving" ELSE s.stage,
                  frames |-> Tail(s.frames), seq |-> s.seq, kv |-> s.kv]
      BY <1>4, <2>4
    <3> HIDE DEF seen
    <3>2. s.stage \in {"open", "closed"}
      BY <1>1 DEF s
    <3>3. QED
      BY <1>3, <3>1, <3>2 DEF SocketShape
  <2>5. QED
    BY <2>1, <2>2, <2>3, <2>4
<1> HIDE DEF seen
<1>6. ASSUME seen.stage = "open" PROVE Converging(seen)
  <2>1. s.stage = "open" /\ Showing(seen) = After(Showing(s), frame)
    BY <1>5, <1>6
  <2>2. PICK v : Path(v, s) /\ Ends(v[Len(s.frames) + 1])
    BY <2>1 DEF RelayInv, Converging, s
  <2>3. s.frames # <<>>
    BY <1>1 DEF s
  <2>4. \E w : Path(w, seen) /\ w[Len(seen.frames) + 1] = v[Len(s.frames) + 1]
    BY <1>2, <1>5, <2>1, <2>2, <2>3, PathShrinks DEF frame
  <2>5. QED
    BY <2>2, <2>4 DEF Converging
<1>7. seen.stage # "checked"
  <2>1. s.stage \in {"open", "closed"}
    BY <1>1 DEF s
  <2>2. QED
    BY <1>5, <2>1
<1>8. QED
  BY <1>1, <1>5, <1>6, <1>7, SocketReplaced

\* What a client sends is relayed only as an ephemeral frame, which moves no
\* view (room.js webSocketMessage).
LEMMA SendsStep ==
  ASSUME RelayInv, NEW c \in Clients, ClientSends(c)
  PROVE  RelayInv'
<1>1. RelayTypes
  BY DEF RelayInv
<1>2. UNCHANGED room
  BY DEF ClientSends
<1>3. CASE socket' = [socket EXCEPT ![c].stage = "closed"]
  <2> DEFINE t == [socket[c] EXCEPT !.stage = "closed"]
  <2>1. SocketShape(t) /\ t.stage = "closed"
    BY <1>1, StageSet DEF RelayTypes
  <2>2. socket' = [socket EXCEPT ![c] = t]
    BY <1>3
  <2> HIDE DEF t
  <2>3. QED
    BY <1>2, <2>1, <2>2, SocketReplaced
<1>4. CASE \E frame \in ClientFrames : Relayable(frame) /\ socket' = Mirrored(frame, Clients \ {c})
  <2>1. PICK f \in ClientFrames : Relayable(f) /\ socket' = Mirrored(f, Clients \ {c})
    BY <1>4
  <2>2. f \in Frames /\ f.type = "ephemeral"
    <3>1. f \in {[type |-> "ephemeral"]}
      BY <2>1 DEF ClientFrames, Relayable, ControlFrame
    <3>2. QED
      BY <3>1 DEF Frames
  <2>3. RelayTypes'
    <3>1. /\ DOMAIN socket' = Clients /\ socket' = [d \in Clients |-> socket'[d]]
          /\ \A d \in Clients : SocketShape(socket'[d])
      BY <1>1, <2>1, <2>2, MirroredSockets
    <3>2. QED
      BY <1>1, <1>2, <3>1 DEF RelayTypes
  <2>4. ASSUME NEW d \in Clients, socket'[d].stage = "open"
        PROVE  Converging(socket'[d])
    <3>1. CASE d = c
      <4>1. socket'[d] = socket[d]
        <5>1. d \notin Clients \ {c}
          BY <3>1
        <5>2. QED
          BY <1>1, <2>1, <2>2, <5>1, MirroredSockets
      <4>2. QED
        BY <2>4, <4>1 DEF RelayInv
    <3>2. CASE d # c
      <4>1. /\ socket[d].stage = "open" /\ socket'[d].frames = Append(socket[d].frames, f)
            /\ socket'[d].seq = socket[d].seq /\ socket'[d].kv = socket[d].kv
        <5>1. d \in Clients \ {c}
          BY <3>2
        <5>2. /\ socket'[d].stage = socket[d].stage
              /\ socket[d].stage = "open" /\ d \in Clients \ {c} =>
                    /\ socket'[d].frames = Append(socket[d].frames, f)
                    /\ socket'[d].seq = socket[d].seq /\ socket'[d].kv = socket[d].kv
          BY <1>1, <2>1, <2>2, MirroredSockets
        <5>3. QED
          BY <2>4, <5>1, <5>2
      <4>2. SocketShape(socket[d])
        BY <1>1 DEF RelayTypes
      <4>3. PICK v : Path(v, socket[d]) /\ Ends(v[Len(socket[d].frames) + 1])
        BY <4>1 DEF RelayInv, Converging
      <4>4. After(v[Len(socket[d].frames) + 1], f) = v[Len(socket[d].frames) + 1]
        BY <2>2 DEF After
      <4>5. After(v[Len(socket[d].frames) + 1], f) \in Views
        BY <4>2, <4>3, <4>4, LastView
      <4>6. \E w : Path(w, socket'[d]) /\ w[Len(socket'[d].frames) + 1] = After(v[Len(socket[d].frames) + 1], f)
        BY <2>2, <4>1, <4>2, <4>3, <4>5, PathGrows
      <4>7. QED
        BY <4>3, <4>4, <4>6 DEF Converging
    <3>3. QED
      BY <3>1, <3>2
  <2>5. ASSUME NEW d \in Clients, socket'[d].stage = "checked"
        PROVE  Showing(socket'[d]) \in Views
    BY <1>1, <2>1, <2>2, <2>5, MirroredSockets DEF RelayInv
  <2>6. \A view : Ends(view) => Ends(view)'
    BY <1>2 DEF Ends
  <2>7. QED
    BY <2>3, <2>4, <2>5, <2>6 DEF RelayInv, Converging
<1>5. QED
  BY <1>3, <1>4 DEF ClientSends

\* When every open socket was closed, there is nobody to converge.
LEMMA NobodyOpen ==
  ASSUME RelayTypes', \A c \in Clients : socket'[c].stage \notin {"open", "checked"} \/ socket'[c] = socket[c],
         \A c \in Clients : socket'[c].stage # "open",
         RelayInv
  PROVE  RelayInv'
BY DEF RelayInv

\* A removal closes every socket,
LEMMA RemovedStep ==
  ASSUME RelayInv, RoomRemoved
  PROVE  RelayInv'
<1>1. EmptyRoom \in Documents
  BY DEF EmptyRoom, Documents
<1>2. room' \in [exists : BOOLEAN, seq : Nat, kv : Documents, emptied : Nat]
  <2>1. room \in [exists : BOOLEAN, seq : Nat, kv : Documents, emptied : Nat]
    BY DEF RelayInv, RelayTypes
  <2>2. [room EXCEPT !.exists = FALSE] \in [exists : BOOLEAN, seq : Nat, kv : Documents, emptied : Nat]
    BY <2>1
  <2>3. [[room EXCEPT !.exists = FALSE] EXCEPT !.kv = EmptyRoom] \in [exists : BOOLEAN, seq : Nat, kv : Documents, emptied : Nat]
    BY <1>1, <2>2
  <2>4. QED
    BY <2>3 DEF RoomRemoved
<1>3. ASSUME NEW c \in Clients
      PROVE  SocketShape(socket'[c]) /\ socket'[c].stage # "open" /\ (socket'[c].stage # "checked" \/ socket'[c] = socket[c])
  <2>1. SocketShape(socket[c])
    BY DEF RelayInv, RelayTypes
  <2>2. CASE c \in OpenSockets
    <3> DEFINE t == [socket[c] EXCEPT !.stage = "closed"]
    <3>1. socket'[c] = t
      BY <2>2 DEF RoomRemoved
    <3>2. SocketShape(t) /\ t.stage = "closed"
      BY <2>1, StageSet
    <3> HIDE DEF t
    <3>3. QED
      BY <3>1, <3>2
  <2>3. CASE c \notin OpenSockets
    BY <2>1, <2>3 DEF RoomRemoved, OpenSockets
  <2>4. QED
    BY <2>2, <2>3
<1>4. DOMAIN socket' = Clients /\ socket' = [c \in Clients |-> socket'[c]]
  BY DEF RoomRemoved
<1>5. RelayTypes'
  BY <1>2, <1>3, <1>4 DEF RelayTypes
<1>6. QED
  BY <1>3, <1>5, NobodyOpen

\* and a cell that stops loses them, whatever it committed last.
LEMMA StopsStep ==
  ASSUME RelayInv, RelayStops
  PROVE  RelayInv'
<1>1. room' \in [exists : BOOLEAN, seq : Nat, kv : Documents, emptied : Nat]
  <2>1. room \in [exists : BOOLEAN, seq : Nat, kv : Documents, emptied : Nat]
    BY DEF RelayInv, RelayTypes
  <2>2. CASE UNCHANGED room
    BY <2>1, <2>2
  <2>3. CASE \E k \in RoomKeys, v \in RoomValues \union {Unset} : Commits(k, v)
    <3>1. PICK k \in RoomKeys, v \in RoomValues \union {Unset} : Commits(k, v)
      BY <2>3
    <3> DEFINE kv == [room.kv EXCEPT ![k] = v]
    <3>2. kv \in Documents
      BY <2>1 DEF Documents
    <3>3. room' = [room EXCEPT !.seq = @ + 1, !.kv = kv]
      BY <2>1, <3>1 DEF Commits
    <3> HIDE DEF kv
    <3>4. QED
      BY <2>1, <3>2, <3>3, RoomFields
  <2>4. QED
    BY <2>2, <2>3 DEF RelayStops
<1>2. ASSUME NEW c \in Clients
      PROVE  SocketShape(socket'[c]) /\ socket'[c].stage # "open" /\ (socket'[c].stage # "checked" \/ socket'[c] = socket[c])
  <2>1. SocketShape(socket[c])
    BY DEF RelayInv, RelayTypes
  <2>2. socket'[c] = IF c \in OpenSockets THEN NoSocket ELSE socket[c]
    BY DEF RelayStops
  <2>3. QED
    BY <2>1, <2>2, NoSocketShape DEF OpenSockets
<1>3. DOMAIN socket' = Clients /\ socket' = [c \in Clients |-> socket'[c]]
  BY DEF RelayStops
<1>4. RelayTypes'
  BY <1>1, <1>2, <1>3 DEF RelayTypes
<1>5. QED
  BY <1>2, <1>4, NobodyOpen

\* A removal interrupted after it emptied the room leaves every view behind
\* the document: the next mirror is a gap to it.
LEMMA InterruptedStep ==
  ASSUME RelayInv, RemovalInterrupted
  PROVE  RelayInv'
<1>1. room \in [exists : BOOLEAN, seq : Nat, kv : Documents, emptied : Nat] /\ EmptyRoom \in Documents
  BY DEF RelayInv, RelayTypes, EmptyRoom, Documents
<1>2. [[room EXCEPT !.seq = @ + 1, !.kv = EmptyRoom] EXCEPT !.emptied = room.seq + 1] \in
        [exists : BOOLEAN, seq : Nat, kv : Documents, emptied : Nat]
  <2> DEFINE r == [room EXCEPT !.seq = @ + 1, !.kv = EmptyRoom]
             n == room.seq + 1
  <2>1. r \in [exists : BOOLEAN, seq : Nat, kv : Documents, emptied : Nat]
    BY <1>1, RoomFields
  <2>2. n \in Nat
    BY <1>1
  <2> HIDE DEF r, n
  <2>3. [r EXCEPT !.emptied = n] \in [exists : BOOLEAN, seq : Nat, kv : Documents, emptied : Nat]
    BY <2>1, <2>2
  <2>4. QED
    BY <2>3 DEF r, n
<1>3. /\ room' = [[room EXCEPT !.seq = @ + 1, !.kv = EmptyRoom] EXCEPT !.emptied = room.seq + 1]
      /\ room.exists /\ UNCHANGED socket
  BY DEF RemovalInterrupted
<1>4. RelayTypes'
  BY <1>2, <1>3 DEF RelayInv, RelayTypes
<1>5. room'.exists /\ room'.seq = room.seq + 1 /\ room'.emptied = room'.seq /\ room.seq \in Nat
  BY <1>1, <1>3
<1>6. ASSUME NEW view \in Views, Ends(view) PROVE Ends(view)'
  BY <1>3, <1>5, <1>6 DEF Ends, Views
<1>7. ASSUME NEW c \in Clients, socket[c].stage = "open"
      PROVE  \E v, end : Path(v, socket[c]) /\ end = v[Len(socket[c].frames) + 1] /\ Ends(end)'
  <2>1. SocketShape(socket[c])
    BY DEF RelayInv, RelayTypes
  <2>2. PICK v : Path(v, socket[c]) /\ Ends(v[Len(socket[c].frames) + 1])
    BY <1>7 DEF RelayInv, Converging
  <2>3. PICK end \in Views : end = v[Len(socket[c].frames) + 1]
    BY <2>1, <2>2, LastView
  <2>4. Ends(end)
    BY <2>2, <2>3
  <2>5. Ends(end)'
    BY <1>6, <2>4
  <2>6. QED
    BY <2>2, <2>3, <2>5
<1>8. QED
  BY <1>3, <1>4, <1>7 DEF RelayInv, Converging

\* The snapshot of a join is a frame of the room's sequence and values, or of
\* nothing when the room is gone (room.js fetch).
LEMMA SnapshotSent ==
  ASSUME RelayTypes
  PROVE  /\ SnapshotFrame \in Frames /\ SnapshotFrame.type = "snapshot"
         /\ SnapshotFrame.seq = (IF room.exists THEN room.seq ELSE 0)
         /\ SnapshotFrame.kv = (IF room.exists THEN room.kv ELSE EmptyRoom)
<1> DEFINE seq == IF room.exists THEN room.seq ELSE 0
           kv == IF room.exists THEN room.kv ELSE EmptyRoom
           f == SnapshotFrame
<1>1. room.seq \in Nat /\ room.kv \in Documents /\ EmptyRoom \in Documents
  BY DEF RelayTypes, EmptyRoom, Documents
<1>2. seq \in Nat /\ kv \in Documents
  BY <1>1
<1>3. f = [type |-> "snapshot", seq |-> seq, kv |-> kv]
  BY DEF SnapshotFrame
<1> HIDE DEF seq, kv, f
<1>4. f \in Frames /\ f.type = "snapshot" /\ f.seq = seq /\ f.kv = kv
  BY <1>2, <1>3 DEF Frames
<1>5. QED
  BY <1>4 DEF f, seq, kv

\* A socket that joined shows the document once it reads its snapshot.
LEMMA SnapshotShows ==
  ASSUME RelayTypes, NEW t, t.frames = <<SnapshotFrame>>, Showing(t) \in Views
  PROVE  Converging(t)
<1> DEFINE f == SnapshotFrame
           v == [i \in 1..2 |-> IF i = 1 THEN Showing(t) ELSE After(Showing(t), f)]
<1>2. f \in Frames /\ f.type = "snapshot" /\ f.seq = (IF room.exists THEN room.seq ELSE 0)
      /\ f.kv = (IF room.exists THEN room.kv ELSE EmptyRoom)
  BY SnapshotSent
<1>3. Len(t.frames) = 1 /\ t.frames[1] = f
  OBVIOUS
<1> HIDE DEF f
<1>4. After(Showing(t), f) \in Views
  BY <1>2, AfterIsView
<1>5. After(Showing(t), f) = [state |-> "shown", seq |-> f.seq, kv |-> f.kv]
  BY <1>2 DEF After, Showing
<1>6. v \in [1..2 -> Views] /\ v[1] = Showing(t) /\ v[2] = After(Showing(t), f)
  <2>1. 1 \in 1..2 /\ 2 \in 1..2
    OBVIOUS
  <2>2. QED
    BY <1>4, <2>1
<1> HIDE DEF v
<1>7. Path(v, t)
  <2>1. 1..Len(t.frames) = {1} /\ Len(t.frames) + 1 = 2
    BY <1>3
  <2>2. QED
    BY <1>3, <1>6, <2>1 DEF Path
<1>8. Ends(v[2])
  BY <1>2, <1>5, <1>6 DEF Ends
<1>9. QED
  BY <1>3, <1>7, <1>8 DEF Converging

\* A join puts its snapshot first, and may close stale sockets (room.js admit).
LEMMA JoinStep ==
  ASSUME RelayInv, NEW c \in Clients, Join(c)
  PROVE  RelayInv'
<1>1. PICK stale \in SUBSET OpenSockets :
        LET evicted == IF Cardinality(OpenSockets) < SocketCap THEN {} ELSE stale
            kept == OpenSockets \ evicted
            closed == [d \in Clients |->
                          IF d \in evicted THEN [socket[d] EXCEPT !.stage = "closed"] ELSE socket[d]]
        IN
        /\ socket[c].stage = "checked"
        /\ socket' = [closed EXCEPT ![c] =
               IF Cardinality(kept) < SocketCap
               THEN [@ EXCEPT !.stage = "open", !.frames = <<SnapshotFrame>>]
               ELSE NoSocket]
        /\ UNCHANGED <<room, sent>>
  BY DEF Join
<1> DEFINE evicted == IF Cardinality(OpenSockets) < SocketCap THEN {} ELSE stale
           kept == OpenSockets \ evicted
           t == [socket[c] EXCEPT !.stage = "open", !.frames = <<SnapshotFrame>>]
<1>2. RelayTypes /\ SocketShape(socket[c]) /\ socket[c].stage = "checked" /\ Showing(socket[c]) \in Views
  BY <1>1 DEF RelayInv, RelayTypes
<1>3. c \notin evicted /\ evicted \subseteq Clients
  BY <1>1, <1>2 DEF OpenSockets
<1>4. /\ DOMAIN socket' = Clients /\ socket' = [d \in Clients |-> socket'[d]] /\ UNCHANGED room
      /\ \A d \in Clients \ {c} :
            socket'[d] = IF d \in evicted THEN [socket[d] EXCEPT !.stage = "closed"] ELSE socket[d]
      /\ socket'[c] = IF Cardinality(kept) < SocketCap THEN t ELSE NoSocket
  BY <1>1, <1>3
<1>5. /\ SocketShape(t) /\ t.stage = "open" /\ t.frames = <<SnapshotFrame>>
      /\ t.seq = socket[c].seq /\ t.kv = socket[c].kv
  <2> DEFINE frames == <<SnapshotFrame>>
  <2>1. frames \in Seq(Frames)
    BY <1>2, SnapshotSent
  <2> HIDE DEF frames
  <2>2. [socket[c] EXCEPT !.stage = "open", !.frames = frames]
          = [stage |-> "open", frames |-> frames, seq |-> socket[c].seq, kv |-> socket[c].kv]
    <3> DEFINE a == [stage |-> "open", frames |-> socket[c].frames, seq |-> socket[c].seq, kv |-> socket[c].kv]
    <3>1. [socket[c] EXCEPT !.stage = "open"] = a
      BY <1>2 DEF SocketShape
    <3>2. [a EXCEPT !.frames = frames]
            = [stage |-> "open", frames |-> frames, seq |-> socket[c].seq, kv |-> socket[c].kv]
      OBVIOUS
    <3>3. [socket[c] EXCEPT !.stage = "open", !.frames = frames] = [[socket[c] EXCEPT !.stage = "open"] EXCEPT !.frames = frames]
      OBVIOUS
    <3> HIDE DEF a
    <3>4. QED
      BY <3>1, <3>2, <3>3
  <2>3. t = [socket[c] EXCEPT !.stage = "open", !.frames = frames]
    BY DEF frames
  <2> HIDE DEF t
  <2>4. SocketShape(t) /\ t.stage = "open" /\ t.frames = frames /\ t.seq = socket[c].seq /\ t.kv = socket[c].kv
    BY <2>1, <2>2, <2>3 DEF SocketShape
  <2>5. QED
    BY <2>4 DEF frames
<1> HIDE DEF t, evicted, kept
<1>6. Converging(t)
  BY <1>2, <1>5, SnapshotShows DEF Showing
<1>7. ASSUME NEW d \in Clients
      PROVE  /\ SocketShape(socket'[d])
             /\ socket'[d].stage = "open" => Converging(socket'[d])
             /\ socket'[d].stage = "checked" => Showing(socket'[d]) \in Views
  <2>1. CASE d = c
    BY <1>4, <1>5, <1>6, <2>1, NoSocketShape
  <2>2. CASE d # c /\ d \in evicted
    <3>1. SocketShape(socket[d]) /\ socket'[d] = [socket[d] EXCEPT !.stage = "closed"]
      BY <1>2, <1>4, <2>2 DEF RelayTypes
    <3>2. SocketShape(socket'[d]) /\ socket'[d].stage = "closed"
      BY <3>1, StageSet
    <3>3. QED
      BY <3>2
  <2>3. CASE d # c /\ d \notin evicted
    BY <1>2, <1>4, <2>3 DEF RelayInv, RelayTypes
  <2>4. QED
    BY <2>1, <2>2, <2>3
<1>8. RelayTypes'
  BY <1>2, <1>4, <1>7 DEF RelayTypes
<1>9. \A view : Ends(view) => Ends(view)'
  BY <1>4 DEF Ends
<1>10. QED
  BY <1>7, <1>8, <1>9 DEF RelayInv, Converging

\* Every step of the relay leaves every open socket on its way.
LEMMA NextRelay ==
  ASSUME RelayInv, [RelayNext]_relayVars
  PROVE  RelayInv'
<1>1. ASSUME NEW c \in Clients,
             JoinChecked(c) \/ Join(c) \/ ClientSends(c) \/ Receives(c) \/ Leaves(c) \/ Closes(c)
      PROVE  RelayInv'
  BY <1>1, JoinCheckedStep, JoinStep, SendsStep, ReceivesStep, LeavesStep, ClosesStep
<1>2. ASSUME NEW k \in RoomKeys, DeleteValue(k) \/ \E v \in RoomValues : PutValue(k, v)
      PROVE  RelayInv'
  BY <1>2, DeleteMirrored, PutMirrored
<1>3. CASE RoomRemoved \/ RemovalInterrupted \/ RelayStops
  BY <1>3, RemovedStep, InterruptedStep, StopsStep
<1>4. CASE UNCHANGED relayVars
  BY <1>4 DEF relayVars, RelayInv, RelayTypes, Converging, Ends
<1>5. QED
  BY <1>1, <1>2, <1>3, <1>4 DEF RelayNext

\* A client that read every frame of its open socket shows the document, for
\* every number of clients, keys, values and sockets: no mirror is missing, out
\* of order or of another client's making, but for a removal interrupted after
\* it emptied the room (room.js fetch, broadcastPut, webSocketMessage).
THEOREM AlwaysRelayConverges == RelaySpec => []RelayConverges
<1>1. RelayInv => RelayConverges
  <2> SUFFICES ASSUME RelayInv, NEW c \in Clients, socket[c].stage = "open", socket[c].frames = <<>>
               PROVE  \/ socket[c].seq = room.seq /\ socket[c].kv = room.kv
                      \/ room.exists /\ room.emptied = room.seq
                      \/ ~room.exists /\ socket[c].kv = EmptyRoom
    BY DEF RelayConverges
  <2>1. PICK v : Path(v, socket[c]) /\ Ends(v[Len(socket[c].frames) + 1])
    BY DEF RelayInv, Converging
  <2>2. Len(socket[c].frames) + 1 = 1
    OBVIOUS
  <2>3. Ends(Showing(socket[c]))
    BY <2>1, <2>2 DEF Path
  <2>4. QED
    BY <2>3 DEF Ends, Showing
<1>2. QED
  BY <1>1, InitRelay, NextRelay, PTL DEF RelaySpec

-----------------------------------------------------------------------------
(* The TURN budget *)

\* The TURN credentials by themselves.
TurnSpec == TurnInit /\ [][TurnNext]_turnVars

TurnRuns == {"issue", "alarm"}

TurnStages == {"idle", "started", "reading", "revoking", "minting", "storing", "arming"}

TurnRun == [stage : TurnStages, saw : BOOLEAN, asked : Hours \union {0},
            todo : SUBSET Creds, done : SUBSET Creds, cred : Creds \union {NoCred}]

TurnTypes ==
    /\ service \in [over : BOOLEAN, minted : SUBSET Creds, live : SUBSET Creds]
    /\ run \in [TurnRuns -> TurnRun]
    /\ listed \in SUBSET Creds /\ expired \in SUBSET Creds /\ held \in SUBSET Creds

\* What may leave the list: it has expired, or the service honours it no more.
Spent == expired \union (service.minted \ service.live)

\* The cell knows only what was minted.
Minted ==
    /\ service.live \subseteq service.minted
    /\ listed \subseteq service.minted /\ held \subseteq service.minted
    /\ \A r \in TurnRuns : run[r].todo \subseteq service.minted

\* What a run is done with is spent.
DoneSpent == \A r \in TurnRuns : run[r].done \subseteq Spent

\* The credential on its way to its participant.
OnItsWay ==
    /\ run["issue"].stage \in {"storing", "arming"} => run["issue"].cred \in service.minted
    /\ run["issue"].stage = "arming" => run["issue"].cred \in listed \union Spent

TurnInv == TurnTypes /\ Minted /\ DoneSpent /\ OnItsWay /\ TurnTracked

\* A run that does nothing holds nothing.
LEMMA IdleTurn ==
  /\ NoRun \in TurnRun
  /\ NoRun.stage = "idle" /\ NoRun.todo = {} /\ NoRun.done = {}
<1>1. NoRun \in TurnRun
  <2>1. 0 \in Hours \union {0} /\ NoCred \in Creds \union {NoCred} /\ {} \in SUBSET Creds
    OBVIOUS
  <2>2. "idle" \in TurnStages
    BY DEF TurnStages
  <2>3. QED
    BY <2>1, <2>2, Zenon DEF NoRun, TurnRun
<1>2. NoRun.stage = "idle" /\ NoRun.todo = {} /\ NoRun.done = {}
  BY DEF NoRun
<1>3. QED
  BY <1>1, <1>2

\* One run goes on, the other stays.
LEMMA RunTo ==
  ASSUME TurnInv, NEW r \in TurnRuns, NEW a \in TurnRun, run' = [run EXCEPT ![r] = a],
         UNCHANGED <<service, expired, held>>, listed' \subseteq listed, listed \ listed' \subseteq Spent,
         a.stage \notin {"storing", "arming"},
         a.todo \subseteq run[r].todo \union listed, a.done \subseteq run[r].done \union Spent
  PROVE  TurnInv'
<1> USE DEF TurnInv
<1>1. /\ run' \in [TurnRuns -> TurnRun] /\ run'[r] = a
      /\ \A q \in TurnRuns \ {r} : run'[q] = run[q]
  BY DEF TurnTypes
<1>2. TurnTypes' /\ Minted' /\ DoneSpent' /\ TurnTracked'
  BY <1>1 DEF TurnTypes, Minted, DoneSpent, TurnTracked, Spent
<1>3. OnItsWay'
  BY <1>1 DEF TurnTypes, OnItsWay, Spent, TurnRuns
<1>4. QED
  BY <1>2, <1>3

\* Nothing is minted at first.
LEMMA InitTurn == TurnInit => TurnInv
  BY IdleTurn DEF TurnInit, TurnInv, TurnTypes, Minted, DoneSpent, OnItsWay, TurnTracked, Spent, TurnRuns

\* What follows a reading lists nothing new and drops only what has expired.
LEMMA TurnGoesOn ==
  ASSUME TurnInv, NEW r \in TurnRuns, NEW current, GoesOn(r, current),
         run[r].stage \notin {"storing", "arming"}
  PROVE  TurnInv'
<1>1. /\ UNCHANGED <<service, expired, held>>
      /\ listed' \subseteq listed /\ listed \ listed' \subseteq Spent
  BY DEF GoesOn, Spent
<1>2. run[r] \in TurnRun /\ listed \in SUBSET Creds
  BY DEF TurnInv, TurnTypes
<1>3. CASE run' = [run EXCEPT ![r] = NoRun]
  BY <1>1, <1>3, IdleTurn, RunTo
<1>4. CASE current = "over"
  <2> DEFINE a == [run[r] EXCEPT !.stage = "revoking", !.todo = listed \ expired,
                                 !.done = listed \intersect expired]
  <2>1. a \in TurnRun
    BY <1>2 DEF TurnRun, TurnStages
  <2>2. a.stage = "revoking" /\ a.todo \subseteq listed /\ a.done \subseteq Spent
    BY <1>2 DEF TurnRun, Spent
  <2>3. run' = [run EXCEPT ![r] = a]
    BY <1>4 DEF GoesOn
  <2> HIDE DEF a
  <2>4. QED
    BY <1>1, <2>1, <2>2, <2>3, RunTo
<1>5. CASE run' = [run EXCEPT ![r].stage = "minting"]
  <2> DEFINE a == [run[r] EXCEPT !.stage = "minting"]
  <2>1. a \in TurnRun /\ a.stage = "minting" /\ a.todo = run[r].todo /\ a.done = run[r].done
    BY <1>2 DEF TurnRun, TurnStages
  <2>2. run' = [run EXCEPT ![r] = a]
    BY <1>5
  <2> HIDE DEF a
  <2>3. QED
    BY <1>1, <2>1, <2>2, RunTo
<1>6. QED
  BY <1>3, <1>4, <1>5 DEF GoesOn

\* Using the stored reading, asking for one and its answer.
LEMMA TurnReads ==
  ASSUME TurnInv, NEW r \in TurnRuns, UsesReading(r) \/ ReadingAnswered(r)
  PROVE  TurnInv'
<1>1. CASE UsesReading(r) /\ reading.age # "new"
  <2> DEFINE a == [run[r] EXCEPT !.stage = "reading", !.saw = service.over]
  <2>1. run[r] \in TurnRun /\ service.over \in BOOLEAN
    BY DEF TurnInv, TurnTypes
  <2>2. a \in TurnRun /\ a.stage = "reading" /\ a.todo = run[r].todo /\ a.done = run[r].done
    BY <2>1 DEF TurnRun, TurnStages
  <2>3. run' = [run EXCEPT ![r] = a] /\ UNCHANGED <<service, listed, expired, held>>
    BY <1>1 DEF UsesReading
  <2> HIDE DEF a
  <2>4. QED
    BY <2>2, <2>3, RunTo
<1>2. CASE UsesReading(r) /\ reading.age = "new"
  BY <1>2, TurnGoesOn DEF UsesReading
<1>3. CASE ReadingAnswered(r)
  BY <1>3, TurnGoesOn DEF ReadingAnswered
<1>4. QED
  BY <1>1, <1>2, <1>3

\* A revocation, done or failed, takes nothing off the list that may live.
LEMMA TurnRevokes ==
  ASSUME TurnInv, NEW r \in TurnRuns, (\E c \in Creds : Revokes(r, c)) \/ RevokeEnds(r)
  PROVE  TurnInv'
<1> USE DEF TurnInv
<1>1. ASSUME NEW c \in Creds, Revokes(r, c) PROVE TurnInv'
  <2>1. /\ service' \in [over : BOOLEAN, minted : SUBSET Creds, live : SUBSET Creds]
        /\ service'.minted = service.minted /\ service'.live \subseteq service.live
        /\ UNCHANGED <<listed, expired, held>>
    BY <1>1 DEF Revokes, TurnTypes
  <2>2. PICK a \in TurnRun :
           /\ run' = [run EXCEPT ![r] = a] /\ a.stage = "revoking" /\ a.todo \subseteq run[r].todo
           /\ a.done = run[r].done \/ (a.done = run[r].done \union {c} /\ c \notin service'.live)
    <3> DEFINE done == [run[r] EXCEPT !.todo = @ \ {c}, !.done = @ \union {c}]
               not == [run[r] EXCEPT !.todo = @ \ {c}]
    <3>1. run[r] \in TurnRun /\ run[r].stage = "revoking"
      BY <1>1 DEF Revokes, TurnTypes
    <3>2. /\ done \in TurnRun /\ done.stage = "revoking" /\ done.todo \subseteq run[r].todo
          /\ done.done = run[r].done \union {c}
      BY <3>1 DEF TurnRun
    <3>3. /\ not \in TurnRun /\ not.stage = "revoking" /\ not.todo \subseteq run[r].todo
          /\ not.done = run[r].done
      BY <3>1 DEF TurnRun
    <3>4. \/ run' = [run EXCEPT ![r] = done] /\ c \notin service'.live
          \/ run' = [run EXCEPT ![r] = not]
      BY <1>1 DEF Revokes, NotRevoked, TurnTypes
    <3> HIDE DEF done, not
    <3>5. QED
      BY <3>2, <3>3, <3>4
  <2>3. c \in service.minted
    BY <1>1 DEF Revokes, Minted
  <2>4. run' \in [TurnRuns -> TurnRun] /\ run'[r] = a /\ \A q \in TurnRuns \ {r} : run'[q] = run[q]
    BY <2>2 DEF TurnTypes
  <2>5. TurnTypes' /\ Minted'
    BY <2>1, <2>2, <2>4 DEF TurnTypes, Minted
  <2>6. DoneSpent'
    BY <2>1, <2>2, <2>3, <2>4 DEF DoneSpent, Spent
  <2>7. OnItsWay' /\ TurnTracked'
    BY <2>1, <2>2, <2>4 DEF TurnTypes, OnItsWay, TurnTracked, Spent, TurnRuns
  <2>8. QED
    BY <2>5, <2>6, <2>7
<1>2. CASE RevokeEnds(r)
  <2>1. /\ UNCHANGED <<service, expired, held>> /\ listed' = listed \ run[r].done
        /\ run' = [run EXCEPT ![r] = NoRun]
    BY <1>2 DEF RevokeEnds
  <2>2. run[r].done \subseteq Spent
    BY DEF DoneSpent
  <2>3. QED
    BY <2>1, <2>2, IdleTurn, RunTo
<1>3. QED
  BY <1>1, <1>2

\* A credential is listed before it is answered, and held only after.
LEMMA TurnIssues ==
  ASSUME TurnInv, IssueStarts \/ Mints \/ MintFails \/ Stores \/ Answers
  PROVE  TurnInv'
<1> USE DEF TurnInv
<1> "issue" \in TurnRuns /\ run["issue"] \in TurnRun
  BY DEF TurnTypes, TurnRuns
<1>1. CASE IssueStarts
  <2>1. PICK n \in Hours : run' = [run EXCEPT !["issue"] = [NoRun EXCEPT !.stage = "started", !.asked = n]]
    BY <1>1 DEF IssueStarts
  <2> DEFINE a == [NoRun EXCEPT !.stage = "started", !.asked = n]
  <2>2. a \in TurnRun /\ a.stage = "started" /\ a.todo = {} /\ a.done = {}
    BY IdleTurn DEF TurnRun, TurnStages
  <2>3. UNCHANGED <<service, listed, expired, held>>
    BY <1>1 DEF IssueStarts
  <2> HIDE DEF a
  <2>4. run' = [run EXCEPT !["issue"] = a]
    BY <2>1 DEF a
  <2>5. QED
    BY <2>2, <2>3, <2>4, RunTo
<1>2. CASE MintFails
  BY <1>2, IdleTurn, RunTo DEF MintFails
<1>3. CASE Mints
  <2>1. PICK c \in Creds \ service.minted :
           /\ service' = [service EXCEPT !.minted = @ \union {c}, !.live = @ \union {c}]
           /\ \/ run' = [run EXCEPT !["issue"].stage = "storing", !["issue"].cred = c]
              \/ run' = [run EXCEPT !["issue"] = NoRun]
           /\ UNCHANGED <<listed, expired, held>>
    BY <1>3 DEF Mints
  <2>2. PICK a \in TurnRun : /\ run' = [run EXCEPT !["issue"] = a]
                             /\ a.stage = "idle" \/ (a.stage = "storing" /\ a.cred = c)
                             /\ a.todo \subseteq run["issue"].todo /\ a.done \subseteq run["issue"].done
    <3> DEFINE a == [run["issue"] EXCEPT !.stage = "storing", !.cred = c]
    <3>1. /\ a \in TurnRun /\ a.stage = "storing" /\ a.cred = c
          /\ a.todo = run["issue"].todo /\ a.done = run["issue"].done
      BY DEF TurnRun, TurnStages
    <3>2. run' = [run EXCEPT !["issue"] = a] \/ run' = [run EXCEPT !["issue"] = NoRun]
      BY <2>1
    <3> HIDE DEF a
    <3>3. QED
      BY <3>1, <3>2, IdleTurn
  <2>3. run' \in [TurnRuns -> TurnRun] /\ run'["issue"] = a /\ \A q \in TurnRuns \ {"issue"} : run'[q] = run[q]
    BY <2>2 DEF TurnTypes
  <2>4. /\ service' \in [over : BOOLEAN, minted : SUBSET Creds, live : SUBSET Creds]
        /\ service'.minted = service.minted \union {c} /\ service'.live = service.live \union {c}
    BY <2>1 DEF TurnTypes
  <2>5. TurnTypes' /\ Minted' /\ OnItsWay'
    BY <2>1, <2>2, <2>3, <2>4 DEF TurnTypes, Minted, OnItsWay
  <2>6. DoneSpent'
    BY <2>1, <2>2, <2>3, <2>4 DEF TurnTypes, DoneSpent, Spent
  <2>7. TurnTracked'
    BY <2>1, <2>4 DEF TurnTypes, Minted, TurnTracked
  <2>8. QED
    BY <2>5, <2>6, <2>7
<1>4. CASE Stores
  <2> DEFINE a == [run["issue"] EXCEPT !.stage = "arming"]
  <2>1. /\ a \in TurnRun /\ a.stage = "arming" /\ a.cred = run["issue"].cred
        /\ a.todo = run["issue"].todo /\ a.done = run["issue"].done
    BY DEF TurnRun, TurnStages
  <2>2. /\ run' = [run EXCEPT !["issue"] = a] /\ UNCHANGED <<service, expired, held>>
        /\ listed' = listed \union {run["issue"].cred} /\ run["issue"].stage = "storing"
    BY <1>4 DEF Stores
  <2> HIDE DEF a
  <2>3. run' \in [TurnRuns -> TurnRun] /\ run'["issue"] = a /\ \A q \in TurnRuns \ {"issue"} : run'[q] = run[q]
    BY <2>1, <2>2 DEF TurnTypes
  <2>4. run["issue"].cred \in service.minted
    BY <2>2 DEF OnItsWay
  <2>5. TurnTypes' /\ Minted' /\ DoneSpent' /\ OnItsWay' /\ TurnTracked'
    BY <2>1, <2>2, <2>3, <2>4 DEF TurnTypes, Minted, DoneSpent, OnItsWay, TurnTracked, Spent
  <2>6. QED
    BY <2>5
<1>5. CASE Answers
  <2>1. /\ run' = [run EXCEPT !["issue"] = NoRun] /\ UNCHANGED <<service, listed, expired>>
        /\ held' = held \union {run["issue"].cred} /\ run["issue"].stage = "arming"
    BY <1>5 DEF Answers
  <2>2. run' \in [TurnRuns -> TurnRun] /\ run'["issue"] = NoRun /\ \A q \in TurnRuns \ {"issue"} : run'[q] = run[q]
    BY <2>1, IdleTurn DEF TurnTypes
  <2>3. run["issue"].cred \in service.minted /\ run["issue"].cred \in listed \union Spent
    BY <2>1 DEF OnItsWay
  <2>4. TurnTypes' /\ Minted' /\ DoneSpent' /\ OnItsWay'
    BY <2>1, <2>2, <2>3, IdleTurn DEF TurnTypes, Minted, DoneSpent, OnItsWay, Spent
  <2>5. TurnTracked'
    BY <2>1, <2>3 DEF TurnTracked, Spent
  <2>6. QED
    BY <2>4, <2>5
<1>6. QED
  BY <1>1, <1>2, <1>3, <1>4, <1>5

\* Every step keeps the list of what may live.
LEMMA NextTurn == TurnInv /\ [TurnNext]_turnVars => TurnInv'
<1> SUFFICES ASSUME TurnInv, [TurnNext]_turnVars PROVE TurnInv'
  OBVIOUS
<1>1. CASE BudgetReached \/ (\E c \in Creds : Expires(c)) \/ UNCHANGED turnVars \/ ReadingAges
  <2>1. /\ UNCHANGED <<run, listed, held>> /\ expired \subseteq expired' /\ expired' \in SUBSET Creds
        /\ service' \in [over : BOOLEAN, minted : SUBSET Creds, live : SUBSET Creds]
        /\ service'.minted = service.minted /\ service'.live = service.live
    BY <1>1 DEF BudgetReached, Expires, ReadingAges, turnVars, TurnInv, TurnTypes
  <2>2. QED
    BY <2>1 DEF TurnInv, TurnTypes, Minted, DoneSpent, OnItsWay, TurnTracked, Spent
<1>2. CASE AlarmStarts
  <2> DEFINE a == [NoRun EXCEPT !.stage = "started", !.todo = listed]
  <2>1. a \in TurnRun /\ a.stage = "started" /\ a.todo = listed /\ a.done = {}
    BY IdleTurn DEF TurnRun, TurnStages, TurnInv, TurnTypes
  <2>2. run' = [run EXCEPT !["alarm"] = a] /\ UNCHANGED <<service, listed, expired, held>>
    BY <1>2 DEF AlarmStarts
  <2> HIDE DEF a
  <2>3. QED
    BY <2>1, <2>2, RunTo DEF TurnRuns
<1>3. CASE TurnStops
  <2>1. run' = [r \in TurnRuns |-> NoRun] /\ UNCHANGED <<service, listed, expired, held>>
    BY <1>3 DEF TurnStops, TurnRuns
  <2>2. run' \in [TurnRuns -> TurnRun] /\ \A r \in TurnRuns : run'[r] = NoRun
    BY <2>1, IdleTurn
  <2>3. QED
    BY <2>1, <2>2, IdleTurn DEF TurnInv, TurnTypes, Minted, DoneSpent, OnItsWay, TurnTracked, Spent, TurnRuns
<1>4. CASE IssueStarts \/ Mints \/ MintFails \/ Stores \/ Answers
  BY <1>4, TurnIssues
<1>5. CASE \E r \in TurnRuns : \/ UsesReading(r) \/ ReadingAnswered(r) \/ RevokeEnds(r)
                               \/ \E c \in Creds : Revokes(r, c)
  BY <1>5, TurnReads, TurnRevokes
<1>6. QED
  BY <1>1, <1>2, <1>3, <1>4, <1>5 DEF TurnNext, IssueWorks, AlarmWorks, TurnRuns

\* A credential that a participant holds and that the service still honours is on
\* the list the cell revokes from, or has expired, for every number of them: a
\* run that stops, or one that overlaps another, forgets none (turn.js).
THEOREM AlwaysTurnTracked == TurnSpec => []TurnTracked
<1>1. TurnInv => TurnTracked
  BY DEF TurnInv
<1>2. QED
  BY <1>1, InitTurn, NextTurn, PTL DEF TurnSpec

\* A credential that a participant holds and the service honours is watched: an
\* alarm is set, or the run that would revoke it is at work.
TurnWatched == (held \intersect service.live) \ expired # {} => armed \/ run["alarm"].stage # "idle"

\* What the alarm leaves unrevoked it is set again for.
LEMMA AlarmWatches ==
  ASSUME TurnInv, TurnInv', TurnWatched,
         UsesReading("alarm") \/ ReadingAnswered("alarm") \/ RevokeEnds("alarm")
             \/ \E c \in Creds : Revokes("alarm", c)
  PROVE  TurnWatched'
<1>1. "alarm" \in TurnRuns /\ run \in [TurnRuns -> TurnRun] /\ TurnTracked'
  BY DEF TurnInv, TurnTypes, TurnRuns
<1>2. ASSUME NEW current, GoesOn("alarm", current) PROVE TurnWatched'
  <2>1. CASE current = "over"
    <3>1. run'["alarm"].stage = "revoking"
      BY <1>1, <1>2, <2>1 DEF GoesOn, TurnRun
    <3>2. QED
      BY <3>1 DEF TurnWatched
  <2>2. CASE current # "over"
    BY <1>1, <1>2, <2>2 DEF GoesOn, Rearmed, TurnWatched, TurnTracked
  <2>3. QED
    BY <2>1, <2>2
<1>3. CASE UsesReading("alarm") /\ reading.age # "new"
  <2>1. run'["alarm"].stage = "reading"
    BY <1>1, <1>3 DEF UsesReading, TurnRun
  <2>2. QED
    BY <2>1 DEF TurnWatched
<1>4. CASE RevokeEnds("alarm")
  BY <1>1, <1>4 DEF RevokeEnds, Rearmed, TurnWatched, TurnTracked
<1>5. ASSUME NEW c \in Creds, Revokes("alarm", c) PROVE TurnWatched'
  <2>1. run'["alarm"].stage = "revoking"
    BY <1>1, <1>5 DEF Revokes, NotRevoked, TurnRun
  <2>2. QED
    BY <2>1 DEF TurnWatched
<1>6. QED
  BY <1>2, <1>3, <1>4, <1>5 DEF UsesReading, ReadingAnswered

\* The request and the world: nothing disarms, and an answer arms.
LEMMA OthersWatch ==
  ASSUME TurnInv, TurnWatched,
         BudgetReached \/ ReadingAges \/ (\E c \in Creds : Expires(c)) \/ IssueStarts \/ IssueWorks
             \/ AlarmStarts \/ TurnStops \/ UNCHANGED turnVars
  PROVE  TurnWatched'
<1>1. "alarm" \in TurnRuns /\ "issue" \in TurnRuns /\ run \in [TurnRuns -> TurnRun]
      /\ held \subseteq service.minted
  BY DEF TurnInv, TurnTypes, TurnRuns, Minted
<1>2. CASE AlarmStarts
  <2>1. run'["alarm"].stage = "started"
    BY <1>1, <1>2 DEF AlarmStarts, NoRun
  <2>2. QED
    BY <2>1 DEF TurnWatched
<1>3. CASE Answers \/ TurnStops
  BY <1>3 DEF Answers, TurnStops, TurnWatched
<1>4. CASE Mints
  <2>1. \E c \in Creds \ service.minted : service'.live = service.live \union {c}
    BY <1>4 DEF Mints, TurnInv, TurnTypes
  <2>2. UNCHANGED <<armed, expired, held>> /\ run'["alarm"] = run["alarm"]
    BY <1>1, <1>4 DEF Mints
  <2>3. QED
    BY <1>1, <2>1, <2>2 DEF TurnWatched
<1>5. CASE BudgetReached \/ ReadingAges \/ (\E c \in Creds : Expires(c)) \/ UNCHANGED turnVars
  <2>1. UNCHANGED <<armed, run, held>> /\ expired \subseteq expired' /\ service'.live = service.live
    BY <1>5 DEF BudgetReached, ReadingAges, Expires, turnVars, TurnInv, TurnTypes
  <2>2. QED
    BY <2>1 DEF TurnWatched
<1>6. CASE IssueStarts \/ MintFails \/ Stores
  <2>1. UNCHANGED <<armed, service, held, expired>> /\ run'["alarm"] = run["alarm"]
    BY <1>1, <1>6 DEF IssueStarts, MintFails, Stores
  <2>2. QED
    BY <2>1 DEF TurnWatched
<1>7. CASE UsesReading("issue") \/ ReadingAnswered("issue") \/ RevokeEnds("issue")
  <2>1. UNCHANGED <<armed, service, held, expired>> /\ run'["alarm"] = run["alarm"]
    BY <1>1, <1>7 DEF UsesReading, ReadingAnswered, RevokeEnds, GoesOn
  <2>2. QED
    BY <2>1 DEF TurnWatched
<1>8. ASSUME NEW c \in Creds, Revokes("issue", c) PROVE TurnWatched'
  <2>1. UNCHANGED <<armed, held, expired>> /\ service'.live \subseteq service.live
    BY <1>8 DEF Revokes, TurnInv, TurnTypes
  <2>2. run'["alarm"] = run["alarm"]
    BY <1>1, <1>8 DEF Revokes, NotRevoked
  <2>3. QED
    BY <2>1, <2>2 DEF TurnWatched
<1>9. QED
  BY <1>2, <1>3, <1>4, <1>5, <1>6, <1>7, <1>8 DEF IssueWorks

\* No credential that is held, honoured and unexpired is left without an alarm
\* to come back for it, whichever call fails and wherever the cell stops (turn.js
\* issue, revokeAll, alarm): what TurnRevoked needs besides fairness.
THEOREM AlwaysTurnWatched == TurnSpec => []TurnWatched
<1>1. TurnInit => TurnInv /\ TurnWatched
  BY InitTurn DEF TurnInit, TurnWatched
<1>2. TurnInv /\ TurnWatched /\ [TurnNext]_turnVars => (TurnInv /\ TurnWatched)'
  <2> SUFFICES ASSUME TurnInv, TurnWatched, [TurnNext]_turnVars PROVE TurnInv' /\ TurnWatched'
    OBVIOUS
  <2>1. TurnInv'
    BY NextTurn
  <2>2. QED
    BY <2>1, AlarmWatches, OthersWatch DEF TurnNext, AlarmWorks
<1>3. QED
  BY <1>1, <1>2, PTL DEF TurnSpec

-----------------------------------------------------------------------------
(* The reminders *)

\* The reminders of a room by themselves.
PushSpec == PushInit /\ [][PushNext]_pushVars

Reminders == Subs \X (Items \union {"test"}) \X Nat

FireStages == {"idle", "firing", "sending", "testing"}

\* A record of the schedule, whatever its subscriptions are.
Schedule(p) ==
    /\ p = [subs |-> p.subs, due |-> p.due, lastTest |-> p.lastTest]
    /\ p.due \in [Items -> Nat] /\ p.lastTest \in Nat

PushTypes ==
    /\ clock \in 0..MaxClock
    /\ Schedule(push) /\ Schedule(fire.copy)
    /\ fire = [stage |-> fire.stage, copy |-> fire.copy, sends |-> fire.sends, gone |-> fire.gone]
    /\ fire.stage \in FireStages /\ fire.sends \subseteq Reminders
    /\ log \in Seq(Reminders)

Sending == fire.stage \in {"sending", "testing"}

\* A fire works on what it saved.
Copied ==
    /\ ~Sending => fire.sends = {}
    /\ Sending => fire.copy.due = push.due /\ fire.copy.lastTest = push.lastTest

\* The schedule p is past the reminder x.
Past(p, x) ==
    IF x[2] = "test" THEN p.lastTest # NoTime /\ x[3] <= p.lastTest ELSE x[3] < p.due[x[2]]

\* The schedule is past whatever was sent, and what is sent still was not.
SentPast ==
    /\ \A k \in DOMAIN log : Past(push, log[k])
    /\ \A x \in fire.sends : Past(push, x) /\ \A k \in DOMAIN log : log[k] # x

OnceInv == PushTypes /\ Copied /\ SentPast /\ PushOnce

\* The bounds of the schedule, one by one.
LEMMA PushBounds ==
  /\ Day \in Nat /\ Day > 0 /\ TestEvery \in Nat /\ TestEvery > 0
  /\ MaxClock \in Nat /\ MaxLate \in Nat /\ NoTime \in Nat /\ NoTime > MaxClock
  /\ \A i \in Items : Instant[i] \in Nat
  /\ "test" \notin Items
<1>1. Day \in Nat /\ Day > 0 /\ TestEvery \in Nat /\ TestEvery > 0 /\ MaxClock \in Nat /\ MaxLate \in Nat
  BY PushAssumption
<1>2. NoTime \in Nat /\ NoTime > MaxClock
  BY <1>1 DEF NoTime
<1>3. QED
  BY <1>1, <1>2, PushAssumption

\* A set of instants that is not empty has an earliest one.
LEMMA EarliestIsLeast ==
  ASSUME NEW S \in SUBSET Nat, S # {}
  PROVE  Earliest(S) \in S /\ \A u \in S : Earliest(S) <= u
<1>1. \E t \in S : \A u \in S : t <= u
  BY LowestExists
<1>2. QED
  BY <1>1 DEF Earliest

\* What is left over of a multiple.
LEMMA LeftOver ==
  ASSUME NEW d \in Nat \ {0}, NEW q \in Nat, NEW g \in 0..(d - 1)
  PROVE  (q * d + g) % d = g
  OBVIOUS

\* Every hour of the day comes within the next Day units.
LEMMA HourComes ==
  ASSUME NEW d \in Nat \ {0}, NEW at \in Nat, NEW h \in Nat
  PROVE  \E t \in (at + 1)..(at + d) : t % d = h % d
<1> DEFINE q == (at + 1) \div d
           r == (at + 1) % d
           g == h % d
<1>1. at + 1 = q * d + r /\ r \in 0..(d - 1) /\ q \in Nat /\ g \in 0..(d - 1)
  OBVIOUS
<1> HIDE DEF q, r, g
<1>2. CASE g >= r
  <2>1. (q * d + g) % d = g
    BY <1>1, LeftOver
  <2>2. q * d + g = at + 1 + (g - r)
    BY <1>1
  <2>3. at + 1 + (g - r) \in (at + 1)..(at + d)
    BY <1>1, <1>2
  <2>4. QED
    BY <2>1, <2>2, <2>3 DEF g
<1>3. CASE g < r
  <2>1. q + 1 \in Nat
    BY <1>1
  <2>2. ((q + 1) * d + g) % d = g
    BY <1>1, <2>1, LeftOver
  <2>3. (q + 1) * d + g = at + 1 + (g - r) + d
    BY <1>1
  <2>4. at + 1 + (g - r) + d \in (at + 1)..(at + d)
    BY <1>1, <1>3
  <2>5. QED
    BY <2>2, <2>3, <2>4 DEF g
<1>4. QED
  BY <1>1, <1>2, <1>3

\* A daily item is due again strictly later (push.js nextDue).
LEMMA DueLater ==
  ASSUME NEW i \in Items, NEW at \in Nat
  PROVE  DueAfter(i, at) \in Nat /\ (i \notin OneShot => DueAfter(i, at) > at)
<1>1. CASE i \in OneShot
  BY <1>1, PushBounds DEF DueAfter
<1>2. CASE i \notin OneShot
  <2> DEFINE S == {t \in (at + 1)..(at + Day) : t % Day = Instant[i] % Day}
  <2>1. S \in SUBSET Nat
    BY PushBounds
  <2>2. S # {}
    <3>1. Day \in Nat \ {0} /\ Instant[i] \in Nat
      BY PushBounds
    <3>2. \E t \in (at + 1)..(at + Day) : t % Day = Instant[i] % Day
      BY <3>1, HourComes
    <3>3. QED
      BY <3>2
  <2>3. Earliest(S) \in S
    BY <2>1, <2>2, EarliestIsLeast
  <2>4. DueAfter(i, at) = Earliest(S)
    BY <1>2 DEF DueAfter
  <2>5. QED
    BY <2>3, <2>4, PushBounds
<1>3. QED
  BY <1>1, <1>2

\* A schedule whose subscriptions, or whose last test, are written.
LEMMA ScheduleKept ==
  ASSUME NEW p, Schedule(p)
  PROVE  /\ \A subs : LET e == [p EXCEPT !.subs = subs] IN
               Schedule(e) /\ e.due = p.due /\ e.lastTest = p.lastTest
         /\ \A due \in [Items -> Nat] : LET e == [p EXCEPT !.due = due] IN
               Schedule(e) /\ e.due = due /\ e.lastTest = p.lastTest
         /\ \A at \in Nat : LET e == [p EXCEPT !.lastTest = at] IN
               Schedule(e) /\ e.due = p.due /\ e.lastTest = at
<1>1. ASSUME NEW subs
      PROVE  LET e == [p EXCEPT !.subs = subs] IN
               Schedule(e) /\ e.due = p.due /\ e.lastTest = p.lastTest
  <2>1. [p EXCEPT !.subs = subs] = [subs |-> subs, due |-> p.due, lastTest |-> p.lastTest]
    BY DEF Schedule
  <2>2. QED
    BY <2>1 DEF Schedule
<1>2. ASSUME NEW due \in [Items -> Nat]
      PROVE  LET e == [p EXCEPT !.due = due] IN
               Schedule(e) /\ e.due = due /\ e.lastTest = p.lastTest
  <2>1. [p EXCEPT !.due = due] = [subs |-> p.subs, due |-> due, lastTest |-> p.lastTest]
    BY DEF Schedule
  <2>2. QED
    BY <2>1 DEF Schedule
<1>3. ASSUME NEW at \in Nat
      PROVE  LET e == [p EXCEPT !.lastTest = at] IN
               Schedule(e) /\ e.due = p.due /\ e.lastTest = at
  <2>1. [p EXCEPT !.lastTest = at] = [subs |-> p.subs, due |-> p.due, lastTest |-> at]
    BY DEF Schedule
  <2>2. QED
    BY <2>1 DEF Schedule
<1>4. QED
  BY <1>1, <1>2, <1>3

\* A record of nothing is a schedule, and a fire of nothing sends nothing.
LEMMA NothingScheduled ==
  /\ Schedule(NoPush)
  /\ NoFire = [stage |-> "idle", copy |-> NoPush, sends |-> {}, gone |-> {}]
  /\ NoFire.stage = "idle" /\ NoFire.copy = NoPush /\ NoFire.sends = {}
  BY PushBounds DEF Schedule, NoPush, NoFire

LEMMA InitPush == PushInit => OnceInv
<1> SUFFICES ASSUME PushInit PROVE OnceInv
  OBVIOUS
<1>1. PushTypes
  BY NothingScheduled, PushBounds DEF PushInit, PushTypes, NoFire, FireStages
<1>2. QED
  BY <1>1, NothingScheduled DEF PushInit, OnceInv, Copied, SentPast, PushOnce, IsInjective, Sending

\* A step that leaves the due instants, the last test and the log as they are,
\* and sends nothing new.
LEMMA ScheduleStays ==
  ASSUME OnceInv, clock' \in 0..MaxClock, Schedule(push'), push'.due = push.due, push'.lastTest = push.lastTest,
         UNCHANGED log, UNCHANGED fire \/ (fire' = NoFire \/ fire' = [NoFire EXCEPT !.stage = "firing"])
  PROVE  OnceInv'
<1>1. /\ Schedule(fire'.copy) /\ fire'.stage \in FireStages /\ fire'.sends \subseteq fire.sends
      /\ fire' = [stage |-> fire'.stage, copy |-> fire'.copy, sends |-> fire'.sends, gone |-> fire'.gone]
      /\ UNCHANGED fire \/ (fire'.sends = {} /\ fire'.stage \in {"idle", "firing"})
  BY NothingScheduled DEF OnceInv, PushTypes, FireStages
<1>2. PushTypes'
  BY <1>1 DEF OnceInv, PushTypes
<1>3. Copied'
  BY <1>1 DEF OnceInv, Copied, Sending
<1>4. SentPast'
  BY <1>1 DEF OnceInv, SentPast, Past
<1>5. QED
  BY <1>2, <1>3, <1>4 DEF OnceInv, PushOnce

\* The requests but for the schedule and the test, the budget and the clock.
LEMMA QuietSteps ==
  ASSUME OnceInv,
         (\E s \in Subs : SubPut(s) \/ SubDel(s)) \/ BudgetPends \/ BudgetSettled \/ ClockRuns
             \/ AlarmFires \/ RoomStops
  PROVE  OnceInv'
<1>1. Schedule(push) /\ clock \in 0..MaxClock
  BY DEF OnceInv, PushTypes
<1>2. ASSUME NEW s \in Subs, SubPut(s) \/ SubDel(s) PROVE OnceInv'
  <2>1. UNCHANGED <<clock, fire, log>>
    BY <1>2 DEF SubPut, SubDel
  <2>2. \E subs : push' = [push EXCEPT !.subs = subs]
    <3>1. CASE SubPut(s)
      <4> DEFINE subs == [push.subs EXCEPT ![s] = IF @ = NoSub THEN [NoSub EXCEPT !.added = clock] ELSE @]
      <4>1. push' = [push EXCEPT !.subs = subs]
        BY <1>1, <3>1 DEF SubPut, SavePush, Schedule
      <4>2. QED
        BY <4>1
    <3>2. CASE SubDel(s)
      <4> DEFINE subs == [push.subs EXCEPT ![s] = NoSub]
      <4>1. push' = [push EXCEPT !.subs = subs]
        BY <1>1, <3>2 DEF SubDel, SavePush, Schedule
      <4>2. QED
        BY <4>1
    <3>3. QED
      BY <1>2, <3>1, <3>2
  <2>3. Schedule(push') /\ push'.due = push.due /\ push'.lastTest = push.lastTest
    BY <1>1, <2>2, ScheduleKept
  <2>4. QED
    BY <1>1, <2>1, <2>3, ScheduleStays
<1>3. CASE BudgetPends \/ BudgetSettled
  <2>1. UNCHANGED <<clock, push, fire, log>>
    BY <1>3 DEF BudgetPends, BudgetSettled
  <2>2. QED
    BY <1>1, <2>1, ScheduleStays
<1>4. CASE ClockRuns
  <2>1. UNCHANGED <<push, fire, log>> /\ clock' \in 0..MaxClock
    BY <1>1, <1>4, PushBounds DEF ClockRuns
  <2>2. QED
    BY <1>1, <2>1, ScheduleStays
<1>5. CASE AlarmFires
  <2>1. UNCHANGED <<clock, push, log>> /\ fire' = [NoFire EXCEPT !.stage = "firing"]
    BY <1>5 DEF AlarmFires
  <2>2. QED
    BY <1>1, <2>1, ScheduleStays
<1>6. CASE RoomStops
  <2>1. UNCHANGED <<clock, push, log>> /\ fire' = NoFire
    BY <1>6 DEF RoomStops
  <2>2. QED
    BY <1>1, <2>1, ScheduleStays
<1>7. QED
  BY <1>2, <1>3, <1>4, <1>5, <1>6

\* A schedule is put only while nothing is sent, and begins a new log.
LEMMA PutStep ==
  ASSUME OnceInv, NEW items \in SUBSET Items, SchedulePut(items)
  PROVE  OnceInv'
<1>1. PICK asked \in {t \in 0..clock : clock - t <= MaxLate} :
         push' = [push EXCEPT !.due = [i \in Items |-> IF i \in items THEN DueAfter(i, asked) ELSE NoTime]]
  BY DEF SchedulePut, SavePush
<1>2. asked \in Nat /\ clock \in 0..MaxClock /\ Schedule(push)
  BY DEF OnceInv, PushTypes
<1>3. [i \in Items |-> IF i \in items THEN DueAfter(i, asked) ELSE NoTime] \in [Items -> Nat]
  BY <1>2, DueLater, PushBounds
<1>4. Schedule(push')
  BY <1>1, <1>2, <1>3, ScheduleKept
<1>5. UNCHANGED <<clock, fire>> /\ log' = <<>> /\ fire.stage = "idle"
  BY DEF SchedulePut, Edits
<1>6. ~Sending /\ fire.sends = {}
  BY <1>5 DEF Sending, OnceInv, Copied
<1>7. PushTypes'
  BY <1>4, <1>5 DEF OnceInv, PushTypes
<1>8. QED
  BY <1>5, <1>6, <1>7 DEF OnceInv, Copied, Sending, SentPast, PushOnce, IsInjective

\* A test is later than the last one, and its instant is saved before it is sent.
LEMMA TestStep ==
  ASSUME OnceInv, TestStarts
  PROVE  OnceInv'
<1> DEFINE record == [push EXCEPT !.lastTest = clock]
           sends == {<<s, "test", clock>> : s \in Subscribed(push)}
<1>1. /\ push' = record /\ UNCHANGED <<clock, log>>
      /\ fire' = [NoFire EXCEPT !.stage = "testing", !.copy = record, !.sends = sends]
      /\ push.lastTest = NoTime \/ clock - push.lastTest >= TestEvery
  BY DEF TestStarts, SavePush
<1>2. clock \in 0..MaxClock /\ Schedule(push) /\ clock \in Nat /\ clock # NoTime
  BY PushBounds DEF OnceInv, PushTypes
<1>3. Schedule(record) /\ record.due = push.due /\ record.lastTest = clock
  BY <1>2, ScheduleKept
<1>4. sends \subseteq Reminders
  BY <1>2 DEF Reminders, Subscribed
<1>5. \A x \in sends : x[2] = "test" /\ x[3] = clock
  OBVIOUS
<1> HIDE DEF record, sends
<1>6. fire' = [stage |-> "testing", copy |-> record, sends |-> sends, gone |-> {}]
  BY <1>1, NothingScheduled
<1>7. PushTypes'
  BY <1>1, <1>2, <1>3, <1>4, <1>6 DEF OnceInv, PushTypes, FireStages
<1>8. Copied'
  BY <1>1, <1>6 DEF Copied, Sending
<1>9. SentPast'
  <2>1. ASSUME NEW k \in DOMAIN log PROVE Past(push', log[k]) /\ \A x \in sends : log[k] # x
    <3>1. log[k] \in Reminders /\ Past(push, log[k])
      BY DEF OnceInv, PushTypes, SentPast
    <3>2. log[k][3] \in Nat
      BY <3>1 DEF Reminders
    <3>3. CASE log[k][2] = "test"
      <4>1. push.lastTest # NoTime /\ log[k][3] <= push.lastTest
        BY <3>1, <3>3 DEF Past
      <4>2. log[k][3] < clock
        BY <1>1, <1>2, <3>2, <4>1, PushBounds DEF Schedule
      <4>3. QED
        BY <1>1, <1>2, <1>3, <1>5, <3>2, <3>3, <4>2 DEF Past
    <3>4. CASE log[k][2] # "test"
      BY <1>1, <1>3, <1>5, <3>1, <3>4 DEF Past
    <3>5. QED
      BY <3>3, <3>4
  <2>2. \A x \in sends : Past(push', x)
    BY <1>1, <1>2, <1>3, <1>5 DEF Past
  <2>3. QED
    BY <1>1, <1>6, <2>1, <2>2 DEF SentPast
<1>10. QED
  BY <1>1, <1>7, <1>8, <1>9 DEF OnceInv, PushOnce

\* A fire saves the schedule past what it is about to send (room.js firePush).
LEMMA FireStep ==
  ASSUME OnceInv, FireStarts
  PROVE  OnceInv'
<1>1. clock \in 0..MaxClock /\ Schedule(push) /\ clock \in Nat /\ clock < NoTime /\ NoTime \in Nat
  BY PushBounds DEF OnceInv, PushTypes
<1>2. UNCHANGED <<clock, log>> /\ fire.stage = "firing"
  BY DEF FireStarts
<1>3. CASE fire' = NoFire /\ push' = push
  BY <1>1, <1>2, <1>3, ScheduleStays
<1>4. CASE fire' = [fire EXCEPT !.stage = "sending", !.copy = Advanced, !.sends = FreshSends] /\ push' = Advanced
  <2> DEFINE due == [i \in Items |->
             IF i \notin DueItems THEN push.due[i] ELSE IF i \in OneShot THEN NoTime ELSE DueAfter(i, clock)]
  <2>1. push.due \in [Items -> Nat]
    BY <1>1 DEF Schedule
  <2>2. due \in [Items -> Nat]
    BY <1>1, <2>1, DueLater
  <2>3. \A i \in Items : push.due[i] <= due[i] /\ (i \in DueItems => push.due[i] < due[i])
    <3> SUFFICES ASSUME NEW i \in Items PROVE push.due[i] <= due[i] /\ (i \in DueItems => push.due[i] < due[i])
      OBVIOUS
    <3>1. push.due[i] \in Nat
      BY <2>1
    <3>2. CASE i \notin DueItems
      BY <3>1, <3>2
    <3>3. CASE i \in DueItems /\ i \in OneShot
      <4>1. due[i] = NoTime /\ push.due[i] <= clock
        BY <3>3 DEF DueItems
      <4>2. QED
        BY <1>1, <3>1, <4>1
    <3>4. CASE i \in DueItems /\ i \notin OneShot
      <4>1. due[i] = DueAfter(i, clock) /\ push.due[i] <= clock
        BY <3>4 DEF DueItems
      <4>2. DueAfter(i, clock) \in Nat /\ DueAfter(i, clock) > clock
        BY <1>1, <3>4, DueLater
      <4>3. QED
        BY <1>1, <3>1, <4>1, <4>2
    <3>5. QED
      BY <3>2, <3>3, <3>4
  <2>4. Advanced = [push EXCEPT !.due = due]
    BY <1>1 DEF Advanced, Schedule
  <2> HIDE DEF due
  <2>5. Schedule(Advanced) /\ Advanced.due = due /\ Advanced.lastTest = push.lastTest
    BY <1>1, <2>2, <2>4, ScheduleKept
  <2>6. FreshSends \subseteq Reminders
    BY <2>1 DEF FreshSends, Reminders, Subscribed, DueItems
  <2>7. fire' = [stage |-> "sending", copy |-> Advanced, sends |-> FreshSends, gone |-> fire.gone]
    BY <1>4 DEF OnceInv, PushTypes
  <2>8. PushTypes'
    BY <1>2, <1>4, <2>5, <2>6, <2>7 DEF OnceInv, PushTypes, FireStages
  <2>9. Copied'
    BY <1>4, <2>7 DEF Copied, Sending
  <2>10. ASSUME NEW x \in FreshSends
         PROVE  Past(push', x) /\ \A k \in DOMAIN log : log[k] # x
    <3>1. PICK s \in Subs, i \in DueItems : x = <<s, i, push.due[i]>>
      BY DEF FreshSends, Subscribed
    <3>2. x[2] = i /\ x[3] = push.due[i] /\ i \in Items /\ i # "test" /\ push.due[i] \in Nat
      BY <2>1, <3>1, PushBounds DEF DueItems
    <3>3. Past(push', x)
      BY <1>4, <2>3, <2>5, <3>1, <3>2 DEF Past
    <3>4. ASSUME NEW k \in DOMAIN log, log[k] = x PROVE FALSE
      <4>1. Past(push, x)
        BY <3>4 DEF OnceInv, SentPast
      <4>2. push.due[i] < push.due[i]
        BY <3>2, <4>1 DEF Past
      <4>3. QED
        BY <3>2, <4>2
    <3>5. QED
      BY <3>3, <3>4
  <2>11. ASSUME NEW k \in DOMAIN log PROVE Past(push', log[k])
    <3>1. log[k] \in Reminders /\ Past(push, log[k])
      BY DEF OnceInv, PushTypes, SentPast
    <3>2. CASE log[k][2] = "test"
      BY <1>4, <2>5, <3>1, <3>2 DEF Past
    <3>3. CASE log[k][2] # "test"
      <4>1. log[k][2] \in Items /\ log[k][3] \in Nat /\ log[k][3] < push.due[log[k][2]]
        BY <3>1, <3>3 DEF Reminders, Past
      <4>2. push.due[log[k][2]] <= due[log[k][2]] /\ push.due[log[k][2]] \in Nat /\ due[log[k][2]] \in Nat
        BY <2>1, <2>2, <2>3, <4>1
      <4>3. log[k][3] < due[log[k][2]]
        BY <4>1, <4>2
      <4>4. QED
        BY <1>4, <2>5, <3>3, <4>3 DEF Past
    <3>4. QED
      BY <3>2, <3>3
  <2>12. SentPast'
    BY <1>2, <2>7, <2>10, <2>11 DEF SentPast
  <2>13. QED
    BY <1>2, <2>8, <2>9, <2>12 DEF OnceInv, PushOnce
<1>5. QED
  BY <1>3, <1>4 DEF FireStarts, SavePush, SaveAdvanced

\* A reminder that is sent is new to the log, and is sent no more.
LEMMA SendStep ==
  ASSUME OnceInv, NEW x \in fire.sends, Sends(x)
  PROVE  OnceInv'
<1> DEFINE sub == fire.copy.subs[x[1]]
           copy == [fire.copy EXCEPT !.subs[x[1]] = Charged(@, x[3] \div Day + 1)]
<1>1. /\ UNCHANGED <<clock, push>> /\ Sending /\ x \in Reminders
      /\ Schedule(fire.copy)
  BY DEF Sends, Sending, OnceInv, PushTypes
<1>2. Schedule(copy) /\ copy.due = fire.copy.due /\ copy.lastTest = fire.copy.lastTest
  <2>1. copy = [fire.copy EXCEPT !.subs = [fire.copy.subs EXCEPT ![x[1]] = Charged(@, x[3] \div Day + 1)]]
    BY <1>1 DEF Schedule
  <2>2. QED
    BY <1>1, <2>1, ScheduleKept
<1> HIDE DEF copy
<1>3. /\ fire' = [stage |-> fire'.stage, copy |-> fire'.copy, sends |-> fire'.sends, gone |-> fire'.gone]
      /\ fire'.stage = fire.stage /\ fire'.sends = fire.sends \ {x}
      /\ fire'.copy \in {fire.copy, copy}
  <2> DEFINE sending == [fire EXCEPT !.sends = @ \ {x}, !.copy = copy]
  <2>1. fire = [stage |-> fire.stage, copy |-> fire.copy, sends |-> fire.sends, gone |-> fire.gone]
    BY DEF OnceInv, PushTypes
  <2>2. sending = [stage |-> fire.stage, copy |-> copy, sends |-> fire.sends \ {x}, gone |-> fire.gone]
    <3> DEFINE left == [fire EXCEPT !.sends = @ \ {x}]
    <3>1. left = [stage |-> fire.stage, copy |-> fire.copy, sends |-> fire.sends \ {x}, gone |-> fire.gone]
      BY <2>1
    <3>2. sending = [left EXCEPT !.copy = copy]
      OBVIOUS
    <3> HIDE DEF left, sending
    <3>3. QED
      BY <3>1, <3>2
  <2> HIDE DEF sending
  <2>3. \/ fire' = [fire EXCEPT !.sends = @ \ {x}]
        \/ fire' = sending
        \/ fire' = [sending EXCEPT !.gone = IF Prunable(sub) THEN @ \union {x[1]} ELSE @]
    BY DEF Sends, sending, copy
  <2>4. CASE fire' = [fire EXCEPT !.sends = @ \ {x}]
    <3>1. fire' = [stage |-> fire.stage, copy |-> fire.copy, sends |-> fire.sends \ {x}, gone |-> fire.gone]
      BY <2>1, <2>4
    <3>2. QED
      BY <3>1
  <2>5. CASE fire' = sending
    BY <2>2, <2>5
  <2>6. CASE fire' = [sending EXCEPT !.gone = IF Prunable(sub) THEN @ \union {x[1]} ELSE @]
    <3> DEFINE gone == IF Prunable(sub) THEN sending.gone \union {x[1]} ELSE sending.gone
    <3>1. fire' = [sending EXCEPT !.gone = gone]
      BY <2>6
    <3> HIDE DEF gone
    <3>2. fire' = [stage |-> fire.stage, copy |-> copy, sends |-> fire.sends \ {x}, gone |-> gone]
      BY <2>2, <3>1
    <3>3. QED
      BY <3>2
  <2>7. QED
    BY <2>3, <2>4, <2>5, <2>6
<1>4. log' = log \/ log' = Append(log, x)
  BY DEF Sends
<1>5. log \in Seq(Reminders)
  BY DEF OnceInv, PushTypes
<1>6. PushTypes'
  <2>1. Schedule(fire'.copy)
    BY <1>1, <1>2, <1>3
  <2>2. log' \in Seq(Reminders)
    BY <1>1, <1>4, <1>5
  <2>3. QED
    BY <1>1, <1>3, <2>1, <2>2 DEF OnceInv, PushTypes
<1>7. Copied'
  BY <1>1, <1>2, <1>3 DEF OnceInv, Copied, Sending
<1>8. Past(push, x) /\ \A k \in DOMAIN log : log[k] # x
  BY DEF OnceInv, SentPast
<1>9. CASE log' = log
  <2>1. SentPast'
    BY <1>1, <1>3, <1>9 DEF OnceInv, SentPast
  <2>2. QED
    BY <1>6, <1>7, <1>9, <2>1 DEF OnceInv, PushOnce
<1>10. CASE log' = Append(log, x)
  <2>1. /\ Len(log) \in Nat /\ DOMAIN log = 1..Len(log) /\ DOMAIN log' = 1..(Len(log) + 1)
        /\ \A k \in 1..Len(log) : log'[k] = log[k]
        /\ log'[Len(log) + 1] = x
    BY <1>1, <1>5, <1>10
  <2>2. \A k \in DOMAIN log' : k \in DOMAIN log \/ k = Len(log) + 1
    BY <2>1
  <2>3. SentPast'
    <3>1. ASSUME NEW k \in DOMAIN log' PROVE Past(push', log'[k]) /\ \A y \in fire'.sends : log'[k] # y
      BY <1>1, <1>3, <1>8, <2>1, <2>2 DEF OnceInv, SentPast
    <3>2. \A y \in fire'.sends : Past(push', y)
      BY <1>1, <1>3 DEF OnceInv, SentPast
    <3>3. QED
      BY <3>1, <3>2 DEF SentPast
  <2>4. PushOnce'
    <3>1. IsInjective(log)
      BY DEF OnceInv, PushOnce
    <3>2. \A a, b \in DOMAIN log' : log'[a] = log'[b] => a = b
      BY <1>8, <2>1, <2>2, <3>1 DEF IsInjective
    <3>3. QED
      BY <3>2 DEF PushOnce, IsInjective
  <2>5. QED
    BY <1>6, <1>7, <2>3, <2>4 DEF OnceInv
<1>11. QED
  BY <1>4, <1>9, <1>10

\* The end of a fire saves the due instants it began with.
LEMMA EndStep ==
  ASSUME OnceInv, FireEnds
  PROVE  OnceInv'
<1>1. Sending /\ Schedule(fire.copy) /\ clock \in 0..MaxClock
  BY DEF OnceInv, PushTypes, FireEnds, Sending
<1>2. fire.copy.due = push.due /\ fire.copy.lastTest = push.lastTest
  BY <1>1 DEF OnceInv, Copied
<1>3. UNCHANGED <<clock, log>> /\ fire' = NoFire
  BY DEF FireEnds
<1>4. \E subs : push' = [fire.copy EXCEPT !.subs = subs]
  BY DEF FireEnds, SavePush
<1>5. Schedule(push') /\ push'.due = push.due /\ push'.lastTest = push.lastTest
  BY <1>1, <1>2, <1>4, ScheduleKept
<1>6. QED
  BY <1>1, <1>3, <1>5, ScheduleStays

\* Every step keeps the schedule past what was sent.
LEMMA NextPush == OnceInv /\ [PushNext]_pushVars => OnceInv'
<1> SUFFICES ASSUME OnceInv, [PushNext]_pushVars PROVE OnceInv'
  OBVIOUS
<1>1. CASE (\E s \in Subs : SubPut(s) \/ SubDel(s)) \/ BudgetPends \/ BudgetSettled \/ ClockRuns
             \/ AlarmFires \/ RoomStops
  BY <1>1, QuietSteps
<1>2. CASE \E items \in SUBSET Items : SchedulePut(items)
  BY <1>2, PutStep
<1>3. CASE TestStarts \/ FireStarts \/ FireEnds
  BY <1>3, TestStep, FireStep, EndStep
<1>4. CASE \E x \in fire.sends : Sends(x)
  BY <1>4, SendStep
<1>5. CASE UNCHANGED pushVars
  <2>1. UNCHANGED <<clock, push, fire, log>> /\ Schedule(push) /\ clock \in 0..MaxClock
    BY <1>5 DEF pushVars, OnceInv, PushTypes
  <2>2. QED
    BY <2>1, ScheduleStays
<1>6. QED
  BY <1>1, <1>2, <1>3, <1>4, <1>5 DEF PushNext, FireWorks

\* A reminder is sent at most once to a subscription, for every number of
\* subscriptions and items and whatever their hours: a stop in the middle of a
\* fire repeats nothing (room.js firePush, pushTest).
THEOREM AlwaysPushOnce == PushSpec => []PushOnce
<1>1. OnceInv => PushOnce
  BY DEF OnceInv
<1>2. QED
  BY <1>1, InitPush, NextPush, PTL DEF PushSpec
TimersTyped == timer \in Nat /\ retryAt \in 0..NoTime

\* An alarm is set for every due instant and for the budget retry, or is due
\* already, or is at work before it read the schedule.
PushArmed ==
    /\ \A i \in Items : timer <= push.due[i] \/ timer <= clock \/ fire.stage = "firing"
    /\ timer <= retryAt \/ timer <= clock

\* A save of either side arms for both.
LEMMA SaveArms ==
  ASSUME NEW record, Schedule(record), NEW retry \in Nat, Rearm(record, retry)
  PROVE  timer' \in Nat /\ timer' <= retry /\ \A i \in Items : timer' <= record.due[i]
<1> DEFINE D == {record.due[i] : i \in Items} \union {NoTime}
<1>1. D \in SUBSET Nat /\ NoTime \in D
  BY PushBounds DEF Schedule
<1>2. NextFireAt(record) \in Nat /\ \A u \in D : NextFireAt(record) <= u
  BY <1>1, EarliestIsLeast DEF NextFireAt
<1>3. timer' \in {NextFireAt(record), retry} /\ timer' <= NextFireAt(record) /\ timer' <= retry
  <2> HIDE DEF D
  <2>1. {NextFireAt(record), retry} \in SUBSET Nat
    BY <1>2
  <2>2. QED
    BY <2>1, EarliestIsLeast DEF Rearm
<1>4. ASSUME NEW i \in Items PROVE timer' <= record.due[i]
  <2>1. record.due[i] \in D /\ record.due[i] \in Nat
    BY DEF Schedule
  <2> HIDE DEF D
  <2>2. NextFireAt(record) <= record.due[i]
    BY <1>2, <2>1
  <2>3. QED
    BY <1>2, <1>3, <2>1, <2>2
<1>5. QED
  BY <1>2, <1>3, <1>4

\* Whatever saves leaves the cell armed.
LEMMA SavedArmed ==
  ASSUME OnceInv', retryAt' \in 0..NoTime, Rearm(push', retryAt')
  PROVE  TimersTyped' /\ PushArmed'
<1>1. Schedule(push') /\ retryAt' \in Nat
  BY PushBounds DEF OnceInv, PushTypes
<1>2. timer' \in Nat /\ timer' <= retryAt' /\ \A i \in Items : timer' <= push'.due[i]
  BY <1>1, SaveArms
<1>3. QED
  BY <1>2 DEF TimersTyped, PushArmed

LEMMA RequestsArm ==
  ASSUME OnceInv', TimersTyped,
         \/ \E s \in Subs : SubPut(s) \/ SubDel(s)
         \/ \E items \in SUBSET Items : SchedulePut(items)
         \/ BudgetPends \/ BudgetSettled \/ TestStarts \/ FireEnds,
         clock \in 0..MaxClock
  PROVE  TimersTyped' /\ PushArmed'
<1>1. retryAt' \in 0..NoTime
  <2>1. CASE BudgetPends \/ BudgetSettled
    <3>1. retryAt' \in {clock + 1, NoTime}
      BY <2>1 DEF BudgetPends, BudgetSettled, SaveRetry
    <3>2. QED
      BY <3>1, PushBounds
  <2>2. CASE UNCHANGED retryAt
    BY <2>2 DEF TimersTyped
  <2>3. QED
    BY <2>1, <2>2 DEF SubPut, SubDel, SchedulePut, TestStarts, FireEnds
<1>2. Rearm(push', retryAt')
  <2>1. CASE BudgetPends \/ BudgetSettled
    BY <2>1 DEF BudgetPends, BudgetSettled, SaveRetry
  <2>2. CASE \E s \in Subs : SubPut(s) \/ SubDel(s)
    BY <2>2 DEF SubPut, SubDel, SavePush
  <2>3. CASE \E items \in SUBSET Items : SchedulePut(items)
    BY <2>3 DEF SchedulePut, SavePush
  <2>4. CASE TestStarts \/ FireEnds
    BY <2>4 DEF TestStarts, FireEnds, SavePush
  <2>5. QED
    BY <2>1, <2>2, <2>3, <2>4
<1>3. QED
  BY <1>1, <1>2, SavedArmed

\* The runtime consumed the alarm: a fire with nothing due sets it again, and so
\* does one that stops.
LEMMA FiresArm ==
  ASSUME OnceInv, OnceInv', TimersTyped, PushArmed, AlarmFires \/ FireStarts
  PROVE  TimersTyped' /\ PushArmed'
<1>1. clock \in Nat /\ clock < NoTime /\ Schedule(push) /\ NoFire.stage = "idle" /\ NoTime \in Nat
  BY NothingScheduled, PushBounds DEF OnceInv, PushTypes
<1>2. CASE AlarmFires
  <2>1. CASE retryAt = NoTime
    <3>1. UNCHANGED <<clock, push, retryAt>> /\ timer' = NoTime /\ fire'.stage = "firing"
      BY <1>1, <1>2, <2>1 DEF AlarmFires, NoFire
    <3>2. QED
      BY <1>1, <2>1, <3>1 DEF TimersTyped, PushArmed
  <2>2. CASE retryAt # NoTime
    <3>1. retryAt' \in {NoTime, clock + 1} /\ Rearm(push', retryAt')
      BY <1>2, <2>2 DEF AlarmFires, SaveRetry
    <3>2. retryAt' \in 0..NoTime
      BY <1>1, <3>1
    <3>3. QED
      BY <3>1, <3>2, SavedArmed
  <2>3. QED
    BY <2>1, <2>2
<1>3. CASE FireStarts
  <2>1. CASE Rearm(push', retryAt')
    BY <1>3, <2>1, SavedArmed DEF FireStarts, TimersTyped
  <2>2. CASE Scheduled(push) = {} /\ UNCHANGED <<push, timer>>
    <3>1. UNCHANGED <<clock, push, retryAt, timer>>
      BY <1>3, <2>2 DEF FireStarts
    <3>2. \A i \in Items : push.due[i] = NoTime
      BY <2>2 DEF Scheduled
    <3>3. timer <= NoTime
      BY <1>1 DEF TimersTyped, PushArmed
    <3>4. QED
      BY <1>1, <3>1, <3>2, <3>3 DEF TimersTyped, PushArmed
  <2>3. QED
    BY <1>3, <2>1, <2>2 DEF FireStarts, SaveAdvanced, SavePush
<1>4. QED
  BY <1>2, <1>3

LEMMA OthersArm ==
  ASSUME OnceInv, OnceInv', TimersTyped, PushArmed,
         (\E x \in fire.sends : Sends(x)) \/ RoomStops \/ ClockRuns \/ UNCHANGED pushVars
  PROVE  TimersTyped' /\ PushArmed'
<1>1. clock \in Nat /\ Schedule(push) /\ Schedule(fire.copy) /\ NoTime \in Nat
  BY PushBounds DEF OnceInv, PushTypes
<1>2. CASE RoomStops
  <2>1. /\ UNCHANGED <<clock, push, retryAt>> /\ timer' \in Nat
        /\ timer' <= clock \/ (timer' = timer /\ fire.stage = "testing")
    <3>1. CASE fire.stage = "testing"
      BY <1>2, <3>1 DEF RoomStops, TimersTyped
    <3>2. CASE fire.stage # "testing"
      <4>1. timer' = Earliest({timer, clock}) /\ UNCHANGED <<clock, push, retryAt>>
        BY <1>2, <3>2 DEF RoomStops
      <4>2. {timer, clock} \in SUBSET Nat
        BY <1>1 DEF TimersTyped
      <4>3. timer' \in Nat /\ timer' <= clock
        BY <1>1, <4>1, <4>2, EarliestIsLeast
      <4>4. QED
        BY <4>1, <4>3
    <3>3. QED
      BY <3>1, <3>2
  <2>2. CASE timer' <= clock
    BY <2>1, <2>2 DEF TimersTyped, PushArmed
  <2>3. CASE timer' = timer /\ fire.stage = "testing"
    BY <2>1, <2>3 DEF TimersTyped, PushArmed
  <2>4. QED
    BY <2>1, <2>2, <2>3
<1>3. CASE ClockRuns
  <2>1. clock' = clock + 1 /\ UNCHANGED <<push, retryAt, timer, fire>>
    BY <1>3 DEF ClockRuns
  <2>2. QED
    BY <1>1, <2>1 DEF TimersTyped, PushArmed, Schedule
<1>4. ASSUME NEW x \in fire.sends, Sends(x) PROVE TimersTyped' /\ PushArmed'
  <2>1. UNCHANGED <<clock, push, retryAt, timer>> /\ fire.stage # "firing"
    BY <1>4 DEF Sends
  <2>2. QED
    BY <2>1 DEF TimersTyped, PushArmed
<1>5. CASE UNCHANGED pushVars
  BY <1>5 DEF pushVars, TimersTyped, PushArmed
<1>6. QED
  BY <1>2, <1>3, <1>4, <1>5

\* Nothing due and no pending budget operation is left without its alarm: the
\* two sides share one alarm, which the runtime consumes as it fires, and either
\* side's save, a refused retry and a stop in the middle of a fire all leave it
\* set for both (room.js rearm, firePush).  It is what PushFires needs besides
\* fairness.
THEOREM AlwaysPushArmed == PushSpec => []PushArmed
<1>1. PushInit => OnceInv /\ TimersTyped /\ PushArmed
  <2> SUFFICES ASSUME PushInit PROVE TimersTyped /\ PushArmed
    BY InitPush
  <2>1. timer = NoTime /\ retryAt = NoTime /\ \A i \in Items : push.due[i] = NoTime
    BY DEF PushInit, NoPush
  <2>2. QED
    BY <2>1, PushBounds DEF TimersTyped, PushArmed
<1>2. OnceInv /\ TimersTyped /\ PushArmed /\ [PushNext]_pushVars => (OnceInv /\ TimersTyped /\ PushArmed)'
  <2> SUFFICES ASSUME OnceInv, TimersTyped, PushArmed, [PushNext]_pushVars
               PROVE  OnceInv' /\ TimersTyped' /\ PushArmed'
    OBVIOUS
  <2>1. OnceInv' /\ clock \in 0..MaxClock
    BY NextPush DEF OnceInv, PushTypes
  <2>2. QED
    BY <2>1, RequestsArm, FiresArm, OthersArm DEF PushNext, FireWorks
<1>3. QED
  BY <1>1, <1>2, PTL DEF PushSpec

=============================================================================
