---------------------------- MODULE SessionGate -----------------------------
(***************************************************************************)
(* What stands before an SSH session: the operator denylist                *)
(* (worker/src/cells/denylist.js, internal/service/denylist.go) and the    *)
(* gate of fresh keys per subnet (worker/src/cells/subnet.js,              *)
(* internal/worker/keygate.go, noteSubnet of cells/identity.js).           *)
(*                                                                         *)
(* A replica checks sessions against the list it loaded last.  A refresh   *)
(* reads the cell's list and stores it; a check that finds an entry        *)
(* expired compiles the list it holds again and swaps it in, at the same   *)
(* time.  A session that passes is admitted by its subnet's cell, and a    *)
(* fresh key is then noted in its owner's.                                 *)
(*                                                                         *)
(* Abstractions.  One replica, one subnet, a session per key.  An address  *)
(* is a tuple of words, as the cell has them, and a word the tuple of its  *)
(* bits, the highest first.  Only the instant of a pair is kept, and the   *)
(* recent-keys ring of the Abuse cell is left out: it decides nothing.     *)
(***************************************************************************)
EXTENDS Integers, FiniteSets, Sequences, FiniteSetsExt

CONSTANTS
    KeysSeen,    \* the keys that connect
    WordBits,    \* bits of a word of an address
    Spellings,   \* networks as operators write them: <<address, prefix>>
    Lifetimes,   \* how long an entry lasts, 0 for ever
    DenyCap,     \* DENYLIST_CAP
    KeyLimit,    \* MaxFreshKeysPerSubnet
    KeyWindow,   \* the window of the gate
    LastInstant, \* bound on the clock
    Allowances        \* bounds, one chosen per behaviour: how many edits of the list,
                 \* refreshes, sessions and lost calls

ASSUME GateAssumption ==
    /\ {WordBits, DenyCap, KeyLimit, KeyWindow} \subseteq Nat \ {0} /\ LastInstant \in Nat
    /\ Lifetimes \subseteq Nat
    /\ \A net \in Spellings :
         net = <<net[1], net[2]>> /\ net[1] \in Seq([1..WordBits -> {0, 1}]) /\ net[2] \in Nat
    /\ Allowances \subseteq [list : Nat, refreshes : Nat, sessions : Nat, lost : Nat]

VARIABLES
    time,     \* the clock
    denylist, \* the cell's entries: <<entry, expiry>>
    gate,     \* the replica: its list, what a refresh and a check hold
    subnet,   \* key -> when the subnet's cell saw it first, or Unseen
    session,  \* key -> its session; its lost calls, where the note counts twice
    noted,    \* keys noted in their owner's cell
    allowed   \* what is left of the bounds

gateVars == <<time, denylist, gate, subnet, session, noted, allowed>>

Forever == LastInstant + 1
Unseen == -1
NoSession == [stage |-> "none", at |-> 0, lost |-> 0]
Nothing == {<<"nothing">>}
Takes(kind) == allowed[kind] > 0 /\ allowed' = [allowed EXCEPT ![kind] = @ - 1]

GateInit ==
    /\ time = 0 /\ denylist = {} /\ noted = {}
    /\ gate = [list |-> {}, loaded |-> {}, fetched |-> Nothing, seen |-> Nothing, at |-> 0]
    /\ subnet = [k \in KeysSeen |-> Unseen]
    /\ session = [k \in KeysSeen |-> NoSession]
    /\ allowed \in Allowances

-----------------------------------------------------------------------------
(* The Denylist cell. *)

\* mask: the bits of each word past the prefix are cleared.
Kept(i, prefix) == Min({WordBits, Max({0, prefix - (i - 1) * WordBits})})
Masked(words, prefix) ==
    [i \in DOMAIN words |-> [j \in 1..WordBits |-> IF j <= Kept(i, prefix) THEN words[i][j] ELSE 0]]

Canonical(net) == <<Masked(net[1], net[2]), net[2]>>

\* The entry of a key.
KeyEntry(k) == <<k>>
KeyEntries == {KeyEntry(k) : k \in KeysSeen}

LiveAt(list, t) == {e \in list : e[2] > t}
Entries(list) == {e[1] : e \in list}

\* add: a known entry is replaced; a new one finds the expired ones gone and
\* room under the cap.
DenyAdd(entry, lasts) ==
    LET prior == entry \in Entries(denylist)
        kept == IF prior THEN {e \in denylist : e[1] # entry} ELSE LiveAt(denylist, time)
    IN
    /\ Takes("list")
    /\ denylist' = IF ~prior /\ Cardinality(kept) >= DenyCap THEN kept
                   ELSE kept \union {<<entry, IF lasts = 0 THEN Forever ELSE time + lasts>>}
    /\ UNCHANGED <<time, gate, subnet, session, noted>>

DenyRemove(entry) ==
    /\ Takes("list") /\ entry \in Entries(denylist)
    /\ denylist' = {e \in denylist : e[1] # entry}
    /\ UNCHANGED <<time, gate, subnet, session, noted>>

DenyEdit ==
    \/ \E net \in Spellings, lasts \in Lifetimes :
         DenyAdd(Canonical(net), lasts) \/ DenyRemove(Canonical(net))
    \/ \E k \in KeysSeen, lasts \in Lifetimes : DenyAdd(KeyEntry(k), lasts) \/ DenyRemove(KeyEntry(k))

-----------------------------------------------------------------------------
(* DenyGate: one refresh at a time, and checks beside it. *)

\* The cell lists its live entries, and the replica keeps those still live.
RefreshAsks ==
    /\ Takes("refreshes") /\ gate.fetched = Nothing
    /\ gate' = [gate EXCEPT !.fetched = LiveAt(denylist, time)]
    /\ UNCHANGED <<time, denylist, subnet, session, noted>>

RefreshStores ==
    /\ gate.fetched # Nothing
    /\ gate' = [gate EXCEPT !.list = LiveAt(gate.fetched, time), !.loaded = gate.fetched,
                    !.fetched = Nothing]
    /\ UNCHANGED <<time, denylist, subnet, session, noted, allowed>>

\* A refresh that fails keeps the list.
RefreshFails ==
    /\ gate.fetched # Nothing
    /\ gate' = [gate EXCEPT !.fetched = Nothing]
    /\ UNCHANGED <<time, denylist, subnet, session, noted, allowed>>

\* Check finds an entry of its list expired and compiles it again ...
CheckLoads ==
    /\ gate.seen = Nothing /\ LiveAt(gate.list, time) # gate.list
    /\ gate' = [gate EXCEPT !.seen = gate.list, !.at = time]
    /\ UNCHANGED <<time, denylist, subnet, session, noted, allowed>>

SwapAlways == LiveAt(gate.seen, gate.at)

\* ... and swaps it in for the one it loaded, if that is still the one.
CheckSwap == IF gate.list = gate.seen THEN LiveAt(gate.seen, gate.at) ELSE gate.list

CheckSwaps ==
    /\ gate.seen # Nothing
    /\ gate' = [gate EXCEPT !.list = CheckSwap, !.seen = Nothing]
    /\ UNCHANGED <<time, denylist, subnet, session, noted, allowed>>

-----------------------------------------------------------------------------
(* A session: the denylist, then the Sybil gate. *)

NetContains(net, address) == Masked(address, net[2]) = net[1]
Banned(k, address, t) ==
    \E e \in Entries(LiveAt(gate.list, t)) :
        e = KeyEntry(k) \/ (e \notin KeyEntries /\ NetContains(e, address))

Reaches(k, stage) == session' = [session EXCEPT ![k].stage = stage]
LosesTo(k, stage, calls) == session' = [session EXCEPT ![k].stage = stage, ![k].lost = @ + calls]

Connects(k, address) ==
    /\ session[k].stage = "none" /\ Takes("sessions")
    /\ session' = [session EXCEPT ![k].at = time,
                       ![k].stage = IF Banned(k, address, time) THEN "refused" ELSE "asking"]
    /\ UNCHANGED <<time, denylist, gate, subnet, noted>>

\* admit: rows past the window of the request are dropped; a known key keeps
\* its stamp; a fresh one needs room.
InWindow(at) == {k \in KeysSeen : subnet[k] # Unseen /\ at - subnet[k] < KeyWindow}
AdmitsFresh(k, at) == k \notin InWindow(at) /\ Cardinality(InWindow(at)) < KeyLimit
Admitted(k, at) ==
    subnet' = [j \in KeysSeen |->
        IF j = k /\ AdmitsFresh(k, at) THEN at ELSE IF j \in InWindow(at) THEN subnet[j] ELSE Unseen]

\* A replayed admission reads its own row as known, and notes it even so.
Notes(k, known) == ~known \/ session[k].stage = "replaying"

\* The answer of the admission; its loss, and then it is asked again, once; or
\* an error, and it is not.
SubnetAdmit(k) ==
    LET at == session[k].at
        known == k \in InWindow(at)
    IN
    /\ session[k].stage \in {"asking", "replaying"}
    /\ \/ /\ Admitted(k, at)
          /\ Reaches(k, IF ~known /\ ~AdmitsFresh(k, at) THEN "refused"
                   ELSE IF Notes(k, known) THEN "noting" ELSE "in")
          /\ UNCHANGED allowed
       \/ /\ Takes("lost")
          /\ Admitted(k, at) \/ UNCHANGED subnet
          /\ LosesTo(k, IF session[k].stage = "asking" THEN "replaying" ELSE "refused", 1)
       \/ Takes("lost") /\ UNCHANGED subnet /\ LosesTo(k, "refused", 1)
    /\ UNCHANGED <<time, denylist, gate, noted>>

\* noteSubnet, whose failure refuses the session.
NoteSubnet(k) ==
    /\ session[k].stage = "noting"
    /\ \/ noted' = noted \union {k} /\ Reaches(k, "in") /\ UNCHANGED allowed
       \/ Takes("lost") /\ noted' \in {noted, noted \union {k}} /\ LosesTo(k, "refused", 2)
    /\ UNCHANGED <<time, denylist, gate, subnet>>

SessionEnds(k) ==
    /\ session[k].stage \in {"in", "refused"}
    /\ session' = [session EXCEPT ![k].stage = "none"]
    /\ UNCHANGED <<time, denylist, gate, subnet, noted, allowed>>

TimePasses ==
    /\ time < LastInstant /\ time' = time + 1
    /\ UNCHANGED <<denylist, gate, subnet, session, noted, allowed>>

GateNext ==
    \/ DenyEdit \/ RefreshAsks \/ RefreshStores \/ RefreshFails \/ CheckLoads \/ CheckSwaps
    \/ \E k \in KeysSeen : SubnetAdmit(k) \/ NoteSubnet(k) \/ SessionEnds(k)
                           \/ \E net \in Spellings : Connects(k, net[1])
    \/ TimePasses

-----------------------------------------------------------------------------
\* One prefix, and the addresses agree bit by bit as far as it goes.
SameNetwork(a, b) ==
    /\ a[2] = b[2] /\ DOMAIN a[1] = DOMAIN b[1]
    /\ \A i \in DOMAIN a[1], j \in 1..WordBits :
         (i - 1) * WordBits + j <= a[2] => a[1][i][j] = b[1][i][j]

\* A check refuses by the list its replica loaded last, less what has expired:
\* a check that compiled an older list beside a refresh never puts it back
\* (denylist.go Check).
ListCurrent == LiveAt(gate.list, time) = LiveAt(gate.loaded, time)

\* The cell holds a network once, however it is written, so one removal ends
\* a ban (denylist.js canonicalEntry).
ListedOnce == \A e, f \in Entries(denylist) \ KeyEntries : SameNetwork(e, f) => e = f

\* A key that was let in is noted for its owner, though the answer of its
\* admission was lost and the replay read its row as known.  Losing the
\* replay's answer too, or the note, loses the note (keygate.go AdmitNewKey).
LetInNoted == \A k \in KeysSeen :
    session[k].stage = "in" /\ session[k].lost <= 1 => k \in noted

\* A session is refused for what the operator's list says now, and let in only
\* with its note.
SessionsGated == ListCurrent /\ ListedOnce /\ LetInNoted
=============================================================================
