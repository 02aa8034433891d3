----------------------------- MODULE RoomRelay ------------------------------
(***************************************************************************)
(* The websocket relay of a Room cell (worker/src/cells/room.js fetch,     *)
(* admit, broadcast, webSocketMessage) and the join route before it        *)
(* (worker/src/rooms/routes.js joinRoom).                                  *)
(*                                                                         *)
(* A join passes the checks of the route, then reaches the cell, which     *)
(* attaches the socket and sends the snapshot in one turn.  Every mutation *)
(* is committed and then mirrored to the sockets in the cell's turn; the   *)
(* frames of one socket arrive in order, whenever the client reads them.   *)
(* An ephemeral frame goes to every other socket as it came, so the cell   *)
(* has to refuse those that look like its own.                             *)
(*                                                                         *)
(* Abstractions.  The byte escrow before a commit is RoomEscrow.  Which    *)
(* pings are stale at a join is a choice.  A cell that stops loses its     *)
(* sockets.  Origin and upgrade headers decide only whether a join is      *)
(* made.  The client is the one docs/SPEC.md describes ("Snapshot and      *)
(* sequence contract"): it is not in the repository's worker.              *)
(***************************************************************************)
EXTENDS Naturals, FiniteSets, Sequences

CONSTANTS
    Clients,
    RoomKeys, RoomValues,
    SocketCap,  \* ROOM_SOCKET_CAP
    MaxSeq,     \* bound on the room's sequence
    MaxFrames   \* bound on the frames clients send

ASSUME RelayAssumption == SocketCap \in Nat \ {0} /\ MaxSeq \in Nat /\ MaxFrames \in Nat

VARIABLES
    room,    \* the document, and where an interrupted removal emptied it
    socket,  \* client -> its connection, the frames on their way, its view
    sent     \* how many frames the clients sent

relayVars == <<room, socket, sent>>

Unset == "unset"
EmptyRoom == [k \in RoomKeys |-> Unset]
NoSocket == [stage |-> "none", frames |-> <<>>, seq |-> 0, kv |-> EmptyRoom]

RelayInit ==
    /\ room = [exists |-> TRUE, seq |-> 0, kv |-> EmptyRoom, emptied |-> 0]
    /\ socket = [c \in Clients |-> NoSocket]
    /\ sent = 0

OpenSockets == {c \in Clients : socket[c].stage \in {"open", "leaving"}}

\* send() on a socket that is closing throws and is skipped.
Mirrored(frame, to) == [c \in Clients |->
    IF c \in to \intersect OpenSockets THEN [socket[c] EXCEPT !.frames = Append(@, frame)]
    ELSE socket[c]]

-----------------------------------------------------------------------------
(* Joining. *)

\* The route: the app exists, the room has its metadata, the handshake and
\* the origin are right.
JoinChecked(c) ==
    /\ socket[c].stage = "none" /\ room.exists
    /\ socket' = [socket EXCEPT ![c] = [NoSocket EXCEPT !.stage = "checked"]]
    /\ UNCHANGED <<room, sent>>

SnapshotFrame == [type |-> "snapshot", seq |-> IF room.exists THEN room.seq ELSE 0,
                  kv |-> IF room.exists THEN room.kv ELSE EmptyRoom]

\* admit closes stale sockets only at the cap; then attach and snapshot.
Join(c) == \E stale \in SUBSET OpenSockets :
    LET evicted == IF Cardinality(OpenSockets) < SocketCap THEN {} ELSE stale
        kept == OpenSockets \ evicted
        closed == [d \in Clients |->
                      IF d \in evicted THEN [socket[d] EXCEPT !.stage = "closed"] ELSE socket[d]]
    IN
    /\ socket[c].stage = "checked"
    /\ socket' = [closed EXCEPT ![c] =
           IF Cardinality(kept) < SocketCap
           THEN [@ EXCEPT !.stage = "open", !.frames = <<SnapshotFrame>>]
           ELSE NoSocket]
    /\ UNCHANGED <<room, sent>>

-----------------------------------------------------------------------------
(* Mutations, in the cell's turn: the commit, then its mirror. *)

Commits(k, v) ==
    /\ room.exists /\ room.seq < MaxSeq
    /\ room' = [room EXCEPT !.seq = @ + 1, !.kv[k] = v]

PutFrame(k, v) == [type |-> "put", seq |-> room.seq + 1, key |-> k, value |-> v]
DeleteFrame(k) == [type |-> "delete", seq |-> room.seq + 1, key |-> k]

PutValue(k, v) ==
    /\ Commits(k, v)
    /\ socket' = Mirrored(PutFrame(k, v), Clients)
    /\ UNCHANGED sent

\* An absent key is deleted too: it takes a sequence and a frame.
DeleteValue(k) ==
    /\ Commits(k, Unset)
    /\ socket' = Mirrored(DeleteFrame(k), Clients)
    /\ UNCHANGED sent

\* A removal closes every socket and drops the document; interrupted before
\* that, it leaves the room emptied, unannounced.
RoomRemoved ==
    /\ room.exists
    /\ room' = [room EXCEPT !.exists = FALSE, !.kv = EmptyRoom]
    /\ socket' = [c \in Clients |->
           IF c \in OpenSockets THEN [socket[c] EXCEPT !.stage = "closed"] ELSE socket[c]]
    /\ UNCHANGED sent

RemovalInterrupted ==
    /\ room.exists /\ room.kv # EmptyRoom /\ room.seq < MaxSeq
    /\ room' = [room EXCEPT !.seq = @ + 1, !.kv = EmptyRoom, !.emptied = room.seq + 1]
    /\ UNCHANGED <<socket, sent>>

\* The cell stops, perhaps between a commit and its mirror.
RelayStops ==
    /\ \/ UNCHANGED room
       \/ \E k \in RoomKeys, v \in RoomValues \union {Unset} : Commits(k, v)
    /\ socket' = [c \in Clients |-> IF c \in OpenSockets THEN NoSocket ELSE socket[c]]
    /\ UNCHANGED sent

-----------------------------------------------------------------------------
(* The clients. *)

ControlFrame(frame) == frame.type \in {"snapshot", "put", "delete"}

RelayableAny(frame) == ControlFrame(frame) \/ frame.type = "ephemeral"

Relayable(frame) == ~ControlFrame(frame)

\* What a client can write: anything, a mirror of its own making included.
ClientFrames == {[type |-> "ephemeral"]} \union
    {[type |-> "put", seq |-> n, key |-> k, value |-> v] :
        n \in {room.seq, room.seq + 1}, k \in RoomKeys, v \in RoomValues}

\* webSocketMessage: to every peer, or the sender is closed, for a reserved
\* frame or one over the limit.
ClientSends(c) == \E frame \in ClientFrames :
    /\ socket[c].stage = "open" /\ sent < MaxFrames
    /\ sent' = sent + 1
    /\ \/ Relayable(frame) /\ socket' = Mirrored(frame, Clients \ {c})
       \/ socket' = [socket EXCEPT ![c].stage = "closed"]
    /\ UNCHANGED room

\* The client applies the frame it reads; a gap makes it leave and join anew.
Receives(c) ==
    LET frame == Head(socket[c].frames)
        rest == [socket[c] EXCEPT !.frames = Tail(@)]
        applied == [rest EXCEPT !.seq = frame.seq,
                        !.kv[frame.key] = IF frame.type = "put" THEN frame.value ELSE Unset]
        seen == IF frame.type = "snapshot" THEN [rest EXCEPT !.seq = frame.seq, !.kv = frame.kv]
                ELSE IF frame.type = "ephemeral" \/ frame.seq <= rest.seq THEN rest
                ELSE IF frame.seq = rest.seq + 1 THEN applied
                ELSE [rest EXCEPT !.stage = IF @ = "open" THEN "leaving" ELSE @]
    IN
    /\ socket[c].stage \in {"open", "closed"} /\ socket[c].frames # <<>>
    /\ socket' = [socket EXCEPT ![c] = seen]
    /\ UNCHANGED <<room, sent>>

\* The client closes its side; the cell has yet to hear of it.
Leaves(c) ==
    /\ socket[c].stage = "open"
    /\ socket' = [socket EXCEPT ![c].stage = "leaving"]
    /\ UNCHANGED <<room, sent>>

\* webSocketClose answers the client's close; or the client sees the cell's.
Closes(c) ==
    /\ \/ socket[c].stage = "leaving"
       \/ socket[c].stage = "closed" /\ socket[c].frames = <<>>
    /\ socket' = [socket EXCEPT ![c] = NoSocket]
    /\ UNCHANGED <<room, sent>>

RelayNext ==
    \/ \E c \in Clients : JoinChecked(c) \/ Join(c) \/ ClientSends(c) \/ Receives(c) \/ Leaves(c) \/ Closes(c)
    \/ \E k \in RoomKeys : DeleteValue(k) \/ \E v \in RoomValues : PutValue(k, v)
    \/ RoomRemoved \/ RemovalInterrupted \/ RelayStops

-----------------------------------------------------------------------------
\* A client that read every frame of its open socket shows the document: no
\* mirror is missing, out of order or of another client's making.  Only a
\* removal interrupted after it emptied the room is not mirrored; the next
\* mutation shows it as a gap (room.js fetch, broadcastPut, webSocketMessage).
RelayConverges == \A c \in Clients :
    socket[c].stage = "open" /\ socket[c].frames = <<>> =>
        \/ socket[c].seq = room.seq /\ socket[c].kv = room.kv
        \/ room.exists /\ room.emptied = room.seq
        \/ ~room.exists /\ socket[c].kv = EmptyRoom
=============================================================================
