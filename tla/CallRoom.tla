------------------------------- MODULE CallRoom -------------------------------
(***************************************************************************)
(* Who is in a call: the sockets of signaling-service, the members set it   *)
(* keeps in Redis, and the peers and router the SFU keeps for each room.    *)
(* join-room and the SFU's handlers are cut at their awaits; the requests    *)
(* between the two services travel on connections of their own, so they     *)
(* may overtake each other.                                                 *)
(***************************************************************************)
EXTENDS Integers

CONSTANTS
    Sockets,   \* socket ids, one per connection, and also the SFU's peer ids
    Rooms,
    NoRoom     \* socket.data.roomCode is undefined

ASSUME NoRoomAssumption == NoRoom \notin Rooms

VARIABLES
    gone,      \* sockets that disconnected
    room,      \* socket.data.roomCode
    uses,      \* socket.data.usesSfu
    members,   \* the Redis sets room:<code>:members
    join,      \* the join-room handler of a socket for a room
    caps,      \* a get-router-capabilities request is on its way to the SFU
    trans,     \* the create-transport request, and its handler in the SFU
    leave,     \* the /peers/leave request, and its handler in the SFU
    peers,     \* the SFU's peers of each room
    wired,     \* those with a transport
    router,    \* the SFU's router of each room: none, pending, open
    raced      \* history: sockets that left in the middle of a call of their own,
               \* or whose clean-up failed in part

sigVars == <<gone, room, uses, members, join>>
callVars == <<caps, trans, leave>>
sfuVars == <<peers, wired, router>>
vars == <<gone, room, uses, members, join, caps, trans, leave, peers, wired,
          router, raced>>

TypeOK ==
    /\ gone \subseteq Sockets
    /\ room \in [Sockets -> Rooms \cup {NoRoom}]
    /\ uses \in [Sockets -> BOOLEAN]
    /\ members \in [Rooms -> SUBSET Sockets]
    /\ join \in [Sockets -> [Rooms -> {"idle", "check", "enter"}]]
    /\ caps \in [Sockets -> [Rooms -> {"none", "sent"}]]
    /\ trans \in [Sockets -> [Rooms -> {"none", "sent", "await", "stale", "creating"}]]
    /\ leave \in [Sockets -> [Rooms -> {"none", "sent", "emptied"}]]
    /\ peers \in [Rooms -> SUBSET Sockets]
    /\ wired \in [Rooms -> SUBSET Sockets]
    /\ \A r \in Rooms : wired[r] \subseteq peers[r]
    /\ router \in [Rooms -> {"none", "pending", "open"}]
    /\ raced \subseteq Sockets

Init ==
    /\ gone = {}
    /\ room = [s \in Sockets |-> NoRoom]
    /\ uses = [s \in Sockets |-> FALSE]
    /\ members = [r \in Rooms |-> {}]
    /\ join = [s \in Sockets |-> [r \in Rooms |-> "idle"]]
    /\ caps = [s \in Sockets |-> [r \in Rooms |-> "none"]]
    /\ trans = [s \in Sockets |-> [r \in Rooms |-> "none"]]
    /\ leave = [s \in Sockets |-> [r \in Rooms |-> "none"]]
    /\ peers = [r \in Rooms |-> {}]
    /\ wired = [r \in Rooms |-> {}]
    /\ router = [r \in Rooms |-> "none"]
    /\ raced = {}

\* A request of s about r that the SFU has not finished.
Calling(s, r) == caps[s][r] # "none" \/ trans[s][r] # "none"

-----------------------------------------------------------------------------
(* join-room *)

\* STEP 1.  Bound: one open join per socket and room.
JoinRoom(s, r) ==
    /\ s \notin gone
    /\ room[s] = NoRoom
    /\ join[s][r] = "idle"
    /\ join' = [join EXCEPT ![s][r] = "check"]
    /\ UNCHANGED <<gone, room, uses, members, callVars, sfuVars, raced>>

\* STEP 2: the room does not exist, or room-service or Redis fails.
JoinRefused(s, r) ==
    /\ join[s][r] = "check"
    /\ join' = [join EXCEPT ![s][r] = "idle"]
    /\ UNCHANGED <<gone, room, uses, members, callVars, sfuVars, raced>>

\* STEP 4: sadd.
JoinAdd(s, r) ==
    /\ join[s][r] = "check"
    /\ members' = [members EXCEPT ![r] = @ \cup {s}]
    /\ join' = [join EXCEPT ![s][r] = "enter"]
    /\ UNCHANGED <<gone, room, uses, callVars, sfuVars, raced>>

\* Mutant: the socket is told it is in, and forgotten.
JoinEnterForgotten(s, r) ==
    /\ join[s][r] = "enter"
    /\ join' = [join EXCEPT ![s][r] = "idle"]
    /\ UNCHANGED <<gone, room, uses, members, callVars, sfuVars, raced>>

\* After the await: socket.data.roomCode is set, whatever happened meanwhile.
\* Another join of the socket may have set it already.
JoinEnter(s, r) ==
    /\ join[s][r] = "enter"
    /\ join' = [join EXCEPT ![s][r] = "idle"]
    /\ room' = [room EXCEPT ![s] = r]
    /\ raced' = IF s \in gone \/ room[s] # NoRoom \/ leave[s][r] # "none"
                THEN raced \cup {s} ELSE raced
    /\ UNCHANGED <<gone, uses, members, callVars, sfuVars>>

-----------------------------------------------------------------------------
(* cleanUp, for leave-room and disconnect *)

\* roomCode and usesSfu are cleared before the first await; srem is the next
\* command on the connection, and may fail; /peers/leave is sent after it.
CleanUp(s, removed) ==
    /\ room' = [room EXCEPT ![s] = NoRoom]
    /\ uses' = [uses EXCEPT ![s] = FALSE]
    /\ members' = [r \in Rooms |->
                      IF r = room[s] /\ removed THEN members[r] \ {s} ELSE members[r]]
    /\ leave' = [leave EXCEPT ![s] = [r \in Rooms |->
                    IF r = room[s] /\ uses[s] THEN "sent" ELSE leave[s][r]]]

\* Bound: one open leave per socket and room.
MayLeave(s) == \A r \in Rooms : room[s] = r => leave[s][r] = "none"

LeaveRoom(s) ==
    /\ s \notin gone
    /\ room[s] # NoRoom
    /\ MayLeave(s)
    /\ \E removed \in BOOLEAN :
          /\ CleanUp(s, removed)
          /\ raced' = IF ~removed \/ \E r \in Rooms : Calling(s, r)
                      THEN raced \cup {s} ELSE raced
    /\ UNCHANGED <<gone, join, caps, trans, sfuVars>>

Disconnect(s) ==
    /\ s \notin gone
    /\ MayLeave(s)
    /\ gone' = gone \cup {s}
    /\ \E removed \in BOOLEAN :
          /\ CleanUp(s, removed)
          /\ raced' = IF ~removed \/ \E r \in Rooms : Calling(s, r) \/ join[s][r] # "idle"
                      THEN raced \cup {s} ELSE raced
    /\ UNCHANGED <<join, caps, trans, sfuVars>>

\* The SFU is unreachable: logged.
LeaveLost(s, r) ==
    /\ leave[s][r] = "sent"
    /\ leave' = [leave EXCEPT ![s][r] = "none"]
    /\ raced' = raced \cup {s}
    /\ UNCHANGED <<sigVars, caps, trans, sfuVars>>

-----------------------------------------------------------------------------
(* SFU events of a joined socket *)

\* Mutant: the request for capabilities does not mark the socket.
GetCapabilitiesUnmarked(s, r) ==
    /\ s \notin gone
    /\ room[s] = r
    /\ caps[s][r] = "none"
    /\ caps' = [caps EXCEPT ![s][r] = "sent"]
    /\ UNCHANGED <<sigVars, trans, leave, sfuVars, raced>>

GetCapabilities(s, r) ==
    /\ s \notin gone
    /\ room[s] = r
    /\ caps[s][r] = "none"
    /\ uses' = [uses EXCEPT ![s] = TRUE]
    /\ caps' = [caps EXCEPT ![s][r] = "sent"]
    /\ UNCHANGED <<gone, room, members, join, trans, leave, sfuVars, raced>>

\* Mutant: only the first request of a call marks the socket.
CreateTransportUnmarked(s, r) ==
    /\ s \notin gone
    /\ room[s] = r
    /\ trans[s][r] = "none"
    /\ trans' = [trans EXCEPT ![s][r] = "sent"]
    /\ UNCHANGED <<sigVars, caps, leave, sfuVars, raced>>

CreateTransport(s, r) ==
    /\ s \notin gone
    /\ room[s] = r
    /\ trans[s][r] = "none"
    /\ uses' = [uses EXCEPT ![s] = TRUE]
    /\ trans' = [trans EXCEPT ![s][r] = "sent"]
    /\ UNCHANGED <<gone, room, members, join, caps, leave, sfuVars, raced>>

-----------------------------------------------------------------------------
(* The SFU *)

\* getOrCreateRouter stores the promise, so a second request finds it.
ServeCapabilities(s, r) ==
    /\ caps[s][r] = "sent"
    /\ caps' = [caps EXCEPT ![s][r] = "none"]
    /\ router' = [router EXCEPT ![r] = IF @ = "none" THEN "pending" ELSE @]
    /\ UNCHANGED <<sigVars, trans, leave, peers, wired, raced>>

\* The requests that wait for the promise go on at once: the peer is registered
\* before its transport is created.
RouterReady(r) ==
    /\ router[r] = "pending"
    /\ router' = [router EXCEPT ![r] = "open"]
    /\ peers' = [peers EXCEPT ![r] = @ \cup {s \in Sockets : trans[s][r] = "await"}]
    /\ trans' = [s \in Sockets |->
                    [trans[s] EXCEPT ![r] = IF @ = "await" THEN "creating" ELSE @]]
    /\ UNCHANGED <<sigVars, caps, leave, wired, raced>>

\* They fail with it.
RouterFails(r) ==
    /\ router[r] = "pending"
    /\ router' = [router EXCEPT ![r] = "none"]
    /\ trans' = [s \in Sockets |-> [trans[s] EXCEPT ![r] = IF @ = "await" THEN "none" ELSE @]]
    /\ UNCHANGED <<sigVars, caps, leave, peers, wired, raced>>

\* getRouter: 404 without a router; a promise that is not settled is awaited.
ServeTransport(s, r) ==
    /\ trans[s][r] = "sent"
    /\ trans' = [trans EXCEPT ![s][r] = CASE router[r] = "none" -> "none"
                                          [] router[r] = "pending" -> "await"
                                          [] router[r] = "open" -> "creating"]
    /\ peers' = [peers EXCEPT ![r] = IF router[r] = "open" THEN @ \cup {s} ELSE @]
    /\ UNCHANGED <<sigVars, caps, leave, wired, router, raced>>

\* A router whose room was closed while it was awaited: if it arrives, the peer
\* is registered, and there is no transport for it.
StaleRouterArrives(s, r) ==
    /\ trans[s][r] = "stale"
    /\ trans' = [trans EXCEPT ![s][r] = "none"]
    /\ \/ peers' = [peers EXCEPT ![r] = @ \cup {s}]
       \/ UNCHANGED peers
    /\ UNCHANGED <<sigVars, caps, leave, wired, router, raced>>

\* Mutant: the peer is looked up by its id again.
TransportDoneByName(s, r) ==
    /\ trans[s][r] = "creating"
    /\ trans' = [trans EXCEPT ![s][r] = "none"]
    /\ wired' = [wired EXCEPT ![r] = @ \cup {s}]
    /\ UNCHANGED <<sigVars, caps, leave, peers, router, raced>>

\* createWebRtcTransport returns, or fails (a second transport of a direction is
\* refused, too).  A peer removed meanwhile is not in the map any more.
TransportDone(s, r) ==
    /\ trans[s][r] = "creating"
    /\ trans' = [trans EXCEPT ![s][r] = "none"]
    /\ \/ wired' = [wired EXCEPT ![r] = @ \cup ({s} \cap peers[r])]
       \/ UNCHANGED wired
    /\ UNCHANGED <<sigVars, caps, leave, peers, router, raced>>

\* removePeer; a peer that is not there is a success as well.
ServeLeave(s, r) ==
    /\ leave[s][r] = "sent"
    /\ peers' = [peers EXCEPT ![r] = @ \ {s}]
    /\ wired' = [wired EXCEPT ![r] = @ \ {s}]
    /\ leave' = [leave EXCEPT ![s][r] = IF peers[r] \subseteq {s} THEN "emptied" ELSE "none"]
    /\ UNCHANGED <<sigVars, caps, trans, router, raced>>

\* Mutant: the peers are not counted again after notifyPeerLeft.
FinishLeaveUnchecked(s, r) ==
    /\ leave[s][r] = "emptied"
    /\ leave' = [leave EXCEPT ![s][r] = "none"]
    /\ router' = [router EXCEPT ![r] = "none"]
    /\ trans' = [q \in Sockets |-> [trans[q] EXCEPT ![r] = IF @ = "await" THEN "stale" ELSE @]]
    /\ UNCHANGED <<sigVars, caps, peers, wired, raced>>

\* After notifyPeerLeft, which may take seconds: closeRoom if it is still empty.
FinishLeave(s, r) ==
    /\ leave[s][r] = "emptied"
    /\ leave' = [leave EXCEPT ![s][r] = "none"]
    /\ IF peers[r] = {}
       THEN /\ router' = [router EXCEPT ![r] = "none"]
            /\ trans' = [q \in Sockets |->
                            [trans[q] EXCEPT ![r] = IF @ = "await" THEN "stale" ELSE @]]
       ELSE UNCHANGED <<router, trans>>
    /\ UNCHANGED <<sigVars, caps, peers, wired, raced>>

Next ==
    \/ \E s \in Sockets, r \in Rooms :
          \/ JoinRoom(s, r) \/ JoinRefused(s, r) \/ JoinAdd(s, r) \/ JoinEnter(s, r)
          \/ GetCapabilities(s, r) \/ ServeCapabilities(s, r)
          \/ CreateTransport(s, r) \/ ServeTransport(s, r)
          \/ StaleRouterArrives(s, r) \/ TransportDone(s, r)
          \/ LeaveLost(s, r) \/ ServeLeave(s, r) \/ FinishLeave(s, r)
    \/ \E s \in Sockets : LeaveRoom(s) \/ Disconnect(s)
    \/ \E r \in Rooms : RouterReady(r) \/ RouterFails(r)

Spec == Init /\ [][Next]_vars

-----------------------------------------------------------------------------
(* Properties *)

\* A room is never closed under a peer that has a transport: the second look at
\* the peer count sees everybody who came while the last one was leaving.
RouterUnderPeers == \A r \in Rooms : wired[r] # {} => router[r] = "open"

\* existingMembers is right: a socket is in the Redis set of a room exactly
\* while it is in the room, between the two halves of its join apart, unless it
\* went away in the middle of a call of its own.
MembersMatch ==
    \A s \in Sockets \ raced, r \in Rooms :
        /\ s \in members[r] => room[s] = r \/ join[s][r] = "enter"
        /\ room[s] = r => s \in members[r]

\* Whoever is a peer of the SFU will be taken out by somebody: the socket is in
\* the room and marked, or its leave is on the way, unless it raced.
PeersAccounted ==
    \A s \in Sockets \ raced, r \in Rooms :
        s \in peers[r] => (room[s] = r /\ uses[s]) \/ leave[s][r] = "sent"

\* No router is left behind: while a room has one, somebody is still in the room
\* and will ask the SFU to leave, has asked, or has left in a race.
RoomsDrain ==
    raced = {} =>
        \A r \in Rooms :
            router[r] # "none" => \E s \in Sockets :
                (room[s] = r /\ uses[s]) \/ leave[s][r] # "none"

-----------------------------------------------------------------------------
(* What the documents say and the code does not keep *)

\* FRONTEND/docs/Phase_9_sfu_frontend_guide.md:479, "Leave, refresh, and tab kill
\* leave no ghost tiles and no leftover SFU peers."
NoLeftoverPeer ==
    \A s \in gone, r \in Rooms :
        s \in peers[r] => leave[s][r] # "none" \/ Calling(s, r)
=============================================================================
