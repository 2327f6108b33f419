---------------------------- MODULE CallRoom_proofs ----------------------------
(***************************************************************************)
(* Safety of CallRoom for any sets of sockets and rooms.                    *)
(***************************************************************************)
EXTENDS CallRoom, TLAPS

USE DEF sigVars, callVars, sfuVars

LEMMA TypeInit == Init => TypeOK
<1> SUFFICES ASSUME Init PROVE TypeOK
  OBVIOUS
<1>1. uses \in [Sockets -> BOOLEAN]
  BY Zenon DEF Init
<1> QED
  BY <1>1 DEF Init, TypeOK

LEMMA TypeNext == TypeOK /\ [Next]_vars => TypeOK'
<1> SUFFICES ASSUME TypeOK, [Next]_vars PROVE TypeOK'
  OBVIOUS
<1> USE DEF TypeOK
<1>1. ASSUME NEW s \in Sockets, NEW r \in Rooms, JoinRoom(s, r) PROVE TypeOK'
  BY <1>1 DEF JoinRoom
<1>2. ASSUME NEW s \in Sockets, NEW r \in Rooms, JoinRefused(s, r) PROVE TypeOK'
  BY <1>2 DEF JoinRefused
<1>3. ASSUME NEW s \in Sockets, NEW r \in Rooms, JoinAdd(s, r) PROVE TypeOK'
  BY <1>3 DEF JoinAdd
<1>4. ASSUME NEW s \in Sockets, NEW r \in Rooms, JoinEnter(s, r) PROVE TypeOK'
  BY <1>4 DEF JoinEnter
<1>5. ASSUME NEW s \in Sockets, NEW r \in Rooms, GetCapabilities(s, r) PROVE TypeOK'
  BY <1>5 DEF GetCapabilities
<1>6. ASSUME NEW s \in Sockets, NEW r \in Rooms, ServeCapabilities(s, r) PROVE TypeOK'
  BY <1>6 DEF ServeCapabilities
<1>7. ASSUME NEW s \in Sockets, NEW r \in Rooms, CreateTransport(s, r) PROVE TypeOK'
  BY <1>7 DEF CreateTransport
<1>8. ASSUME NEW s \in Sockets, NEW r \in Rooms, ServeTransport(s, r) PROVE TypeOK'
  BY <1>8 DEF ServeTransport
<1>9. ASSUME NEW s \in Sockets, NEW r \in Rooms, StaleRouterArrives(s, r) PROVE TypeOK'
  <2>1. CASE peers' = [peers EXCEPT ![r] = @ \cup {s}]
    BY <1>9, <2>1 DEF StaleRouterArrives
  <2>2. CASE UNCHANGED peers
    BY <1>9, <2>2 DEF StaleRouterArrives
  <2> QED
    BY <1>9, <2>1, <2>2 DEF StaleRouterArrives
<1>10. ASSUME NEW s \in Sockets, NEW r \in Rooms, TransportDone(s, r) PROVE TypeOK'
  <2>1. CASE wired' = [wired EXCEPT ![r] = @ \cup ({s} \cap peers[r])]
    BY <1>10, <2>1 DEF TransportDone
  <2>2. CASE UNCHANGED wired
    BY <1>10, <2>2 DEF TransportDone
  <2> QED
    BY <1>10, <2>1, <2>2 DEF TransportDone
<1>11. ASSUME NEW s \in Sockets, NEW r \in Rooms, LeaveLost(s, r) PROVE TypeOK'
  BY <1>11 DEF LeaveLost
<1>12. ASSUME NEW s \in Sockets, NEW r \in Rooms, ServeLeave(s, r) PROVE TypeOK'
  BY <1>12 DEF ServeLeave
<1>13. ASSUME NEW s \in Sockets, NEW r \in Rooms, FinishLeave(s, r) PROVE TypeOK'
  <2>1. CASE peers[r] = {}
    <3>1. trans' \in [Sockets -> [Rooms -> {"none", "sent", "await", "stale", "creating"}]]
      BY <1>13, <2>1 DEF FinishLeave
    <3>2. leave' \in [Sockets -> [Rooms -> {"none", "sent", "emptied"}]]
      BY <1>13 DEF FinishLeave
    <3>3. router' \in [Rooms -> {"none", "pending", "open"}]
      BY <1>13, <2>1 DEF FinishLeave
    <3>4. UNCHANGED <<gone, room, uses, members, join, caps, peers, wired, raced>>
      BY <1>13 DEF FinishLeave
    <3> QED
      BY <3>1, <3>2, <3>3, <3>4
  <2>2. CASE peers[r] # {}
    BY <1>13, <2>2 DEF FinishLeave
  <2> QED
    BY <1>13, <2>1, <2>2 DEF FinishLeave
<1>14. ASSUME NEW s \in Sockets, LeaveRoom(s) PROVE TypeOK'
  BY <1>14 DEF LeaveRoom, CleanUp
<1>15. ASSUME NEW s \in Sockets, Disconnect(s) PROVE TypeOK'
  BY <1>15 DEF Disconnect, CleanUp
<1>16. ASSUME NEW r \in Rooms, RouterReady(r) PROVE TypeOK'
  BY <1>16 DEF RouterReady
<1>17. ASSUME NEW r \in Rooms, RouterFails(r) PROVE TypeOK'
  BY <1>17 DEF RouterFails
<1>18. CASE UNCHANGED vars
  BY <1>18 DEF vars
<1> QED
  BY <1>1, <1>2, <1>3, <1>4, <1>5, <1>6, <1>7, <1>8,
     <1>9, <1>10, <1>11, <1>12, <1>13, <1>14, <1>15, <1>16,
     <1>17, <1>18
     DEF Next

-----------------------------------------------------------------------------
(* Who is where, for the sockets that left nothing half done.                *)

\* A join in progress is for a room the socket is not in, and its request to
\* Redis is out from "enter" on.
JoinInv ==
    \A s \in Sockets, r \in Rooms :
        /\ join[s][r] # "idle" => room[s] # r
        /\ join[s][r] = "enter" /\ s \notin raced => s \in members[r]

\* A call to the SFU belongs to a socket that is in the room and marked.
CallerInv ==
    \A s \in Sockets \ raced, r \in Rooms :
        Calling(s, r) => room[s] = r /\ uses[s]

\* A transport that is being created for a peer has a router.
CreatingInv ==
    \A s \in Sockets, r \in Rooms :
        trans[s][r] = "creating" /\ s \in peers[r] => router[r] = "open"

CallInv ==
    /\ TypeOK
    /\ JoinInv
    /\ CallerInv
    /\ CreatingInv
    /\ MembersMatch
    /\ PeersAccounted
    /\ RouterUnderPeers
    /\ RoomsDrain

LEMMA CallInit == Init => CallInv
<1> SUFFICES ASSUME Init PROVE CallInv
  OBVIOUS
<1> USE NoRoomAssumption DEF Init
<1>1. TypeOK
  BY TypeInit
<1>2. JoinInv /\ CallerInv /\ CreatingInv
  BY DEF JoinInv, CallerInv, CreatingInv, Calling
<1>3. MembersMatch /\ PeersAccounted /\ RouterUnderPeers /\ RoomsDrain
  BY DEF MembersMatch, PeersAccounted, RouterUnderPeers, RoomsDrain
<1> QED
  BY <1>1, <1>2, <1>3 DEF CallInv

LEMMA JoinInvNext == TypeOK /\ JoinInv /\ [Next]_vars => JoinInv'
<1> SUFFICES ASSUME TypeOK, JoinInv, [Next]_vars PROVE JoinInv'
  OBVIOUS
<1> USE NoRoomAssumption DEF TypeOK, JoinInv
<1>1. ASSUME NEW s \in Sockets, NEW r \in Rooms, JoinRoom(s, r) PROVE JoinInv'
  BY <1>1 DEF JoinRoom
<1>2. ASSUME NEW s \in Sockets, NEW r \in Rooms, JoinRefused(s, r) PROVE JoinInv'
  BY <1>2 DEF JoinRefused
<1>3. ASSUME NEW s \in Sockets, NEW r \in Rooms, JoinAdd(s, r) PROVE JoinInv'
  BY <1>3 DEF JoinAdd
<1>4. ASSUME NEW s \in Sockets, NEW r \in Rooms, JoinEnter(s, r) PROVE JoinInv'
  BY <1>4 DEF JoinEnter
<1>5. ASSUME NEW s \in Sockets, NEW r \in Rooms, GetCapabilities(s, r) PROVE JoinInv'
  BY <1>5 DEF GetCapabilities
<1>6. ASSUME NEW s \in Sockets, NEW r \in Rooms, ServeCapabilities(s, r) PROVE JoinInv'
  BY <1>6 DEF ServeCapabilities
<1>7. ASSUME NEW s \in Sockets, NEW r \in Rooms, CreateTransport(s, r) PROVE JoinInv'
  BY <1>7 DEF CreateTransport
<1>8. ASSUME NEW s \in Sockets, NEW r \in Rooms, ServeTransport(s, r) PROVE JoinInv'
  BY <1>8 DEF ServeTransport
<1>9. ASSUME NEW s \in Sockets, NEW r \in Rooms, StaleRouterArrives(s, r) PROVE JoinInv'
  BY <1>9 DEF StaleRouterArrives
<1>10. ASSUME NEW s \in Sockets, NEW r \in Rooms, TransportDone(s, r) PROVE JoinInv'
  BY <1>10 DEF TransportDone
<1>11. ASSUME NEW s \in Sockets, NEW r \in Rooms, LeaveLost(s, r) PROVE JoinInv'
  BY <1>11 DEF LeaveLost
<1>12. ASSUME NEW s \in Sockets, NEW r \in Rooms, ServeLeave(s, r) PROVE JoinInv'
  BY <1>12 DEF ServeLeave
<1>13. ASSUME NEW s \in Sockets, NEW r \in Rooms, FinishLeave(s, r) PROVE JoinInv'
  BY <1>13 DEF FinishLeave
<1>14. ASSUME NEW s \in Sockets, LeaveRoom(s) PROVE JoinInv'
  BY <1>14 DEF LeaveRoom, CleanUp
<1>15. ASSUME NEW s \in Sockets, Disconnect(s) PROVE JoinInv'
  BY <1>15 DEF Disconnect, CleanUp
<1>16. ASSUME NEW r \in Rooms, RouterReady(r) PROVE JoinInv'
  BY <1>16 DEF RouterReady
<1>17. ASSUME NEW r \in Rooms, RouterFails(r) PROVE JoinInv'
  BY <1>17 DEF RouterFails
<1>18. CASE UNCHANGED vars
  BY <1>18 DEF vars
<1> QED
  BY <1>1, <1>2, <1>3, <1>4, <1>5, <1>6, <1>7, <1>8,
     <1>9, <1>10, <1>11, <1>12, <1>13, <1>14, <1>15, <1>16,
     <1>17, <1>18
     DEF Next

LEMMA CallerInvNext == TypeOK /\ CallerInv /\ [Next]_vars => CallerInv'
<1> SUFFICES ASSUME TypeOK, CallerInv, [Next]_vars PROVE CallerInv'
  OBVIOUS
<1> USE NoRoomAssumption DEF TypeOK, CallerInv, Calling
<1>1. ASSUME NEW s \in Sockets, NEW r \in Rooms, JoinRoom(s, r) PROVE CallerInv'
  BY <1>1 DEF JoinRoom
<1>2. ASSUME NEW s \in Sockets, NEW r \in Rooms, JoinRefused(s, r) PROVE CallerInv'
  BY <1>2 DEF JoinRefused
<1>3. ASSUME NEW s \in Sockets, NEW r \in Rooms, JoinAdd(s, r) PROVE CallerInv'
  BY <1>3 DEF JoinAdd
<1>4. ASSUME NEW s \in Sockets, NEW r \in Rooms, JoinEnter(s, r) PROVE CallerInv'
  BY <1>4 DEF JoinEnter
<1>5. ASSUME NEW s \in Sockets, NEW r \in Rooms, GetCapabilities(s, r) PROVE CallerInv'
  BY <1>5 DEF GetCapabilities
<1>6. ASSUME NEW s \in Sockets, NEW r \in Rooms, ServeCapabilities(s, r) PROVE CallerInv'
  BY <1>6 DEF ServeCapabilities
<1>7. ASSUME NEW s \in Sockets, NEW r \in Rooms, CreateTransport(s, r) PROVE CallerInv'
  BY <1>7 DEF CreateTransport
<1>8. ASSUME NEW s \in Sockets, NEW r \in Rooms, ServeTransport(s, r) PROVE CallerInv'
  BY <1>8 DEF ServeTransport
<1>9. ASSUME NEW s \in Sockets, NEW r \in Rooms, StaleRouterArrives(s, r) PROVE CallerInv'
  BY <1>9 DEF StaleRouterArrives
<1>10. ASSUME NEW s \in Sockets, NEW r \in Rooms, TransportDone(s, r) PROVE CallerInv'
  BY <1>10 DEF TransportDone
<1>11. ASSUME NEW s \in Sockets, NEW r \in Rooms, LeaveLost(s, r) PROVE CallerInv'
  BY <1>11 DEF LeaveLost
<1>12. ASSUME NEW s \in Sockets, NEW r \in Rooms, ServeLeave(s, r) PROVE CallerInv'
  BY <1>12 DEF ServeLeave
<1>13. ASSUME NEW s \in Sockets, NEW r \in Rooms, FinishLeave(s, r) PROVE CallerInv'
  BY <1>13 DEF FinishLeave
<1>14. ASSUME NEW s \in Sockets, LeaveRoom(s) PROVE CallerInv'
  BY <1>14 DEF LeaveRoom, CleanUp
<1>15. ASSUME NEW s \in Sockets, Disconnect(s) PROVE CallerInv'
  BY <1>15 DEF Disconnect, CleanUp
<1>16. ASSUME NEW r \in Rooms, RouterReady(r) PROVE CallerInv'
  BY <1>16 DEF RouterReady
<1>17. ASSUME NEW r \in Rooms, RouterFails(r) PROVE CallerInv'
  BY <1>17 DEF RouterFails
<1>18. CASE UNCHANGED vars
  BY <1>18 DEF vars
<1> QED
  BY <1>1, <1>2, <1>3, <1>4, <1>5, <1>6, <1>7, <1>8,
     <1>9, <1>10, <1>11, <1>12, <1>13, <1>14, <1>15, <1>16,
     <1>17, <1>18
     DEF Next

LEMMA CreatingInvNext == TypeOK /\ CreatingInv /\ [Next]_vars => CreatingInv'
<1> SUFFICES ASSUME TypeOK, CreatingInv, [Next]_vars PROVE CreatingInv'
  OBVIOUS
<1> USE NoRoomAssumption DEF TypeOK, CreatingInv
<1>1. ASSUME NEW s \in Sockets, NEW r \in Rooms, JoinRoom(s, r) PROVE CreatingInv'
  BY <1>1 DEF JoinRoom
<1>2. ASSUME NEW s \in Sockets, NEW r \in Rooms, JoinRefused(s, r) PROVE CreatingInv'
  BY <1>2 DEF JoinRefused
<1>3. ASSUME NEW s \in Sockets, NEW r \in Rooms, JoinAdd(s, r) PROVE CreatingInv'
  BY <1>3 DEF JoinAdd
<1>4. ASSUME NEW s \in Sockets, NEW r \in Rooms, JoinEnter(s, r) PROVE CreatingInv'
  BY <1>4 DEF JoinEnter
<1>5. ASSUME NEW s \in Sockets, NEW r \in Rooms, GetCapabilities(s, r) PROVE CreatingInv'
  BY <1>5 DEF GetCapabilities
<1>6. ASSUME NEW s \in Sockets, NEW r \in Rooms, ServeCapabilities(s, r) PROVE CreatingInv'
  BY <1>6 DEF ServeCapabilities
<1>7. ASSUME NEW s \in Sockets, NEW r \in Rooms, CreateTransport(s, r) PROVE CreatingInv'
  BY <1>7 DEF CreateTransport
<1>8. ASSUME NEW s \in Sockets, NEW r \in Rooms, ServeTransport(s, r) PROVE CreatingInv'
  BY <1>8 DEF ServeTransport
<1>9. ASSUME NEW s \in Sockets, NEW r \in Rooms, StaleRouterArrives(s, r) PROVE CreatingInv'
  BY <1>9 DEF StaleRouterArrives
<1>10. ASSUME NEW s \in Sockets, NEW r \in Rooms, TransportDone(s, r) PROVE CreatingInv'
  BY <1>10 DEF TransportDone
<1>11. ASSUME NEW s \in Sockets, NEW r \in Rooms, LeaveLost(s, r) PROVE CreatingInv'
  BY <1>11 DEF LeaveLost
<1>12. ASSUME NEW s \in Sockets, NEW r \in Rooms, ServeLeave(s, r) PROVE CreatingInv'
  BY <1>12 DEF ServeLeave
<1>13. ASSUME NEW s \in Sockets, NEW r \in Rooms, FinishLeave(s, r) PROVE CreatingInv'
  <2> SUFFICES ASSUME NEW q \in Sockets, NEW b \in Rooms,
                      trans'[q][b] = "creating", q \in peers'[b]
               PROVE router'[b] = "open"
    BY DEF CreatingInv
  <2>1. trans[q][b] = "creating" /\ q \in peers[b]
    BY <1>13 DEF FinishLeave
  <2>2. router'[b] = router[b]
    BY <1>13, <2>1 DEF FinishLeave
  <2> QED
    BY <2>1, <2>2
<1>14. ASSUME NEW s \in Sockets, LeaveRoom(s) PROVE CreatingInv'
  BY <1>14 DEF LeaveRoom, CleanUp
<1>15. ASSUME NEW s \in Sockets, Disconnect(s) PROVE CreatingInv'
  BY <1>15 DEF Disconnect, CleanUp
<1>16. ASSUME NEW r \in Rooms, RouterReady(r) PROVE CreatingInv'
  BY <1>16 DEF RouterReady
<1>17. ASSUME NEW r \in Rooms, RouterFails(r) PROVE CreatingInv'
  BY <1>17 DEF RouterFails
<1>18. CASE UNCHANGED vars
  BY <1>18 DEF vars
<1> QED
  BY <1>1, <1>2, <1>3, <1>4, <1>5, <1>6, <1>7, <1>8,
     <1>9, <1>10, <1>11, <1>12, <1>13, <1>14, <1>15, <1>16,
     <1>17, <1>18
     DEF Next

LEMMA MembersMatchNext == TypeOK /\ JoinInv /\ MembersMatch /\ [Next]_vars => MembersMatch'
<1> SUFFICES ASSUME TypeOK, JoinInv, MembersMatch, [Next]_vars PROVE MembersMatch'
  OBVIOUS
<1> USE NoRoomAssumption DEF TypeOK, MembersMatch, JoinInv
<1>1. ASSUME NEW s \in Sockets, NEW r \in Rooms, JoinRoom(s, r) PROVE MembersMatch'
  BY <1>1 DEF JoinRoom
<1>2. ASSUME NEW s \in Sockets, NEW r \in Rooms, JoinRefused(s, r) PROVE MembersMatch'
  BY <1>2 DEF JoinRefused
<1>3. ASSUME NEW s \in Sockets, NEW r \in Rooms, JoinAdd(s, r) PROVE MembersMatch'
  BY <1>3 DEF JoinAdd
<1>4. ASSUME NEW s \in Sockets, NEW r \in Rooms, JoinEnter(s, r) PROVE MembersMatch'
  BY <1>4 DEF JoinEnter
<1>5. ASSUME NEW s \in Sockets, NEW r \in Rooms, GetCapabilities(s, r) PROVE MembersMatch'
  BY <1>5 DEF GetCapabilities
<1>6. ASSUME NEW s \in Sockets, NEW r \in Rooms, ServeCapabilities(s, r) PROVE MembersMatch'
  BY <1>6 DEF ServeCapabilities
<1>7. ASSUME NEW s \in Sockets, NEW r \in Rooms, CreateTransport(s, r) PROVE MembersMatch'
  BY <1>7 DEF CreateTransport
<1>8. ASSUME NEW s \in Sockets, NEW r \in Rooms, ServeTransport(s, r) PROVE MembersMatch'
  BY <1>8 DEF ServeTransport
<1>9. ASSUME NEW s \in Sockets, NEW r \in Rooms, StaleRouterArrives(s, r) PROVE MembersMatch'
  BY <1>9 DEF StaleRouterArrives
<1>10. ASSUME NEW s \in Sockets, NEW r \in Rooms, TransportDone(s, r) PROVE MembersMatch'
  BY <1>10 DEF TransportDone
<1>11. ASSUME NEW s \in Sockets, NEW r \in Rooms, LeaveLost(s, r) PROVE MembersMatch'
  BY <1>11 DEF LeaveLost
<1>12. ASSUME NEW s \in Sockets, NEW r \in Rooms, ServeLeave(s, r) PROVE MembersMatch'
  BY <1>12 DEF ServeLeave
<1>13. ASSUME NEW s \in Sockets, NEW r \in Rooms, FinishLeave(s, r) PROVE MembersMatch'
  BY <1>13 DEF FinishLeave
<1>14. ASSUME NEW s \in Sockets, LeaveRoom(s) PROVE MembersMatch'
  BY <1>14 DEF LeaveRoom, CleanUp
<1>15. ASSUME NEW s \in Sockets, Disconnect(s) PROVE MembersMatch'
  BY <1>15 DEF Disconnect, CleanUp
<1>16. ASSUME NEW r \in Rooms, RouterReady(r) PROVE MembersMatch'
  BY <1>16 DEF RouterReady
<1>17. ASSUME NEW r \in Rooms, RouterFails(r) PROVE MembersMatch'
  BY <1>17 DEF RouterFails
<1>18. CASE UNCHANGED vars
  BY <1>18 DEF vars
<1> QED
  BY <1>1, <1>2, <1>3, <1>4, <1>5, <1>6, <1>7, <1>8,
     <1>9, <1>10, <1>11, <1>12, <1>13, <1>14, <1>15, <1>16,
     <1>17, <1>18
     DEF Next

LEMMA PeersAccountedNext == TypeOK /\ CallerInv /\ PeersAccounted /\ [Next]_vars => PeersAccounted'
<1> SUFFICES ASSUME TypeOK, CallerInv, PeersAccounted, [Next]_vars PROVE PeersAccounted'
  OBVIOUS
<1> USE NoRoomAssumption DEF TypeOK, PeersAccounted, CallerInv, Calling
<1>1. ASSUME NEW s \in Sockets, NEW r \in Rooms, JoinRoom(s, r) PROVE PeersAccounted'
  BY <1>1 DEF JoinRoom
<1>2. ASSUME NEW s \in Sockets, NEW r \in Rooms, JoinRefused(s, r) PROVE PeersAccounted'
  BY <1>2 DEF JoinRefused
<1>3. ASSUME NEW s \in Sockets, NEW r \in Rooms, JoinAdd(s, r) PROVE PeersAccounted'
  BY <1>3 DEF JoinAdd
<1>4. ASSUME NEW s \in Sockets, NEW r \in Rooms, JoinEnter(s, r) PROVE PeersAccounted'
  BY <1>4 DEF JoinEnter
<1>5. ASSUME NEW s \in Sockets, NEW r \in Rooms, GetCapabilities(s, r) PROVE PeersAccounted'
  BY <1>5 DEF GetCapabilities
<1>6. ASSUME NEW s \in Sockets, NEW r \in Rooms, ServeCapabilities(s, r) PROVE PeersAccounted'
  BY <1>6 DEF ServeCapabilities
<1>7. ASSUME NEW s \in Sockets, NEW r \in Rooms, CreateTransport(s, r) PROVE PeersAccounted'
  BY <1>7 DEF CreateTransport
<1>8. ASSUME NEW s \in Sockets, NEW r \in Rooms, ServeTransport(s, r) PROVE PeersAccounted'
  BY <1>8 DEF ServeTransport
<1>9. ASSUME NEW s \in Sockets, NEW r \in Rooms, StaleRouterArrives(s, r) PROVE PeersAccounted'
  <2>1. CASE peers' = [peers EXCEPT ![r] = @ \cup {s}]
    BY <1>9, <2>1 DEF StaleRouterArrives
  <2>2. CASE UNCHANGED peers
    BY <1>9, <2>2 DEF StaleRouterArrives
  <2> QED
    BY <1>9, <2>1, <2>2 DEF StaleRouterArrives
<1>10. ASSUME NEW s \in Sockets, NEW r \in Rooms, TransportDone(s, r) PROVE PeersAccounted'
  BY <1>10 DEF TransportDone
<1>11. ASSUME NEW s \in Sockets, NEW r \in Rooms, LeaveLost(s, r) PROVE PeersAccounted'
  BY <1>11 DEF LeaveLost
<1>12. ASSUME NEW s \in Sockets, NEW r \in Rooms, ServeLeave(s, r) PROVE PeersAccounted'
  BY <1>12 DEF ServeLeave
<1>13. ASSUME NEW s \in Sockets, NEW r \in Rooms, FinishLeave(s, r) PROVE PeersAccounted'
  BY <1>13 DEF FinishLeave
<1>14. ASSUME NEW s \in Sockets, LeaveRoom(s) PROVE PeersAccounted'
  BY <1>14 DEF LeaveRoom, CleanUp
<1>15. ASSUME NEW s \in Sockets, Disconnect(s) PROVE PeersAccounted'
  BY <1>15 DEF Disconnect, CleanUp
<1>16. ASSUME NEW r \in Rooms, RouterReady(r) PROVE PeersAccounted'
  BY <1>16 DEF RouterReady
<1>17. ASSUME NEW r \in Rooms, RouterFails(r) PROVE PeersAccounted'
  BY <1>17 DEF RouterFails
<1>18. CASE UNCHANGED vars
  BY <1>18 DEF vars
<1> QED
  BY <1>1, <1>2, <1>3, <1>4, <1>5, <1>6, <1>7, <1>8,
     <1>9, <1>10, <1>11, <1>12, <1>13, <1>14, <1>15, <1>16,
     <1>17, <1>18
     DEF Next

LEMMA RouterUnderPeersNext == TypeOK /\ CreatingInv /\ RouterUnderPeers /\ [Next]_vars => RouterUnderPeers'
<1> SUFFICES ASSUME TypeOK, CreatingInv, RouterUnderPeers, [Next]_vars PROVE RouterUnderPeers'
  OBVIOUS
<1> USE NoRoomAssumption DEF TypeOK, RouterUnderPeers, CreatingInv
<1>1. ASSUME NEW s \in Sockets, NEW r \in Rooms, JoinRoom(s, r) PROVE RouterUnderPeers'
  BY <1>1 DEF JoinRoom
<1>2. ASSUME NEW s \in Sockets, NEW r \in Rooms, JoinRefused(s, r) PROVE RouterUnderPeers'
  BY <1>2 DEF JoinRefused
<1>3. ASSUME NEW s \in Sockets, NEW r \in Rooms, JoinAdd(s, r) PROVE RouterUnderPeers'
  BY <1>3 DEF JoinAdd
<1>4. ASSUME NEW s \in Sockets, NEW r \in Rooms, JoinEnter(s, r) PROVE RouterUnderPeers'
  BY <1>4 DEF JoinEnter
<1>5. ASSUME NEW s \in Sockets, NEW r \in Rooms, GetCapabilities(s, r) PROVE RouterUnderPeers'
  BY <1>5 DEF GetCapabilities
<1>6. ASSUME NEW s \in Sockets, NEW r \in Rooms, ServeCapabilities(s, r) PROVE RouterUnderPeers'
  BY <1>6 DEF ServeCapabilities
<1>7. ASSUME NEW s \in Sockets, NEW r \in Rooms, CreateTransport(s, r) PROVE RouterUnderPeers'
  BY <1>7 DEF CreateTransport
<1>8. ASSUME NEW s \in Sockets, NEW r \in Rooms, ServeTransport(s, r) PROVE RouterUnderPeers'
  BY <1>8 DEF ServeTransport
<1>9. ASSUME NEW s \in Sockets, NEW r \in Rooms, StaleRouterArrives(s, r) PROVE RouterUnderPeers'
  BY <1>9 DEF StaleRouterArrives
<1>10. ASSUME NEW s \in Sockets, NEW r \in Rooms, TransportDone(s, r) PROVE RouterUnderPeers'
  <2>1. CASE wired' = [wired EXCEPT ![r] = @ \cup ({s} \cap peers[r])]
    BY <1>10, <2>1 DEF TransportDone
  <2>2. CASE UNCHANGED wired
    BY <1>10, <2>2 DEF TransportDone
  <2> QED
    BY <1>10, <2>1, <2>2 DEF TransportDone
<1>11. ASSUME NEW s \in Sockets, NEW r \in Rooms, LeaveLost(s, r) PROVE RouterUnderPeers'
  BY <1>11 DEF LeaveLost
<1>12. ASSUME NEW s \in Sockets, NEW r \in Rooms, ServeLeave(s, r) PROVE RouterUnderPeers'
  BY <1>12 DEF ServeLeave
<1>13. ASSUME NEW s \in Sockets, NEW r \in Rooms, FinishLeave(s, r) PROVE RouterUnderPeers'
  BY <1>13 DEF FinishLeave
<1>14. ASSUME NEW s \in Sockets, LeaveRoom(s) PROVE RouterUnderPeers'
  BY <1>14 DEF LeaveRoom, CleanUp
<1>15. ASSUME NEW s \in Sockets, Disconnect(s) PROVE RouterUnderPeers'
  BY <1>15 DEF Disconnect, CleanUp
<1>16. ASSUME NEW r \in Rooms, RouterReady(r) PROVE RouterUnderPeers'
  BY <1>16 DEF RouterReady
<1>17. ASSUME NEW r \in Rooms, RouterFails(r) PROVE RouterUnderPeers'
  BY <1>17 DEF RouterFails
<1>18. CASE UNCHANGED vars
  BY <1>18 DEF vars
<1> QED
  BY <1>1, <1>2, <1>3, <1>4, <1>5, <1>6, <1>7, <1>8,
     <1>9, <1>10, <1>11, <1>12, <1>13, <1>14, <1>15, <1>16,
     <1>17, <1>18
     DEF Next

LEMMA RoomsDrainNext == TypeOK /\ CallerInv /\ PeersAccounted /\ RoomsDrain /\ [Next]_vars => RoomsDrain'
<1> SUFFICES ASSUME TypeOK, CallerInv, PeersAccounted, RoomsDrain, [Next]_vars PROVE RoomsDrain'
  OBVIOUS
<1> USE NoRoomAssumption DEF TypeOK, RoomsDrain, CallerInv, PeersAccounted, Calling
<1>1. ASSUME NEW s \in Sockets, NEW r \in Rooms, JoinRoom(s, r) PROVE RoomsDrain'
  BY <1>1 DEF JoinRoom
<1>2. ASSUME NEW s \in Sockets, NEW r \in Rooms, JoinRefused(s, r) PROVE RoomsDrain'
  BY <1>2 DEF JoinRefused
<1>3. ASSUME NEW s \in Sockets, NEW r \in Rooms, JoinAdd(s, r) PROVE RoomsDrain'
  BY <1>3 DEF JoinAdd
<1>4. ASSUME NEW s \in Sockets, NEW r \in Rooms, JoinEnter(s, r) PROVE RoomsDrain'
  BY <1>4 DEF JoinEnter
<1>5. ASSUME NEW s \in Sockets, NEW r \in Rooms, GetCapabilities(s, r) PROVE RoomsDrain'
  BY <1>5 DEF GetCapabilities
<1>6. ASSUME NEW s \in Sockets, NEW r \in Rooms, ServeCapabilities(s, r) PROVE RoomsDrain'
  BY <1>6 DEF ServeCapabilities
<1>7. ASSUME NEW s \in Sockets, NEW r \in Rooms, CreateTransport(s, r) PROVE RoomsDrain'
  BY <1>7 DEF CreateTransport
<1>8. ASSUME NEW s \in Sockets, NEW r \in Rooms, ServeTransport(s, r) PROVE RoomsDrain'
  BY <1>8 DEF ServeTransport
<1>9. ASSUME NEW s \in Sockets, NEW r \in Rooms, StaleRouterArrives(s, r) PROVE RoomsDrain'
  BY <1>9 DEF StaleRouterArrives
<1>10. ASSUME NEW s \in Sockets, NEW r \in Rooms, TransportDone(s, r) PROVE RoomsDrain'
  BY <1>10 DEF TransportDone
<1>11. ASSUME NEW s \in Sockets, NEW r \in Rooms, LeaveLost(s, r) PROVE RoomsDrain'
  BY <1>11 DEF LeaveLost
<1>12. ASSUME NEW s \in Sockets, NEW r \in Rooms, ServeLeave(s, r) PROVE RoomsDrain'
  BY <1>12 DEF ServeLeave
<1>13. ASSUME NEW s \in Sockets, NEW r \in Rooms, FinishLeave(s, r) PROVE RoomsDrain'
  <2> SUFFICES ASSUME raced' = {}, NEW b \in Rooms, router'[b] # "none"
               PROVE \E q \in Sockets :
                        (room'[q] = b /\ uses'[q]) \/ leave'[q][b] # "none"
    BY DEF RoomsDrain
  <2>1. raced = {} /\ router[b] # "none" /\ (b = r => peers[r] # {})
    BY <1>13 DEF FinishLeave
  <2>2. CASE b = r
    <3>1. PICK q \in Sockets : q \in peers[r]
      BY <2>1, <2>2
    <3>2. (room[q] = r /\ uses[q]) \/ leave[q][r] = "sent"
      BY <2>1, <3>1
    <3> QED
      BY <1>13, <2>2, <3>2 DEF FinishLeave
  <2>3. CASE b # r
    <3>1. PICK q \in Sockets : (room[q] = b /\ uses[q]) \/ leave[q][b] # "none"
      BY <2>1
    <3> QED
      BY <1>13, <2>3, <3>1 DEF FinishLeave
  <2> QED
    BY <2>2, <2>3
<1>14. ASSUME NEW s \in Sockets, LeaveRoom(s) PROVE RoomsDrain'
  <2> SUFFICES ASSUME raced' = {}, NEW r \in Rooms, router'[r] # "none"
               PROVE \E q \in Sockets :
                        (room'[q] = r /\ uses'[q]) \/ leave'[q][r] # "none"
    BY DEF RoomsDrain
  <2>1. raced = {} /\ router[r] # "none"
    BY <1>14 DEF LeaveRoom
  <2>2. PICK q \in Sockets : (room[q] = r /\ uses[q]) \/ leave[q][r] # "none"
    BY <2>1
  <2>3. (room'[q] = r /\ uses'[q]) \/ leave'[q][r] # "none"
    BY <1>14, <2>2 DEF LeaveRoom, CleanUp
  <2> QED
    BY <2>3
<1>15. ASSUME NEW s \in Sockets, Disconnect(s) PROVE RoomsDrain'
  BY <1>15 DEF Disconnect, CleanUp
<1>16. ASSUME NEW r \in Rooms, RouterReady(r) PROVE RoomsDrain'
  BY <1>16 DEF RouterReady
<1>17. ASSUME NEW r \in Rooms, RouterFails(r) PROVE RoomsDrain'
  BY <1>17 DEF RouterFails
<1>18. CASE UNCHANGED vars
  BY <1>18 DEF vars
<1> QED
  BY <1>1, <1>2, <1>3, <1>4, <1>5, <1>6, <1>7, <1>8,
     <1>9, <1>10, <1>11, <1>12, <1>13, <1>14, <1>15, <1>16,
     <1>17, <1>18
     DEF Next

LEMMA CallNext == CallInv /\ [Next]_vars => CallInv'
BY TypeNext, JoinInvNext, CallerInvNext, CreatingInvNext, MembersMatchNext,
   PeersAccountedNext, RouterUnderPeersNext, RoomsDrainNext DEF CallInv

\* TypeCorrect: the declared shape; a transport in the map belongs to a peer of
\* the map.
THEOREM TypeCorrect == Spec => []TypeOK
<1> QED
  BY TypeInit, TypeNext, PTL DEF Spec

\* joinRoom, cleanUp: without a race of its own a socket is in the Redis set of
\* exactly the room it is in.
THEOREM MembersAreTheRoom == Spec => []MembersMatch
<1>1. CallInv => MembersMatch
  BY DEF CallInv
<1> QED
  BY <1>1, CallInit, CallNext, PTL DEF Spec

\* forgetPeer, removePeer: every peer of the SFU has somebody who will take it
\* out.
THEOREM PeersAreAccounted == Spec => []PeersAccounted
<1>1. CallInv => PeersAccounted
  BY DEF CallInv
<1> QED
  BY <1>1, CallInit, CallNext, PTL DEF Spec

\* leavePeerHandler: no router is left behind.
THEOREM RoomsAreClosed == Spec => []RoomsDrain
<1>1. CallInv => RoomsDrain
  BY DEF CallInv
<1> QED
  BY <1>1, CallInit, CallNext, PTL DEF Spec

\* NoRoomClosesUnderPeers: whatever overtakes what, a peer with a transport has
\* its router.
THEOREM NoRoomClosesUnderPeers == Spec => []RouterUnderPeers
<1>1. CallInv => RouterUnderPeers
  BY DEF CallInv
<1> QED
  BY <1>1, CallInit, CallNext, PTL DEF Spec
=============================================================================
