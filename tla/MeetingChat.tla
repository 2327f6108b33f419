----------------------------- MODULE MeetingChat -----------------------------
(***************************************************************************)
(* What everybody in ONE meeting hears: signaling's Socket.io room and its *)
(* relays, the two Redis channels behind them, chat-service's collection,  *)
(* the row of room-service that says whether the meeting goes on, and the  *)
(* chat panel of each client, which puts the history it asks for once in   *)
(* front of the messages that came live.                                   *)
(*                                                                         *)
(* A message is its number in the order signaling relays them.  Redis      *)
(* publishes at most once; a socket delivers in order until it drops.      *)
(***************************************************************************)
EXTENDS Integers, Sequences

CONSTANTS
    Clients,
    Limit,        \* messages a history request returns (50 in the client)
    NumMsgs,      \* bound: messages said
    MaxEnds,      \* bound: times the host ends the meeting
    MaxFaults     \* bound: publications lost, inserts failed, sockets dropped

ASSUME BoundsAssumption ==
    Limit \in Nat /\ NumMsgs \in Nat /\ MaxEnds \in Nat /\ MaxFaults \in Nat

VARIABLES
    active,     \* Room.isActive
    ends,       \* times end was asked
    ending,     \* endRoom handlers between the update and the publication
    at,         \* where the client stands: out, checked, admitted, in, away, gone
    inbox,      \* what its socket has still to deliver
    roomBus,    \* "room-events", as signaling has still to read it
    chatBus,    \* "chat-message", as chat-service has still to read it
    said,       \* messages relayed so far
    clock,      \* chat-service's time in milliseconds, as far as messages tell it
    stamp,      \* createdAt of each message, 0 while it has none
    stored,     \* messages in the collection
    history,    \* the history request of each client: none, served, shown
    answer,     \* what it returned
    hist,       \* the messages of the panel that came with the history
    live,       \* those that came over the socket
    since,      \* history: the first message relayed to this socket
    excused,    \* history: messages it cannot have: not stored when the history was
                \* read, or said while its socket was away
    deaf,       \* history: clients that the end was not, or not yet again, announced to
    faults

roomVars == <<active, ends, ending>>
chatVars == <<chatBus, said, clock, stamp, stored>>
panelVars == <<history, answer, hist, live>>
histVars == <<since, excused, deaf>>
vars == <<roomVars, at, inbox, roomBus, chatVars, panelVars, histVars, faults>>

Msgs == 1..NumMsgs
Ended == 0      \* the room-ended event among the messages of a socket

Elements(s) == {s[i] : i \in DOMAIN s}

TypeOK ==
    /\ active \in BOOLEAN
    /\ ends \in 0..MaxEnds /\ ending \in Nat
    /\ at \in [Clients -> {"out", "checked", "admitted", "in", "away", "gone"}]
    /\ inbox \in [Clients -> Seq(Msgs \cup {Ended})]
    /\ roomBus \in Nat /\ ending + roomBus <= ends
    /\ said \in 0..NumMsgs
    /\ chatBus \in Seq(1..said)
    /\ clock \in Nat /\ clock + Len(chatBus) <= said
    /\ stamp \in [Msgs -> 0..clock]
    /\ stored \subseteq {m \in Msgs : stamp[m] # 0}
    /\ history \in [Clients -> {"none", "served", "shown"}]
    /\ answer \in [Clients -> Seq(Msgs)]
    /\ hist \in [Clients -> Seq(Msgs)] /\ live \in [Clients -> Seq(Msgs)]
    /\ since \in [Clients -> 0..said + 1]
    /\ excused \in [Clients -> SUBSET Msgs]
    /\ deaf \subseteq Clients
    /\ faults \in 0..MaxFaults
    \* nothing reaches a client that is not in the Socket.io room
    /\ \A c \in Clients : inbox[c] # <<>> => at[c] = "in"

Init ==
    /\ active = TRUE /\ ends = 0 /\ ending = 0
    /\ at = [c \in Clients |-> "out"]
    /\ inbox = [c \in Clients |-> <<>>]
    /\ roomBus = 0 /\ chatBus = <<>>
    /\ said = 0 /\ clock = 0 /\ stamp = [m \in Msgs |-> 0] /\ stored = {}
    /\ history = [c \in Clients |-> "none"]
    /\ answer = [c \in Clients |-> <<>>]
    /\ hist = [c \in Clients |-> <<>>] /\ live = [c \in Clients |-> <<>>]
    /\ since = [c \in Clients |-> 0] /\ excused = [c \in Clients |-> {}]
    /\ deaf = {} /\ faults = 0

Fault == faults < MaxFaults /\ faults' = faults + 1

\* io.to(room).emit: every socket that is in the room at this moment.
Relay(x) == inbox' = [c \in Clients |-> IF at[c] = "in" THEN Append(inbox[c], x) ELSE inbox[c]]

-----------------------------------------------------------------------------
(* Joining and leaving *)

\* POST /rooms/:code/join reads the row ...
CheckRoom(c) ==
    /\ at[c] = "out" /\ active
    /\ at' = [at EXCEPT ![c] = "checked"]
    /\ UNCHANGED <<roomVars, inbox, roomBus, chatVars, panelVars, histVars, faults>>

\* ... and adds the participant, whatever the row says by then.
AddParticipant(c) ==
    /\ at[c] = "checked"
    /\ at' = [at EXCEPT ![c] = "admitted"]
    /\ UNCHANGED <<roomVars, inbox, roomBus, chatVars, panelVars, histVars, faults>>

\* join-room: signaling asks whether the room exists, not whether it is active.
\* A rejoin is the same; whoever comes after the announcement will not hear it.
Enter(c) ==
    /\ at[c] \in {"admitted", "away"}
    /\ at' = [at EXCEPT ![c] = "in"]
    /\ since' = [since EXCEPT ![c] = IF at[c] = "admitted" THEN said + 1 ELSE @]
    /\ deaf' = IF ends > ending + roomBus THEN deaf \cup {c} ELSE deaf
    /\ UNCHANGED <<roomVars, inbox, roomBus, chatVars, panelVars, excused, faults>>

\* What a client had on its panel goes with its page.
Gone(c) ==
    /\ at' = [at EXCEPT ![c] = "gone"]
    /\ inbox' = [inbox EXCEPT ![c] = <<>>]
    /\ history' = [history EXCEPT ![c] = "none"]
    /\ answer' = [answer EXCEPT ![c] = <<>>]
    /\ hist' = [hist EXCEPT ![c] = <<>>]
    /\ live' = [live EXCEPT ![c] = <<>>]
    /\ since' = [since EXCEPT ![c] = 0]
    /\ excused' = [excused EXCEPT ![c] = {}]
    /\ deaf' = deaf \ {c}

Leave(c) ==
    /\ at[c] = "in"
    /\ Gone(c)
    /\ UNCHANGED <<roomVars, roomBus, chatVars, faults>>

\* The connection breaks; what is on its way is lost.
Drop(c) ==
    /\ at[c] = "in" /\ Fault
    /\ at' = [at EXCEPT ![c] = "away"]
    /\ inbox' = [inbox EXCEPT ![c] = <<>>]
    /\ excused' = [excused EXCEPT ![c] = @ \cup (Elements(inbox[c]) \cap Msgs)]
    /\ UNCHANGED <<roomVars, roomBus, chatVars, panelVars, since, deaf>>

-----------------------------------------------------------------------------
(* The end of the meeting *)

\* endRoom: the row is written, and again by every repeated request.
EndRoom ==
    /\ ends < MaxEnds
    /\ ends' = ends + 1 /\ ending' = ending + 1
    /\ active' = FALSE
    /\ UNCHANGED <<at, inbox, roomBus, chatVars, panelVars, histVars, faults>>

PublishEnd ==
    /\ ending > 0
    /\ ending' = ending - 1
    /\ roomBus' = roomBus + 1
    /\ UNCHANGED <<active, ends, at, inbox, chatVars, panelVars, histVars, faults>>

InRoom == {c \in Clients : at[c] = "in"}

\* publishRoomEvent swallows the error.
PublishEndFails ==
    /\ ending > 0 /\ Fault
    /\ ending' = ending - 1
    /\ deaf' = deaf \cup InRoom
    /\ UNCHANGED <<active, ends, at, inbox, roomBus, chatVars, panelVars, since, excused>>

\* Mutant: only who has finished joining listens for room-ended.
RelayEndToTheSettled ==
    /\ roomBus > 0
    /\ roomBus' = roomBus - 1
    /\ inbox' = [c \in Clients |->
          IF c \in InRoom /\ history[c] = "shown" THEN Append(inbox[c], Ended) ELSE inbox[c]]
    /\ deaf' = deaf \ InRoom
    /\ UNCHANGED <<roomVars, at, chatVars, panelVars, since, excused, faults>>

RelayEnd ==
    /\ roomBus > 0
    /\ roomBus' = roomBus - 1
    /\ Relay(Ended)
    /\ deaf' = deaf \ InRoom
    /\ UNCHANGED <<roomVars, at, chatVars, panelVars, since, excused, faults>>

\* The subscriber is reconnecting.
LoseEnd ==
    /\ roomBus > 0 /\ Fault
    /\ roomBus' = roomBus - 1
    /\ deaf' = deaf \cup InRoom
    /\ UNCHANGED <<roomVars, at, inbox, chatVars, panelVars, since, excused>>

-----------------------------------------------------------------------------
(* Chat *)

\* The handler relays the message at once, to its sender, too, and publishes it.
Say(c) ==
    LET m == said + 1 IN
    /\ at[c] = "in" /\ said < NumMsgs
    /\ said' = m
    /\ Relay(m)
    /\ \/ chatBus' = Append(chatBus, m) /\ UNCHANGED faults
       \/ UNCHANGED chatBus /\ Fault
    /\ excused' = [d \in Clients |-> IF at[d] = "away" THEN excused[d] \cup {m} ELSE excused[d]]
    /\ UNCHANGED <<roomVars, at, roomBus, clock, stamp, stored, panelVars, since, deaf>>

\* Date.now for the document of m: messages of one millisecond get the same time.
DateNow(m) ==
    \E t \in {clock, clock + 1} \ {0} :
        /\ clock' = t
        /\ stamp' = [stamp EXCEPT ![m] = t]

\* The document is made, with its createdAt, and its insert is under way.
ChatArrives ==
    /\ chatBus # <<>>
    /\ DateNow(Head(chatBus))
    /\ chatBus' = Tail(chatBus)
    /\ UNCHANGED <<roomVars, at, inbox, roomBus, said, stored, panelVars, histVars, faults>>

LoseChat ==
    /\ chatBus # <<>> /\ Fault
    /\ chatBus' = Tail(chatBus)
    /\ UNCHANGED <<roomVars, at, inbox, roomBus, said, clock, stamp, stored, panelVars, histVars>>

\* Mutant: createdAt is set by the insert.
PersistStamps(m) ==
    /\ stamp[m] # 0 /\ m \notin stored
    /\ stored' = stored \cup {m}
    /\ DateNow(m)
    /\ UNCHANGED <<roomVars, at, inbox, roomBus, chatBus, said, panelVars, histVars, faults>>

\* Inserts are not awaited one after the other, and one that fails is forgotten:
\* that it never happens is the failure.
Persist(m) ==
    /\ stamp[m] # 0 /\ m \notin stored
    /\ stored' = stored \cup {m}
    /\ UNCHANGED <<roomVars, at, inbox, roomBus, chatBus, said, clock, stamp, panelVars, histVars,
                   faults>>

Histories == UNION {[1..n -> stored] : n \in 0..Limit}

\* getMessages: by createdAt ascending, the first Limit of them.  Nothing else
\* orders those of one millisecond, nor chooses among them at the limit.
IsHistory(h) ==
    /\ \A i, j \in DOMAIN h : i < j => h[i] # h[j] /\ stamp[h[i]] <= stamp[h[j]]
    /\ \A m \in stored \ Elements(h) :
          Len(h) = Limit /\ \A i \in DOMAIN h : stamp[h[i]] <= stamp[m]

\* join STEP 6, asked for once, in the room.
ServeHistory(c) ==
    /\ at[c] \in {"in", "away"} /\ history[c] = "none"
    /\ history' = [history EXCEPT ![c] = "served"]
    /\ \E h \in Histories : IsHistory(h) /\ answer' = [answer EXCEPT ![c] = h]
    /\ excused' = [excused EXCEPT ![c] = @ \cup {m \in 1..since[c] - 1 : m \notin stored}]
    /\ UNCHANGED <<roomVars, at, inbox, roomBus, chatVars, hist, live, since, deaf, faults>>

\* Mutant: the history replaces what is there.
HearHistoryReplaces(c) ==
    /\ history[c] = "served"
    /\ history' = [history EXCEPT ![c] = "shown"]
    /\ hist' = [hist EXCEPT ![c] = answer[c]]
    /\ live' = [live EXCEPT ![c] = <<>>]
    /\ answer' = [answer EXCEPT ![c] = <<>>]
    /\ UNCHANGED <<roomVars, at, inbox, roomBus, chatVars, histVars, faults>>

\* setMessages: the history goes before the live messages, which have no id.
HearHistory(c) ==
    /\ history[c] = "served"
    /\ history' = [history EXCEPT ![c] = "shown"]
    /\ hist' = [hist EXCEPT ![c] = answer[c]]
    /\ answer' = [answer EXCEPT ![c] = <<>>]
    /\ UNCHANGED <<roomVars, at, inbox, roomBus, chatVars, live, histVars, faults>>

\* addMessage, or room-ended: leave.
Hear(c) ==
    /\ inbox[c] # <<>>
    /\ IF Head(inbox[c]) = Ended
       THEN Gone(c)
       ELSE /\ inbox' = [inbox EXCEPT ![c] = Tail(@)]
            /\ live' = [live EXCEPT ![c] = Append(@, Head(inbox[c]))]
            /\ UNCHANGED <<at, history, answer, hist, histVars>>
    /\ UNCHANGED <<roomVars, roomBus, chatVars, faults>>

-----------------------------------------------------------------------------
Next ==
    \/ \E c \in Clients :
          \/ CheckRoom(c) \/ AddParticipant(c) \/ Enter(c) \/ Leave(c) \/ Drop(c)
          \/ Say(c) \/ Hear(c)
          \/ ServeHistory(c) \/ HearHistory(c)
    \/ EndRoom \/ PublishEnd \/ PublishEndFails \/ RelayEnd \/ LoseEnd
    \/ ChatArrives \/ LoseChat
    \/ \E m \in Msgs : Persist(m)

Spec == Init /\ [][Next]_vars

-----------------------------------------------------------------------------
(* Properties *)

Ascending(s) == \A i, j \in DOMAIN s : i < j => s[i] < s[j]

\* Each message once and in the order of the relay, or of one millisecond.
Chronological(s) ==
    \A i, j \in DOMAIN s : i < j =>
        s[i] # s[j] /\ (s[i] < s[j] \/ stamp[s[i]] = stamp[s[j]])

\* callStore: with the history and the live messages a panel has everything that
\* was said: what was relayed since its socket is in the room, however the
\* history meets it, and before that what was stored when the history was read,
\* up to the limit.
PanelIsComplete ==
    \A c \in Clients : at[c] = "in" /\ history[c] = "shown" =>
        \A m \in 1..said :
            \/ m \in Elements(live[c]) \cup Elements(inbox[c])
            \/ m < since[c] /\ m \in Elements(hist[c])
            \/ m < since[c] /\ Len(hist[c]) = Limit
            \/ m \in excused[c]

\* chatMessageSubscriber, callStore: everybody reads each message once and in the
\* order in which they were relayed, though inserts overtake each other; only
\* messages of the history that were made in one millisecond may have changed
\* places.  A message from the history stands before the live ones unless it is
\* one of them, or was said while the socket was away.
PanelInOrder ==
    \A c \in Clients : at[c] \in {"in", "away"} =>
        /\ Chronological(hist[c]) /\ Ascending(live[c])
        /\ \A m \in Elements(hist[c]) \ Elements(live[c]), n \in Elements(live[c]) :
              m < n \/ m \in Elements(inbox[c]) \/ m \in excused[c]

\* endRoom, room-ended: once the meeting has ended and the end was announced,
\* whoever is still in the room, also while joining, has the announcement on its
\* way or came too late for it.
NobodyStaysBehind ==
    ~active /\ ending = 0 /\ roomBus = 0 =>
        \A c \in Clients : at[c] = "in" => c \in deaf \/ Ended \in Elements(inbox[c])
=============================================================================
