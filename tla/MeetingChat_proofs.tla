-------------------------- MODULE MeetingChat_proofs --------------------------
(***************************************************************************)
(* Safety of MeetingChat for any clients, messages, limit and faults.       *)
(***************************************************************************)
EXTENDS MeetingChat, SequenceTheorems, TLAPS

USE DEF roomVars, chatVars, panelVars, histVars

LEMMA TypeInit == Init => TypeOK
  BY BoundsAssumption DEF Init, TypeOK, Msgs

PanelTyped ==
    /\ at \in [Clients -> {"out", "checked", "admitted", "in", "away", "gone"}]
    /\ inbox \in [Clients -> Seq(Msgs \cup {Ended})]
    /\ history \in [Clients -> {"none", "served", "shown"}]
    /\ answer \in [Clients -> Seq(Msgs)]
    /\ hist \in [Clients -> Seq(Msgs)] /\ live \in [Clients -> Seq(Msgs)]
    /\ since \in [Clients -> 0..said + 1]
    /\ excused \in [Clients -> SUBSET Msgs]
    /\ deaf \subseteq Clients
    /\ \A c \in Clients : inbox[c] # <<>> => at[c] = "in"

LEMMA GoneTyped ==
  ASSUME TypeOK, NEW c \in Clients, Gone(c), said' = said
  PROVE  PanelTyped'
<1> USE DEF TypeOK, Gone
<1>1. <<>> \in Seq(Msgs) /\ <<>> \in Seq(Msgs \cup {Ended})
  OBVIOUS
<1>2. at' \in [Clients -> {"out", "checked", "admitted", "in", "away", "gone"}]
  OBVIOUS
<1>3. inbox' \in [Clients -> Seq(Msgs \cup {Ended})]
  BY <1>1
<1>4. history' \in [Clients -> {"none", "served", "shown"}]
  OBVIOUS
<1>5. answer' \in [Clients -> Seq(Msgs)]
  BY <1>1
<1>6. hist' \in [Clients -> Seq(Msgs)]
  BY <1>1
<1>7. live' \in [Clients -> Seq(Msgs)]
  BY <1>1
<1>8. since' \in [Clients -> 0..said' + 1]
  OBVIOUS
<1>9. excused' \in [Clients -> SUBSET Msgs]
  OBVIOUS
<1>10. deaf' \subseteq Clients
  OBVIOUS
<1>11. \A d \in Clients : inbox'[d] # <<>> => at'[d] = "in"
  BY <1>2, <1>3
<1> QED
  BY <1>2, <1>3, <1>4, <1>5, <1>6, <1>7, <1>8, <1>9, <1>10, <1>11 DEF PanelTyped

LEMMA TypeNext == TypeOK /\ [Next]_vars => TypeOK'
<1> SUFFICES ASSUME TypeOK, [Next]_vars PROVE TypeOK'
  OBVIOUS
<1> USE BoundsAssumption DEF TypeOK, Msgs, Ended
<1>1. ASSUME NEW c \in Clients, CheckRoom(c) PROVE TypeOK'
  BY <1>1 DEF CheckRoom
<1>2. ASSUME NEW c \in Clients, AddParticipant(c) PROVE TypeOK'
  BY <1>2 DEF AddParticipant
<1>3. ASSUME NEW c \in Clients, Enter(c) PROVE TypeOK'
  <2>1. at' \in [Clients -> {"out", "checked", "admitted", "in", "away", "gone"}]
    BY <1>3 DEF Enter
  <2>2. since' \in [Clients -> 0..said' + 1]
    BY <1>3 DEF Enter
  <2>3. deaf' \subseteq Clients
    BY <1>3 DEF Enter
  <2>4. \A d \in Clients : inbox'[d] # <<>> => at'[d] = "in"
    BY <1>3, <2>1 DEF Enter
  <2> QED
    BY <1>3, <2>1, <2>2, <2>3, <2>4 DEF Enter
<1>4. ASSUME NEW c \in Clients, Leave(c) PROVE TypeOK'
  <2>1. Gone(c)
    BY <1>4 DEF Leave
  <2> QED
    BY <1>4, <2>1, GoneTyped DEF Leave, PanelTyped
<1>5. ASSUME NEW c \in Clients, Drop(c) PROVE TypeOK'
  <2>1. at' \in [Clients -> {"out", "checked", "admitted", "in", "away", "gone"}]
    BY <1>5 DEF Drop, Fault
  <2>2. inbox' \in [Clients -> Seq(Msgs \cup {Ended})]
    BY <1>5 DEF Drop, Fault
  <2>3. excused' \in [Clients -> SUBSET Msgs]
    BY <1>5 DEF Drop, Fault
  <2>4. \A d \in Clients : inbox'[d] # <<>> => at'[d] = "in"
    BY <1>5, <2>1, <2>2 DEF Drop, Fault
  <2>5. faults' \in 0..MaxFaults
    BY <1>5 DEF Drop, Fault
  <2> QED
    BY <1>5, <2>1, <2>2, <2>3, <2>4, <2>5 DEF Drop, Fault
<1>6. ASSUME NEW c \in Clients, Say(c) PROVE TypeOK'
  <2>1. said' = said + 1 /\ said' \in 0..NumMsgs /\ said' \in Msgs
    BY <1>6 DEF Say
  <2>2. inbox' = [d \in Clients |-> IF at[d] = "in" THEN Append(inbox[d], said') ELSE inbox[d]]
    BY <1>6, <2>1 DEF Say, Relay
  <2>3. ASSUME NEW d \in Clients PROVE inbox'[d] \in Seq(Msgs \cup {Ended})
    <3>1. inbox[d] \in Seq(Msgs \cup {Ended}) /\ said' \in Msgs \cup {Ended}
      BY <2>1
    <3>2. Append(inbox[d], said') \in Seq(Msgs \cup {Ended})
      BY <3>1, AppendProperties
    <3> QED
      BY <2>2, <3>1, <3>2
  <2>4. inbox' \in [Clients -> Seq(Msgs \cup {Ended})]
    BY <2>2, <2>3
  <2>5. chatBus \in Seq(1..said')
    BY <2>1
  <2>6. chatBus' \in Seq(1..said') /\ clock' \in Nat /\ clock' + Len(chatBus') <= said'
    <3>1. clock' = clock
      BY <1>6 DEF Say
    <3>2. CASE chatBus' = chatBus
      BY <2>1, <2>5, <3>1, <3>2
    <3>3. CASE chatBus' = Append(chatBus, said')
      <4>1. said' \in 1..said'
        BY <2>1
      <4>2. chatBus' \in Seq(1..said') /\ Len(chatBus') = Len(chatBus) + 1
        BY <2>5, <3>3, <4>1, AppendProperties
      <4>3. Len(chatBus) \in Nat
        BY <2>5, LenProperties
      <4> QED
        BY <2>1, <3>1, <4>2, <4>3
    <3> QED
      BY <1>6, <2>1, <3>2, <3>3 DEF Say
  <2>7. ASSUME NEW d \in Clients PROVE excused'[d] \in SUBSET Msgs
    <3>1. excused[d] \in SUBSET Msgs
      OBVIOUS
    <3> QED
      BY <1>6, <2>1, <3>1 DEF Say
  <2>8. excused' \in [Clients -> SUBSET Msgs]
    BY <1>6, <2>7 DEF Say
  <2>9. since' \in [Clients -> 0..said' + 1]
    BY <1>6, <2>1 DEF Say
  <2>10. \A d \in Clients : inbox'[d] # <<>> => at'[d] = "in"
    BY <1>6, <2>2 DEF Say
  <2>11. faults' \in 0..MaxFaults
    <3>1. faults' = faults \/ Fault
      BY <1>6 DEF Say
    <3> QED
      BY <3>1 DEF Fault
  <2> QED
    BY <1>6, <2>1, <2>4, <2>6, <2>8, <2>9, <2>10, <2>11 DEF Say
<1>7. ASSUME NEW c \in Clients, Hear(c) PROVE TypeOK'
  <2>1. CASE Head(inbox[c]) = Ended
    <3>1. Gone(c)
      BY <1>7, <2>1 DEF Hear
    <3> QED
      BY <1>7, <3>1, GoneTyped DEF Hear, PanelTyped
  <2>2. CASE Head(inbox[c]) # Ended
    <3> DEFINE x == Head(inbox[c])
    <3>1. inbox[c] \in Seq(Msgs \cup {Ended}) /\ inbox[c] # <<>> /\ live[c] \in Seq(Msgs)
      BY <1>7 DEF Hear
    <3>2. x \in Msgs \cup {Ended} /\ Tail(inbox[c]) \in Seq(Msgs \cup {Ended})
      BY <3>1, HeadTailProperties
    <3>3. x \in Msgs
      BY <2>2, <3>2
    <3>4. Append(live[c], x) \in Seq(Msgs)
      BY <3>1, <3>3, AppendProperties
    <3>5. /\ inbox' = [inbox EXCEPT ![c] = Tail(@)]
          /\ live' = [live EXCEPT ![c] = Append(@, x)]
          /\ UNCHANGED <<at, history, answer, hist, histVars, roomVars, roomBus, chatVars, faults>>
      BY <1>7, <2>2 DEF Hear
    <3> HIDE DEF x
    <3>6. inbox' \in [Clients -> Seq(Msgs \cup {Ended})] /\ live' \in [Clients -> Seq(Msgs)]
      BY <3>2, <3>4, <3>5
    <3>7. \A d \in Clients : inbox'[d] # <<>> => at'[d] = "in"
      BY <3>1, <3>5
    <3> QED
      BY <3>5, <3>6, <3>7
  <2> QED
    BY <2>1, <2>2
<1>8. ASSUME NEW c \in Clients, ServeHistory(c) PROVE TypeOK'
  <2>1. PICK h \in Histories : answer' = [answer EXCEPT ![c] = h]
    BY <1>8 DEF ServeHistory
  <2>2. h \in Seq(Msgs)
    <3>1. PICK n \in 0..Limit : h \in [1..n -> stored]
      BY <2>1 DEF Histories
    <3>2. stored \subseteq Msgs /\ n \in Nat
      OBVIOUS
    <3>3. h \in [1..n -> Msgs]
      BY <3>1, <3>2
    <3> QED
      BY <3>2, <3>3
  <2>3. answer' \in [Clients -> Seq(Msgs)]
    BY <2>1, <2>2
  <2>4. history' \in [Clients -> {"none", "served", "shown"}]
    BY <1>8 DEF ServeHistory
  <2>5. excused' \in [Clients -> SUBSET Msgs]
    BY <1>8 DEF ServeHistory
  <2> QED
    BY <1>8, <2>3, <2>4, <2>5 DEF ServeHistory
<1>9. ASSUME NEW c \in Clients, HearHistory(c) PROVE TypeOK'
  <2>1. history' \in [Clients -> {"none", "served", "shown"}]
    BY <1>9 DEF HearHistory
  <2>2. hist' \in [Clients -> Seq(Msgs)]
    BY <1>9 DEF HearHistory
  <2>3. answer' \in [Clients -> Seq(Msgs)]
    BY <1>9 DEF HearHistory
  <2> QED
    BY <1>9, <2>1, <2>2, <2>3 DEF HearHistory
<1>10. ASSUME EndRoom PROVE TypeOK'
  <2>1. ends' \in 0..MaxEnds /\ ending' \in Nat /\ roomBus' \in Nat /\ ending' + roomBus' <= ends'
    BY <1>10 DEF EndRoom
  <2> QED
    BY <1>10, <2>1 DEF EndRoom
<1>11. ASSUME PublishEnd PROVE TypeOK'
  BY <1>11 DEF PublishEnd
<1>12. ASSUME PublishEndFails PROVE TypeOK'
  <2>1. ending' \in Nat /\ ending' + roomBus' <= ends' /\ faults' \in 0..MaxFaults
    BY <1>12 DEF PublishEndFails, Fault
  <2>2. deaf' \subseteq Clients
    BY <1>12 DEF PublishEndFails, InRoom
  <2> QED
    BY <1>12, <2>1, <2>2 DEF PublishEndFails
<1>13. ASSUME RelayEnd PROVE TypeOK'
  <2>1. inbox' \in [Clients -> Seq(Msgs \cup {Ended})]
    BY <1>13 DEF RelayEnd, Relay
  <2>2. \A d \in Clients : inbox'[d] # <<>> => at'[d] = "in"
    BY <1>13 DEF RelayEnd, Relay
  <2>3. roomBus' \in Nat /\ ending' + roomBus' <= ends' /\ deaf' \subseteq Clients
    BY <1>13 DEF RelayEnd
  <2> QED
    BY <1>13, <2>1, <2>2, <2>3 DEF RelayEnd
<1>14. ASSUME LoseEnd PROVE TypeOK'
  <2>1. roomBus' \in Nat /\ ending' + roomBus' <= ends' /\ faults' \in 0..MaxFaults
    BY <1>14 DEF LoseEnd, Fault
  <2>2. deaf' \subseteq Clients
    BY <1>14 DEF LoseEnd, InRoom
  <2> QED
    BY <1>14, <2>1, <2>2 DEF LoseEnd
<1>15. ASSUME ChatArrives PROVE TypeOK'
  <2>1. chatBus' \in Seq(1..said') /\ clock' \in Nat /\ clock' + Len(chatBus') <= said'
    <3>1. chatBus \in Seq(1..said) /\ chatBus # <<>> /\ said' = said
          /\ chatBus' = Tail(chatBus) /\ clock' \in {clock, clock + 1}
      BY <1>15 DEF ChatArrives, DateNow
    <3>2. chatBus' \in Seq(1..said) /\ Len(chatBus') = Len(chatBus) - 1 /\ Len(chatBus) \in Nat
      BY <3>1, HeadTailProperties, LenProperties
    <3> QED
      BY <3>1, <3>2
  <2>2. /\ stamp' = [stamp EXCEPT ![Head(chatBus)] = clock'] /\ stored' = stored
        /\ clock' \in {clock, clock + 1} /\ clock' # 0
    BY <1>15 DEF ChatArrives, DateNow
  <2>3. clock \in Nat /\ stamp \in [Msgs -> 0..clock] /\ stored \subseteq {m \in Msgs : stamp[m] # 0}
    OBVIOUS
  <2> HIDE DEF TypeOK, Msgs
  <2>a. \A m \in Msgs : stamp'[m] = stamp[m] \/ stamp'[m] = clock'
    BY <2>2, <2>3
  <2>4. stamp' \in [Msgs -> 0..clock']
    <3>1. \A m \in Msgs : stamp'[m] \in 0..clock'
      <4>1. \A m \in Msgs : stamp[m] \in 0..clock
        BY <2>3
      <4>2. clock \in Nat /\ clock' \in {clock, clock + 1}
        BY <2>2, <2>3
      <4> QED
        BY <2>a, <4>1, <4>2
    <3>2. stamp' = [m \in Msgs |-> stamp'[m]]
      BY <2>2, <2>3
    <3> QED
      BY <3>1, <3>2
  <2>5. stored' \subseteq {m \in Msgs : stamp'[m] # 0}
    <3>3. \A m \in stored : m \in Msgs /\ stamp[m] # 0
      BY <2>3
    <3> QED
      BY <2>2, <2>a, <3>3
  <2> USE DEF TypeOK, Msgs
  <2> QED
    BY <1>15, <2>1, <2>4, <2>5 DEF ChatArrives
<1>16. ASSUME LoseChat PROVE TypeOK'
  <2>1. chatBus' \in Seq(1..said') /\ clock' \in Nat /\ clock' + Len(chatBus') <= said'
    BY <1>16 DEF LoseChat, Fault
  <2>2. faults' \in 0..MaxFaults
    BY <1>16 DEF LoseChat, Fault
  <2> QED
    BY <1>16, <2>1, <2>2 DEF LoseChat, Fault
<1>17. ASSUME NEW m \in Msgs, Persist(m) PROVE TypeOK'
  BY <1>17 DEF Persist
<1>18. CASE UNCHANGED vars
  BY <1>18 DEF vars
<1> QED
  BY <1>1, <1>2, <1>3, <1>4, <1>5, <1>6, <1>7, <1>8, <1>9, <1>10, <1>11, <1>12, <1>13, <1>14, <1>15, <1>16, <1>17, <1>18 DEF Next

\* Every reachable state has the declared shape, and no message is stored before
\* it was said, for any number of clients, messages and faults.
THEOREM TypeCorrect == Spec => []TypeOK
<1>1. Init => TypeOK
  BY TypeInit
<1>2. TypeOK /\ [Next]_vars => TypeOK'
  BY TypeNext
<1> QED
  BY <1>1, <1>2, PTL DEF Spec

-----------------------------------------------------------------------------
(* Sequences *)

LEMMA ElementsAppend ==
  ASSUME NEW S, NEW s \in Seq(S), NEW x \in S
  PROVE  Elements(Append(s, x)) = Elements(s) \cup {x}
<1>1. /\ Len(s) \in Nat /\ DOMAIN s = 1..Len(s)
      /\ DOMAIN Append(s, x) = 1..Len(s) + 1
      /\ \A i \in 1..Len(s) : Append(s, x)[i] = s[i]
      /\ Append(s, x)[Len(s) + 1] = x
  BY AppendProperties, LenProperties
<1> QED
  BY <1>1 DEF Elements

LEMMA ElementsTail ==
  ASSUME NEW S, NEW s \in Seq(S), s # <<>>
  PROVE  /\ Elements(s) = {Head(s)} \cup Elements(Tail(s))
         /\ \A i \in DOMAIN Tail(s) : i + 1 \in DOMAIN s /\ Tail(s)[i] = s[i + 1]
<1>1. /\ Len(s) \in Nat /\ Len(s) > 0 /\ DOMAIN s = 1..Len(s)
      /\ Head(s) = s[1]
      /\ DOMAIN Tail(s) = 1..Len(s) - 1
      /\ \A i \in 1..Len(s) - 1 : Tail(s)[i] = s[i + 1]
  BY HeadTailProperties, LenProperties, EmptySeq
<1>2. \A i \in 1..Len(s) : i = 1 \/ i - 1 \in 1..Len(s) - 1
  BY <1>1
<1>3. \A i \in 1..Len(s) - 1 : i + 1 \in 1..Len(s)
  BY <1>1
<1>4. Elements(s) \subseteq {Head(s)} \cup Elements(Tail(s))
  <2> SUFFICES ASSUME NEW i \in 1..Len(s), s[i] # Head(s) PROVE s[i] \in Elements(Tail(s))
    BY <1>1 DEF Elements
  <2>1. i - 1 \in 1..Len(s) - 1 /\ Tail(s)[i - 1] = s[i]
    BY <1>1, <1>2
  <2> QED
    BY <1>1, <2>1 DEF Elements
<1>5. {Head(s)} \cup Elements(Tail(s)) \subseteq Elements(s)
  <2>1. Head(s) \in Elements(s)
    BY <1>1 DEF Elements
  <2>2. Elements(Tail(s)) \subseteq Elements(s)
    BY <1>1, <1>3 DEF Elements
  <2> QED
    BY <2>1, <2>2
<1> QED
  BY <1>1, <1>3, <1>4, <1>5

\* The end has no place in the order of the messages.
Rising(s) == \A i, j \in DOMAIN s : i < j /\ s[i] # Ended /\ s[j] # Ended => s[i] < s[j]

LEMMA RisingAppend ==
  ASSUME NEW s \in Seq(Int), NEW x \in Int, Rising(s),
         x # Ended => \A y \in Elements(s) : y # Ended => y < x
  PROVE  Rising(Append(s, x))
<1> DEFINE t == Append(s, x)
<1>1. /\ Len(s) \in Nat /\ DOMAIN s = 1..Len(s) /\ DOMAIN t = 1..Len(s) + 1
      /\ \A i \in 1..Len(s) : t[i] = s[i]
      /\ t[Len(s) + 1] = x
  BY AppendProperties, LenProperties
<1> HIDE DEF t
<1>2. SUFFICES ASSUME NEW i \in DOMAIN t, NEW j \in DOMAIN t, i < j, t[i] # Ended, t[j] # Ended
               PROVE  t[i] < t[j]
  BY DEF Rising, t
<1>3. i \in 1..Len(s) /\ t[i] = s[i] /\ s[i] \in Elements(s)
  BY <1>1, <1>2 DEF Elements
<1>4. CASE j = Len(s) + 1
  BY <1>1, <1>2, <1>3, <1>4
<1>5. CASE j \in 1..Len(s)
  BY <1>1, <1>2, <1>3, <1>5 DEF Rising
<1> QED
  BY <1>1, <1>2, <1>4, <1>5

LEMMA RisingTail ==
  ASSUME NEW s \in Seq(Int), s # <<>>, Rising(s)
  PROVE  /\ Rising(Tail(s))
         /\ Head(s) # Ended => \A y \in Elements(Tail(s)) : y # Ended => Head(s) < y
<1>1. /\ Len(s) \in Nat /\ Len(s) > 0 /\ DOMAIN s = 1..Len(s)
      /\ Head(s) = s[1]
      /\ DOMAIN Tail(s) = 1..Len(s) - 1
      /\ \A i \in 1..Len(s) - 1 : Tail(s)[i] = s[i + 1]
  BY HeadTailProperties, LenProperties, EmptySeq
<1>2. Rising(Tail(s))
  BY <1>1 DEF Rising
<1>3. ASSUME Head(s) # Ended, NEW i \in 1..Len(s) - 1, Tail(s)[i] # Ended
      PROVE  Head(s) < Tail(s)[i]
  BY <1>1, <1>3 DEF Rising
<1> QED
  BY <1>1, <1>2, <1>3 DEF Elements

-----------------------------------------------------------------------------
(* The end of the meeting *)

\* Whoever is in the room of an ended meeting has the end ahead of it, in some
\* handler, on the channel or on its socket, or is excused.
EndInv ==
    /\ ends = 0 => active
    /\ \A c \in Clients : at[c] = "in" =>
          \/ active \/ ending > 0 \/ roomBus > 0
          \/ c \in deaf \/ Ended \in Elements(inbox[c])

LEMMA EndNext == TypeOK /\ EndInv /\ [Next]_vars => EndInv'
<1> SUFFICES ASSUME TypeOK, EndInv, [Next]_vars PROVE EndInv'
  OBVIOUS
<1> USE DEF EndInv
<1>t. /\ ends \in Nat /\ ending \in Nat /\ roomBus \in Nat /\ ending + roomBus <= ends
      /\ inbox \in [Clients -> Seq(Msgs \cup {Ended})]
      /\ at \in [Clients -> {"out", "checked", "admitted", "in", "away", "gone"}]
  BY BoundsAssumption DEF TypeOK
<1>g. ASSUME NEW c \in Clients, Gone(c), UNCHANGED <<roomVars, roomBus>> PROVE EndInv'
  BY <1>g, <1>t DEF Gone
<1>1. ASSUME NEW c \in Clients, CheckRoom(c) PROVE EndInv'
  BY <1>1, <1>t DEF CheckRoom
<1>2. ASSUME NEW c \in Clients, AddParticipant(c) PROVE EndInv'
  BY <1>2, <1>t DEF AddParticipant
<1>3. ASSUME NEW c \in Clients, Enter(c) PROVE EndInv'
  <2>1. CASE ends > ending + roomBus
    BY <1>3, <1>t, <2>1 DEF Enter
  <2>2. CASE ~(ends > ending + roomBus)
    BY <1>3, <1>t, <2>2 DEF Enter
  <2> QED
    BY <2>1, <2>2
<1>4. ASSUME NEW c \in Clients, Leave(c) PROVE EndInv'
  BY <1>4, <1>g DEF Leave
<1>5. ASSUME NEW c \in Clients, Drop(c) PROVE EndInv'
  BY <1>5, <1>t DEF Drop
<1>6. ASSUME NEW c \in Clients, Say(c) PROVE EndInv'
  <2>1. ASSUME NEW d \in Clients, at[d] = "in" PROVE Elements(inbox[d]) \subseteq Elements(inbox'[d])
    <3>1. said + 1 \in Msgs \cup {Ended} /\ inbox'[d] = Append(inbox[d], said + 1)
      BY <1>6, <2>1, BoundsAssumption DEF Say, Relay, TypeOK, Msgs
    <3> QED
      BY <3>1, <1>t, ElementsAppend
  <2> QED
    BY <1>6, <2>1 DEF Say
<1>7. ASSUME NEW c \in Clients, Hear(c) PROVE EndInv'
  <2>1. CASE Head(inbox[c]) = Ended
    BY <1>7, <1>g, <2>1 DEF Hear
  <2>2. CASE Head(inbox[c]) # Ended
    <3>1. Ended \in Elements(inbox[c]) => Ended \in Elements(Tail(inbox[c]))
      BY <1>7, <1>t, <2>2, ElementsTail DEF Hear
    <3> QED
      BY <1>7, <1>t, <2>2, <3>1 DEF Hear
  <2> QED
    BY <2>1, <2>2
<1>8. ASSUME NEW c \in Clients, ServeHistory(c) PROVE EndInv'
  BY <1>8 DEF ServeHistory
<1>9. ASSUME NEW c \in Clients, HearHistory(c) PROVE EndInv'
  BY <1>9 DEF HearHistory
<1>10. ASSUME EndRoom PROVE EndInv'
  BY <1>10, <1>t DEF EndRoom
<1>11. ASSUME PublishEnd PROVE EndInv'
  BY <1>11, <1>t DEF PublishEnd
<1>12. ASSUME PublishEndFails PROVE EndInv'
  BY <1>12, <1>t DEF PublishEndFails, InRoom
<1>13. ASSUME RelayEnd PROVE EndInv'
  <2>1. ASSUME NEW d \in Clients, at[d] = "in" PROVE Ended \in Elements(inbox'[d])
    <3>1. inbox'[d] = Append(inbox[d], Ended)
      BY <1>13, <2>1 DEF RelayEnd, Relay
    <3> QED
      BY <3>1, <1>t, ElementsAppend
  <2> QED
    BY <1>13, <2>1 DEF RelayEnd
<1>14. ASSUME LoseEnd PROVE EndInv'
  BY <1>14, <1>t DEF LoseEnd, InRoom
<1>15. ASSUME ChatArrives PROVE EndInv'
  BY <1>15 DEF ChatArrives
<1>16. ASSUME LoseChat PROVE EndInv'
  BY <1>16 DEF LoseChat
<1>17. ASSUME NEW m \in Msgs, Persist(m) PROVE EndInv'
  BY <1>17 DEF Persist
<1>18. CASE UNCHANGED vars
  BY <1>18 DEF vars
<1> QED
  BY <1>1, <1>2, <1>3, <1>4, <1>5, <1>6, <1>7, <1>8, <1>9, <1>10, <1>11, <1>12, <1>13, <1>14,
     <1>15, <1>16, <1>17, <1>18 DEF Next

\* An ended meeting whose end was announced keeps nobody who could have heard it,
\* for any number of clients, of ends and of faults.
THEOREM NobodyStaysBehindAlways == Spec => []NobodyStaysBehind
<1>1. Init => EndInv
  BY DEF Init, EndInv
<1>2. TypeOK /\ EndInv /\ [Next]_vars => EndInv'
  BY EndNext
<1>3. TypeOK /\ EndInv => NobodyStaysBehind
  BY DEF TypeOK, EndInv, NobodyStaysBehind
<1> QED
  BY <1>1, <1>2, <1>3, TypeCorrect, PTL DEF Spec

-----------------------------------------------------------------------------
(* The order of the collection *)

\* chat-service stamps the messages in the order in which they were said, and never
\* one that has its stamp.
StampInv ==
    /\ Rising(chatBus)
    /\ \A m \in Msgs : stamp[m] # 0 => m <= said /\ \A x \in Elements(chatBus) : m < x
    /\ \A m, n \in Msgs : stamp[m] # 0 /\ stamp[n] # 0 /\ m < n => stamp[m] <= stamp[n]

LEMMA StampNext == TypeOK /\ StampInv /\ [Next]_vars => StampInv'
<1> SUFFICES ASSUME TypeOK, StampInv, [Next]_vars PROVE StampInv'
  OBVIOUS
<1>t. /\ said \in Nat /\ chatBus \in Seq(1..said) /\ chatBus \in Seq(Int)
      /\ clock \in Nat /\ stamp \in [Msgs -> 0..clock] /\ Msgs \subseteq Int
  BY BoundsAssumption DEF TypeOK, Msgs
<1>e. \A x \in Elements(chatBus) : x \in 1..said
  BY <1>t, ElementOfSeq, LenProperties DEF Elements
<1>1. CASE UNCHANGED <<chatBus, said, stamp>>
  BY <1>1 DEF StampInv, Rising, Elements
<1>2. ASSUME NEW c \in Clients, Say(c) PROVE StampInv'
  <2>1. said' = said + 1 /\ UNCHANGED stamp
    BY <1>2 DEF Say
  <2>2. CASE chatBus' = chatBus
    BY <1>t, <2>1, <2>2 DEF StampInv, Rising, Elements
  <2>3. CASE chatBus' = Append(chatBus, said + 1)
    <3>1. Rising(chatBus')
      BY <1>t, <1>e, <2>3, RisingAppend DEF StampInv
    <3>2. Elements(chatBus') = Elements(chatBus) \cup {said + 1}
      BY <1>t, <2>3, ElementsAppend
    <3> QED
      BY <1>t, <2>1, <3>1, <3>2 DEF StampInv
  <2> QED
    BY <1>2, <2>2, <2>3 DEF Say
<1>3. CASE ChatArrives
  <2> DEFINE x == Head(chatBus)
  <2>1. /\ chatBus # <<>> /\ chatBus' = Tail(chatBus) /\ said' = said
        /\ stamp' = [stamp EXCEPT ![x] = clock'] /\ clock' \in {clock, clock + 1}
    BY <1>3 DEF ChatArrives, DateNow
  <2>2. Elements(chatBus) = {x} \cup Elements(Tail(chatBus)) /\ x \in 1..said
    BY <1>t, <1>e, <2>1, ElementsTail
  <2>3. Rising(Tail(chatBus)) /\ \A y \in Elements(Tail(chatBus)) : x < y
    BY <1>t, <1>e, <2>1, <2>2, RisingTail DEF StampInv, Ended
  <2>4. \A m \in Msgs : stamp[m] # 0 => m < x
    BY <2>2 DEF StampInv
  <2> HIDE DEF x
  <2>5. \A m \in Msgs : stamp'[m] = IF m = x THEN clock' ELSE stamp[m]
    BY <1>t, <2>1
  <2>6. \A m \in Msgs : stamp'[m] # 0 => m <= said /\ \A y \in Elements(chatBus') : m < y
    BY <1>t, <2>1, <2>2, <2>3, <2>5 DEF StampInv
  <2>7. ASSUME NEW m \in Msgs, NEW n \in Msgs, stamp'[m] # 0, stamp'[n] # 0, m < n
        PROVE  stamp'[m] <= stamp'[n]
    <3>1. CASE m = x
      BY <1>t, <2>2, <2>4, <2>5, <2>7, <3>1
    <3>2. CASE m # x /\ n = x
      BY <1>t, <2>1, <2>5, <2>7, <3>2
    <3>3. CASE m # x /\ n # x
      BY <1>t, <2>5, <2>7, <3>3 DEF StampInv
    <3> QED
      BY <3>1, <3>2, <3>3
  <2> QED
    BY <2>1, <2>3, <2>6, <2>7 DEF StampInv
<1>4. CASE LoseChat
  <2>1. chatBus # <<>> /\ chatBus' = Tail(chatBus) /\ UNCHANGED <<said, stamp>>
    BY <1>4 DEF LoseChat
  <2>2. Elements(chatBus') \subseteq Elements(chatBus) /\ Rising(chatBus')
    BY <1>t, <2>1, ElementsTail, RisingTail DEF StampInv
  <2> QED
    BY <2>1, <2>2 DEF StampInv
<1>5. Next => \/ UNCHANGED <<chatBus, said, stamp>>
              \/ \E c \in Clients : Say(c)
              \/ ChatArrives \/ LoseChat
  BY DEF Next, CheckRoom, AddParticipant, Enter, Leave, Drop, Hear, ServeHistory, HearHistory,
     EndRoom, PublishEnd, PublishEndFails, RelayEnd, LoseEnd, Persist
<1> QED
  BY <1>1, <1>2, <1>3, <1>4, <1>5 DEF vars

\* What a history request returns is in the order of the messages, but for those
\* of one millisecond.
LEMMA HistoryOrdered ==
  ASSUME TypeOK, StampInv, NEW h \in Histories, IsHistory(h)
  PROVE  /\ Chronological(h) /\ Elements(h) \subseteq stored
         /\ \A m \in stored : m \in Elements(h) \/ Len(h) = Limit
<1>1. PICK k \in 0..Limit : h \in [1..k -> stored]
  BY DEF Histories
<1>2. stored \subseteq Msgs /\ Msgs \subseteq Int /\ stamp \in [Msgs -> Int]
      /\ \A m \in stored : stamp[m] # 0
  BY BoundsAssumption DEF TypeOK, Msgs
<1>3. Elements(h) \subseteq stored
  BY <1>1 DEF Elements
<1>4. ASSUME NEW i \in DOMAIN h, NEW j \in DOMAIN h, i < j
      PROVE  h[i] # h[j] /\ (h[i] < h[j] \/ stamp[h[i]] = stamp[h[j]])
  <2>1. PICK a \in stored, b \in stored : a = h[i] /\ b = h[j]
    BY <1>1
  <2>2. a # b /\ stamp[a] <= stamp[b]
    BY <1>4, <2>1 DEF IsHistory
  <2>3. /\ a \in Msgs /\ b \in Msgs /\ a \in Int /\ b \in Int
        /\ stamp[a] # 0 /\ stamp[b] # 0 /\ stamp[a] \in Int /\ stamp[b] \in Int
    BY <1>2, <2>1
  <2>4. b < a => stamp[b] <= stamp[a]
    BY <2>3 DEF StampInv
  <2>5. a < b \/ stamp[a] = stamp[b]
    BY <2>2, <2>3, <2>4
  <2> QED
    BY <2>1, <2>2, <2>5
<1> QED
  BY <1>3, <1>4 DEF Chronological, IsHistory

-----------------------------------------------------------------------------
(* The panel *)

Panels == {"in", "away"}

\* A client that is not in the meeting has nothing on its panel.
Quiet(c) ==
    at[c] \notin Panels =>
        /\ live[c] = <<>> /\ hist[c] = <<>> /\ answer[c] = <<>>
        /\ history[c] = "none" /\ excused[c] = {}

\* Live messages are read in order and none is on its way before one on the panel.
InOrder(c) ==
    /\ Rising(live[c]) /\ Rising(inbox[c])
    /\ \A x \in Elements(live[c]), y \in Elements(inbox[c]) : y # Ended => x < y

\* What came over the socket was said since it is in the room.
Within(c) ==
    /\ \A x \in Elements(live[c]) \cup Elements(inbox[c]) : x # Ended => x \in since[c]..said
    /\ \A x \in Elements(hist[c]) \cup Elements(answer[c]) : x \in 1..said

\* No message said since then is lost.
Kept(c) ==
    at[c] \in Panels =>
        /\ since[c] >= 1
        /\ \A m \in since[c]..said : m \in Elements(live[c]) \cup Elements(inbox[c]) \cup excused[c]

\* No message said before is missing from the history, up to the limit.
Covers(c, h) ==
    \A m \in 1..since[c] - 1 : m \in Elements(h) \/ Len(h) = Limit \/ m \in excused[c]
Read(c) ==
    /\ history[c] = "served" => Covers(c, answer[c])
    /\ history[c] = "shown" => Covers(c, hist[c])

Panel(c) == Quiet(c) /\ InOrder(c) /\ Within(c) /\ Kept(c) /\ Read(c)
PanelInv == \A c \in Clients : Panel(c)

LEMMA PanelFrame ==
  ASSUME NEW c, Panel(c), said' = said,
         at'[c] = at[c], inbox'[c] = inbox[c], history'[c] = history[c],
         answer'[c] = answer[c], hist'[c] = hist[c], live'[c] = live[c],
         since'[c] = since[c], excused'[c] = excused[c]
  PROVE  Panel(c)'
<1>1. Quiet(c)' /\ InOrder(c)'
  BY DEF Panel, Quiet, InOrder
<1>2. Within(c)' /\ Kept(c)' /\ Read(c)'
  BY DEF Panel, Within, Kept, Read, Covers
<1> QED
  BY <1>1, <1>2 DEF Panel

LEMMA EmptyPanel ==
  ASSUME NEW c, at'[c] \notin Panels, inbox'[c] = <<>>, live'[c] = <<>>, hist'[c] = <<>>,
         answer'[c] = <<>>, history'[c] = "none", excused'[c] = {}
  PROVE  Panel(c)'
<1>1. Elements(<<>>) = {} /\ Rising(<<>>)
  BY DEF Elements, Rising
<1>2. Quiet(c)' /\ InOrder(c)'
  BY <1>1 DEF Quiet, InOrder
<1>3. Within(c)' /\ Kept(c)' /\ Read(c)'
  BY <1>1 DEF Within, Kept, Read
<1> QED
  BY <1>2, <1>3 DEF Panel

LEMMA PanelTypes ==
  ASSUME TypeOK, NEW c \in Clients
  PROVE  /\ inbox[c] \in Seq(Int) /\ live[c] \in Seq(Int)
         /\ said \in Nat /\ since[c] \in Nat /\ since[c] <= said + 1
         /\ \A x \in Elements(inbox[c]) : x \in Msgs \cup {Ended} /\ x \in Int
         /\ \A x \in Elements(live[c]) : x \in Msgs /\ x # Ended
<1>1. /\ inbox \in [Clients -> Seq(Msgs \cup {Ended})] /\ live \in [Clients -> Seq(Msgs)]
      /\ since \in [Clients -> 0..said + 1] /\ said \in 0..NumMsgs
      /\ Msgs \cup {Ended} \subseteq Int /\ Msgs \subseteq Int /\ Ended \notin Msgs
  BY BoundsAssumption DEF TypeOK, Msgs, Ended
<1>2. inbox[c] \in Seq(Msgs \cup {Ended}) /\ live[c] \in Seq(Msgs)
  BY <1>1
<1>3. \A x \in Elements(inbox[c]) : x \in Msgs \cup {Ended}
  BY <1>2, ElementOfSeq, LenProperties DEF Elements
<1>4. \A x \in Elements(live[c]) : x \in Msgs
  BY <1>2, ElementOfSeq, LenProperties DEF Elements
<1>5. inbox[c] \in Seq(Int)
  BY <1>1, <1>2, <1>3, ElementOfSeq
<1>6. live[c] \in Seq(Int)
  BY <1>1, <1>2, ElementOfSeq
<1> QED
  BY <1>1, <1>3, <1>4, <1>5, <1>6, BoundsAssumption

\* The announcement of the end joins the queue of a socket.
LEMMA PanelRelayEnd ==
  ASSUME TypeOK, NEW c \in Clients, Panel(c), RelayEnd
  PROVE  Panel(c)'
<1>1. /\ at' = at /\ history' = history /\ answer' = answer /\ hist' = hist /\ live' = live
      /\ since' = since /\ excused' = excused /\ said' = said
  BY DEF RelayEnd
<1>2. CASE at[c] # "in"
  <2>1. inbox'[c] = inbox[c]
    BY <1>2 DEF RelayEnd, Relay
  <2> QED
    BY <1>1, <2>1, PanelFrame
<1>3. CASE at[c] = "in"
  <2>1. inbox'[c] = Append(inbox[c], Ended) /\ Ended \in Int
    BY <1>3 DEF RelayEnd, Relay, Ended
  <2>2. Elements(inbox'[c]) = Elements(inbox[c]) \cup {Ended}
    BY <2>1, PanelTypes, ElementsAppend
  <2>3. Rising(inbox'[c])
    BY <2>1, PanelTypes, RisingAppend DEF Panel, InOrder
  <2>4. Quiet(c)' /\ InOrder(c)'
    BY <1>1, <2>2, <2>3 DEF Panel, Quiet, InOrder
  <2>5. Within(c)' /\ Kept(c)' /\ Read(c)'
    BY <1>1, <2>2 DEF Panel, Within, Kept, Read, Covers
  <2> QED
    BY <2>4, <2>5 DEF Panel
<1> QED
  BY <1>2, <1>3

\* A message that is said joins it, or is missed by a socket that is away.
LEMMA PanelSay ==
  ASSUME TypeOK, NEW c \in Clients, Panel(c), NEW d \in Clients, Say(d)
  PROVE  Panel(c)'
<1>1. /\ at' = at /\ history' = history /\ answer' = answer /\ hist' = hist /\ live' = live
      /\ since' = since /\ said' = said + 1 /\ said + 1 \in Int
      /\ inbox'[c] = IF at[c] = "in" THEN Append(inbox[c], said + 1) ELSE inbox[c]
      /\ excused'[c] = IF at[c] = "away" THEN excused[c] \cup {said + 1} ELSE excused[c]
  BY PanelTypes DEF Say, Relay
<1>2. \A x \in Elements(live[c]) \cup Elements(inbox[c]) : x # Ended => x < said + 1
  BY PanelTypes DEF Panel, Within
<1>3. \A x \in Elements(hist[c]) \cup Elements(answer[c]) : x \in 1..said + 1
  BY PanelTypes DEF Panel, Within
<1>4. Read(c)'
  BY <1>1 DEF Panel, Read, Covers
<1>5. CASE at[c] = "in"
  <2>1. inbox'[c] = Append(inbox[c], said + 1) /\ excused'[c] = excused[c]
    BY <1>1, <1>5
  <2>2. Elements(inbox'[c]) = Elements(inbox[c]) \cup {said + 1}
    BY <1>1, <2>1, PanelTypes, ElementsAppend
  <2>3. Rising(inbox'[c])
    BY <1>1, <1>2, <2>1, PanelTypes, RisingAppend DEF Panel, InOrder
  <2>7. Quiet(c)'
    BY <1>1, <1>5, <2>1 DEF Panel, Quiet, Panels
  <2>4. InOrder(c)'
    <3>1. Rising(live'[c])
      BY <1>1 DEF Panel, InOrder
    <3>2. \A x \in Elements(live'[c]), y \in Elements(inbox'[c]) : y # Ended => x < y
      BY <1>1, <1>2, <2>2, PanelTypes DEF Panel, InOrder
    <3> QED
      BY <2>3, <3>1, <3>2 DEF InOrder
  <2>5. Within(c)'
    BY <1>1, <1>3, <2>2, PanelTypes DEF Panel, Within
  <2>6. Kept(c)'
    BY <1>1, <2>1, <2>2, PanelTypes DEF Panel, Kept
  <2> QED
    BY <1>4, <2>4, <2>5, <2>6, <2>7 DEF Panel
<1>6. CASE at[c] # "in"
  <2>1. inbox'[c] = inbox[c] /\ at[c] = "away" => excused'[c] = excused[c] \cup {said + 1}
    BY <1>1, <1>6
  <2>2. InOrder(c)'
    BY <1>1, <1>6 DEF Panel, InOrder
  <2>3. Quiet(c)'
    BY <1>1, <1>6 DEF Panel, Quiet, Panels
  <2>4. Within(c)'
    BY <1>1, <1>3, <1>6, PanelTypes DEF Panel, Within
  <2>5. Kept(c)'
    BY <1>1, <1>6, PanelTypes DEF Panel, Kept, Panels
  <2> QED
    BY <1>4, <2>2, <2>3, <2>4, <2>5 DEF Panel
<1> QED
  BY <1>5, <1>6

\* A message that is heard moves from the end of one to the front of the other.
LEMMA PanelHear ==
  ASSUME TypeOK, NEW c \in Clients, Panel(c), Hear(c), Head(inbox[c]) # Ended
  PROVE  Panel(c)'
<1> DEFINE x == Head(inbox[c])
<1>1. /\ inbox[c] # <<>> /\ inbox'[c] = Tail(inbox[c]) /\ live'[c] = Append(live[c], x)
      /\ UNCHANGED <<at, history, answer, hist, since, excused, said>>
  BY DEF Hear, TypeOK
<1>2. /\ Elements(inbox[c]) = {x} \cup Elements(inbox'[c])
      /\ Rising(inbox'[c]) /\ \A y \in Elements(inbox'[c]) : y # Ended => x < y
  BY <1>1, PanelTypes, ElementsTail, RisingTail DEF Panel, InOrder
<1> HIDE DEF x
<1>3. x # Ended /\ x \in Int
  BY <1>2, PanelTypes DEF x
<1>4. Elements(live'[c]) = Elements(live[c]) \cup {x}
  <2>1. live[c] \in Seq(Int)
    BY PanelTypes
  <2>2. Elements(Append(live[c], x)) = Elements(live[c]) \cup {x}
    BY <1>3, <2>1, ElementsAppend
  <2> QED
    BY <1>1, <2>2
<1>5. Rising(live'[c])
  BY <1>1, <1>2, <1>3, PanelTypes, RisingAppend DEF Panel, InOrder
<1>6. InOrder(c)'
  BY <1>1, <1>2, <1>4, <1>5 DEF Panel, InOrder
<1>7. Quiet(c)'
  <2>1. at[c] = "in"
    BY <1>1 DEF TypeOK
  <2> QED
    BY <1>1, <2>1 DEF Quiet, Panels
<1>8. Within(c)'
  BY <1>1, <1>2, <1>4 DEF Panel, Within
<1>9. Kept(c)' /\ Read(c)'
  BY <1>1, <1>2, <1>4 DEF Panel, Kept, Read, Covers
<1> QED
  BY <1>6, <1>7, <1>8, <1>9 DEF Panel

\* The history is read: what is stored by then, or it excuses.
LEMMA PanelServe ==
  ASSUME TypeOK, StampInv, NEW c \in Clients, Panel(c), ServeHistory(c)
  PROVE  Panel(c)'
<1>1. PICK h \in Histories : IsHistory(h) /\ answer' = [answer EXCEPT ![c] = h]
  BY DEF ServeHistory
<1>2. /\ at[c] \in Panels /\ history'[c] = "served" /\ answer'[c] = h
      /\ excused'[c] = excused[c] \cup {m \in 1..since[c] - 1 : m \notin stored}
      /\ UNCHANGED <<at, inbox, hist, live, since, said>>
  BY <1>1 DEF ServeHistory, TypeOK, Panels
<1>3. /\ Elements(h) \subseteq stored
      /\ \A m \in stored : m \in Elements(h) \/ Len(h) = Limit
  BY <1>1, HistoryOrdered
<1>4. \A m \in stored : m \in 1..said
  BY BoundsAssumption DEF TypeOK, StampInv, Msgs
<1>5. Quiet(c)' /\ InOrder(c)'
  BY <1>2, <1>3 DEF Panel, Quiet, InOrder
<1>6. Within(c)'
  BY <1>2, <1>3, <1>4 DEF Panel, Within
<1>7. Kept(c)'
  BY <1>2 DEF Panel, Kept
<1>8. Read(c)'
  BY <1>2, <1>3 DEF Read, Covers
<1> QED
  BY <1>5, <1>6, <1>7, <1>8 DEF Panel

LEMMA PanelHearHistory ==
  ASSUME TypeOK, NEW c \in Clients, Panel(c), HearHistory(c)
  PROVE  Panel(c)'
<1>1. /\ history[c] = "served" /\ history'[c] = "shown"
      /\ hist'[c] = answer[c] /\ answer'[c] = <<>>
      /\ UNCHANGED <<at, inbox, live, since, excused, said>>
  BY DEF HearHistory, TypeOK
<1>2. Elements(<<>>) = {} /\ Rising(<<>>)
  BY DEF Elements, Rising
<1>3. Quiet(c)' /\ InOrder(c)'
  BY <1>1, <1>2 DEF Panel, Quiet, InOrder
<1>4. Within(c)' /\ Kept(c)' /\ Read(c)'
  BY <1>1, <1>2 DEF Panel, Within, Kept, Read, Covers
<1> QED
  BY <1>3, <1>4 DEF Panel

\* A connection that breaks takes what is on its way.
LEMMA PanelDrop ==
  ASSUME TypeOK, NEW c \in Clients, Panel(c), Drop(c)
  PROVE  Panel(c)'
<1>1. /\ at'[c] = "away" /\ inbox'[c] = <<>>
      /\ excused'[c] = excused[c] \cup (Elements(inbox[c]) \cap Msgs)
      /\ UNCHANGED <<history, answer, hist, live, since, said>>
      /\ at[c] \in Panels /\ at'[c] \in Panels
  BY DEF Drop, TypeOK, Panels
<1>2. Elements(<<>>) = {} /\ Rising(<<>>)
  BY DEF Elements, Rising
<1>3. Quiet(c)' /\ InOrder(c)'
  BY <1>1, <1>2 DEF Panel, Quiet, InOrder
<1>4. Within(c)' /\ Read(c)'
  BY <1>1, <1>2 DEF Panel, Within, Read, Covers
<1>5. Kept(c)'
  <2>1. since[c] >= 1 /\ \A m \in since[c]..said : m \in Msgs
    BY <1>1, PanelTypes, BoundsAssumption DEF TypeOK, Msgs, Panel, Kept
  <2>2. \A m \in since[c]..said : m \in Elements(live[c]) \cup excused'[c]
    BY <1>1, <2>1 DEF Panel, Kept
  <2>3. since'[c] >= 1 /\ since'[c]..said' = since[c]..said /\ live'[c] = live[c]
    BY <1>1, <2>1
  <2> QED
    BY <2>2, <2>3 DEF Kept
<1> QED
  BY <1>3, <1>4, <1>5 DEF Panel

LEMMA PanelEnter ==
  ASSUME TypeOK, NEW c \in Clients, Panel(c), Enter(c)
  PROVE  Panel(c)'
<1>1. /\ at[c] \in {"admitted", "away"} /\ at'[c] = "in"
      /\ UNCHANGED <<inbox, history, answer, hist, live, excused, said>>
  BY DEF Enter, TypeOK
<1>2. CASE at[c] = "away"
  <2>1. since'[c] = since[c] /\ at[c] \in Panels
    BY <1>2 DEF Enter, TypeOK, Panels
  <2>2. Quiet(c)' /\ InOrder(c)'
    BY <1>1 DEF Panel, Quiet, InOrder, Panels
  <2>3. Within(c)' /\ Kept(c)' /\ Read(c)'
    BY <1>1, <2>1 DEF Panel, Within, Kept, Read, Covers
  <2> QED
    BY <2>2, <2>3 DEF Panel
<1>3. CASE at[c] = "admitted"
  <2>1. since'[c] = said + 1 /\ at[c] \notin Panels /\ inbox[c] = <<>> /\ said \in Nat
    BY <1>3, PanelTypes DEF Enter, TypeOK, Panels
  <2>2. /\ live[c] = <<>> /\ hist[c] = <<>> /\ answer[c] = <<>> /\ history[c] = "none"
        /\ Elements(<<>>) = {}
    BY <2>1 DEF Panel, Quiet, Elements
  <2>3. Quiet(c)' /\ InOrder(c)'
    BY <1>1 DEF Panel, Quiet, InOrder, Panels
  <2>4. Within(c)' /\ Read(c)'
    BY <1>1, <2>1, <2>2 DEF Within, Read
  <2>5. Kept(c)'
    BY <1>1, <2>1 DEF Kept
  <2> QED
    BY <2>3, <2>4, <2>5 DEF Panel
<1> QED
  BY <1>1, <1>2, <1>3

LEMMA PanelGone ==
  ASSUME TypeOK, NEW c \in Clients, Gone(c)
  PROVE  Panel(c)'
<1>1. /\ at'[c] \notin Panels /\ inbox'[c] = <<>> /\ live'[c] = <<>> /\ hist'[c] = <<>>
      /\ answer'[c] = <<>> /\ history'[c] = "none" /\ excused'[c] = {}
  BY DEF Gone, TypeOK, Panels
<1> QED
  BY <1>1, EmptyPanel

LEMMA PanelNext == TypeOK /\ StampInv /\ PanelInv /\ [Next]_vars => PanelInv'
<1> SUFFICES ASSUME TypeOK, StampInv, PanelInv, [Next]_vars, NEW c \in Clients PROVE Panel(c)'
  BY DEF PanelInv
<1>p. Panel(c)
  BY DEF PanelInv
<1> DEFINE Same(d) == /\ at'[d] = at[d] /\ inbox'[d] = inbox[d] /\ history'[d] = history[d]
                      /\ answer'[d] = answer[d] /\ hist'[d] = hist[d] /\ live'[d] = live[d]
                      /\ since'[d] = since[d] /\ excused'[d] = excused[d] /\ said' = said
<1>s. Same(c) => Panel(c)'
  BY <1>p, PanelFrame
<1>g. ASSUME NEW d \in Clients, Gone(d), said' = said PROVE Panel(c)'
  <2>1. d # c => Same(c)
    BY <1>g DEF Gone, TypeOK
  <2> QED
    BY <1>g, <1>s, <2>1, PanelGone
<1>1. ASSUME NEW d \in Clients, CheckRoom(d) PROVE Panel(c)'
  <2>1. d # c => Same(c)
    BY <1>1 DEF CheckRoom, TypeOK
  <2>2. ASSUME d = c PROVE Panel(c)'
    <3>1. /\ at[c] \notin Panels /\ at'[c] \notin Panels /\ at[c] # "in"
          /\ UNCHANGED <<inbox, history, answer, hist, live, excused>>
      BY <1>1, <2>2 DEF CheckRoom, TypeOK, Panels
    <3>2. /\ inbox[c] = <<>> /\ live[c] = <<>> /\ hist[c] = <<>>
          /\ answer[c] = <<>> /\ history[c] = "none" /\ excused[c] = {}
      BY <1>p, <3>1 DEF TypeOK, Panel, Quiet
    <3> QED
      BY <3>1, <3>2, EmptyPanel
  <2> QED
    BY <1>s, <2>1, <2>2
<1>2. ASSUME NEW d \in Clients, AddParticipant(d) PROVE Panel(c)'
  <2>1. d # c => Same(c)
    BY <1>2 DEF AddParticipant, TypeOK
  <2>2. ASSUME d = c PROVE Panel(c)'
    <3>1. /\ at[c] \notin Panels /\ at'[c] \notin Panels /\ at[c] # "in"
          /\ UNCHANGED <<inbox, history, answer, hist, live, excused>>
      BY <1>2, <2>2 DEF AddParticipant, TypeOK, Panels
    <3>2. /\ inbox[c] = <<>> /\ live[c] = <<>> /\ hist[c] = <<>>
          /\ answer[c] = <<>> /\ history[c] = "none" /\ excused[c] = {}
      BY <1>p, <3>1 DEF TypeOK, Panel, Quiet
    <3> QED
      BY <3>1, <3>2, EmptyPanel
  <2> QED
    BY <1>s, <2>1, <2>2
<1>3. ASSUME NEW d \in Clients, Enter(d) PROVE Panel(c)'
  <2>1. d # c => Same(c)
    BY <1>3 DEF Enter, TypeOK
  <2> QED
    BY <1>3, <1>p, <1>s, <2>1, PanelEnter
<1>4. ASSUME NEW d \in Clients, Leave(d) PROVE Panel(c)'
  BY <1>4, <1>g DEF Leave
<1>5. ASSUME NEW d \in Clients, Drop(d) PROVE Panel(c)'
  <2>1. d # c => Same(c)
    BY <1>5 DEF Drop, TypeOK
  <2> QED
    BY <1>5, <1>p, <1>s, <2>1, PanelDrop
<1>6. ASSUME NEW d \in Clients, Say(d) PROVE Panel(c)'
  BY <1>6, <1>p, PanelSay
<1>7. ASSUME NEW d \in Clients, Hear(d) PROVE Panel(c)'
  <2>1. CASE Head(inbox[d]) = Ended
    BY <1>7, <1>g, <2>1 DEF Hear
  <2>2. CASE Head(inbox[d]) # Ended
    <3>1. d # c => Same(c)
      BY <1>7, <2>2 DEF Hear, TypeOK
    <3> QED
      BY <1>7, <1>p, <1>s, <2>2, <3>1, PanelHear
  <2> QED
    BY <2>1, <2>2
<1>8. ASSUME NEW d \in Clients, ServeHistory(d) PROVE Panel(c)'
  <2>1. d # c => Same(c)
    BY <1>8 DEF ServeHistory, TypeOK
  <2> QED
    BY <1>8, <1>p, <1>s, <2>1, PanelServe
<1>9. ASSUME NEW d \in Clients, HearHistory(d) PROVE Panel(c)'
  <2>1. d # c => Same(c)
    BY <1>9 DEF HearHistory, TypeOK
  <2> QED
    BY <1>9, <1>p, <1>s, <2>1, PanelHearHistory
<1>10. CASE EndRoom \/ PublishEnd \/ PublishEndFails \/ LoseEnd \/ ChatArrives \/ LoseChat
  BY <1>10, <1>s DEF EndRoom, PublishEnd, PublishEndFails, LoseEnd, ChatArrives, LoseChat
<1>11. CASE RelayEnd
  BY <1>11, <1>p, PanelRelayEnd
<1>12. ASSUME NEW m \in Msgs, Persist(m) PROVE Panel(c)'
  BY <1>12, <1>s DEF Persist
<1>13. CASE UNCHANGED vars
  BY <1>13, <1>s DEF vars
<1> QED
  BY <1>1, <1>2, <1>3, <1>4, <1>5, <1>6, <1>7, <1>8, <1>9, <1>10, <1>11, <1>12, <1>13 DEF Next

LEMMA PanelInit == Init => StampInv /\ PanelInv
<1> SUFFICES ASSUME Init PROVE StampInv /\ PanelInv
  OBVIOUS
<1>1. StampInv
  BY DEF Init, StampInv, Rising
<1>2. ASSUME NEW c \in Clients PROVE Panel(c)
  <2>1. /\ at[c] \notin Panels /\ inbox[c] = <<>> /\ live[c] = <<>> /\ hist[c] = <<>>
        /\ answer[c] = <<>> /\ history[c] = "none" /\ excused[c] = {}
    BY DEF Init, Panels
  <2>2. Elements(<<>>) = {} /\ Rising(<<>>)
    BY DEF Elements, Rising
  <2>3. Quiet(c) /\ InOrder(c)
    BY <2>1, <2>2 DEF Quiet, InOrder
  <2>4. Within(c) /\ Kept(c) /\ Read(c)
    BY <2>1, <2>2 DEF Within, Kept, Read
  <2> QED
    BY <2>3, <2>4 DEF Panel
<1> QED
  BY <1>1, <1>2 DEF PanelInv

LEMMA PanelsHold == Spec => [](TypeOK /\ StampInv /\ PanelInv)
<1>1. TypeOK /\ StampInv /\ PanelInv /\ [Next]_vars => (TypeOK /\ StampInv /\ PanelInv)'
  BY TypeNext, StampNext, PanelNext
<1> QED
  BY <1>1, TypeInit, PanelInit, PTL DEF Spec

-----------------------------------------------------------------------------
(* The order of a history *)

\* A history is in the order of the messages, and what it holds has its stamp.
Dated(c) ==
    /\ Chronological(hist[c]) /\ Chronological(answer[c])
    /\ \A x \in Elements(hist[c]) \cup Elements(answer[c]) : x \in Msgs /\ stamp[x] # 0
DatedInv == \A c \in Clients : Dated(c)

LEMMA EmptyIsChronological == Elements(<<>>) = {} /\ Chronological(<<>>) /\ Chronological(<<>>)'
  BY DEF Elements, Chronological

\* The order of dated messages stays while no stamp is given twice.
LEMMA ChronologicalStays ==
  ASSUME NEW s, Chronological(s), \A x \in Elements(s) : x \in Msgs /\ stamp[x] # 0,
         \A m \in Msgs : stamp[m] # 0 => stamp'[m] = stamp[m]
  PROVE  \A i, j \in DOMAIN s : i < j => s[i] # s[j] /\ (s[i] < s[j] \/ stamp'[s[i]] = stamp'[s[j]])
<1>1. \A i \in DOMAIN s : s[i] \in Elements(s)
  BY DEF Elements
<1>2. \A i \in DOMAIN s : stamp'[s[i]] = stamp[s[i]]
  BY <1>1
<1> QED
  BY <1>2 DEF Chronological

LEMMA DatedNext == TypeOK /\ StampInv /\ DatedInv /\ [Next]_vars => DatedInv'
<1> SUFFICES ASSUME TypeOK, StampInv, DatedInv, [Next]_vars, NEW c \in Clients PROVE Dated(c)'
  BY DEF DatedInv
<1>d. Dated(c)
  BY DEF DatedInv
<1>f. ASSUME stamp' = stamp, hist'[c] \in {hist[c], answer[c], <<>>},
             answer'[c] \in {answer[c], <<>>}
      PROVE  Dated(c)'
  <2>1. Chronological(hist[c])' /\ Chronological(answer[c])'
    BY <1>d, <1>f, EmptyIsChronological DEF Dated, Chronological
  <2>2. \A x \in Elements(hist'[c]) \cup Elements(answer'[c]) : x \in Msgs /\ stamp'[x] # 0
    BY <1>d, <1>f, EmptyIsChronological DEF Dated
  <2> QED
    BY <2>1, <2>2 DEF Dated
<1>g. ASSUME NEW d \in Clients, Gone(d), stamp' = stamp PROVE Dated(c)'
  <2>1. hist'[c] \in {hist[c], <<>>} /\ answer'[c] \in {answer[c], <<>>}
    BY <1>g DEF Gone, TypeOK
  <2> QED
    BY <1>f, <1>g, <2>1
<1>1. CASE UNCHANGED <<stamp, hist, answer>>
  BY <1>1, <1>f
<1>2. ASSUME NEW d \in Clients, Leave(d) PROVE Dated(c)'
  BY <1>2, <1>g DEF Leave
<1>3. ASSUME NEW d \in Clients, Hear(d) PROVE Dated(c)'
  <2>1. CASE Head(inbox[d]) = Ended
    BY <1>3, <1>g, <2>1 DEF Hear
  <2>2. CASE Head(inbox[d]) # Ended
    BY <1>3, <1>1, <2>2 DEF Hear
  <2> QED
    BY <2>1, <2>2
<1>4. ASSUME NEW d \in Clients, ServeHistory(d) PROVE Dated(c)'
  <2>1. PICK h \in Histories : IsHistory(h) /\ answer' = [answer EXCEPT ![d] = h]
    BY <1>4 DEF ServeHistory
  <2>2. stamp' = stamp /\ hist' = hist
    BY <1>4 DEF ServeHistory
  <2>3. CASE d # c
    <3>1. answer'[c] = answer[c]
      BY <2>1, <2>3 DEF TypeOK
    <3> QED
      BY <1>f, <2>2, <3>1
  <2>4. CASE d = c
    <3>1. answer'[c] = h
      BY <2>1, <2>4 DEF TypeOK
    <3>2. Chronological(h) /\ Elements(h) \subseteq stored
      BY <2>1, HistoryOrdered
    <3>3. \A x \in stored : x \in Msgs /\ stamp[x] # 0
      BY DEF TypeOK
    <3>4. Chronological(hist[c])' /\ Chronological(answer[c])'
      BY <1>d, <2>2, <3>1, <3>2 DEF Dated, Chronological
    <3>5. \A x \in Elements(hist'[c]) \cup Elements(answer'[c]) : x \in Msgs /\ stamp'[x] # 0
      BY <1>d, <2>2, <3>1, <3>2, <3>3 DEF Dated
    <3> QED
      BY <3>4, <3>5 DEF Dated
  <2> QED
    BY <2>3, <2>4
<1>5. ASSUME NEW d \in Clients, HearHistory(d) PROVE Dated(c)'
  <2>1. stamp' = stamp /\ hist'[c] \in {hist[c], answer[c]} /\ answer'[c] \in {answer[c], <<>>}
    BY <1>5 DEF HearHistory, TypeOK
  <2> QED
    BY <1>f, <2>1
<1>6. CASE ChatArrives
  <2> DEFINE x == Head(chatBus)
  <2>1. /\ chatBus # <<>> /\ stamp' = [stamp EXCEPT ![x] = clock'] /\ UNCHANGED <<hist, answer>>
    BY <1>6 DEF ChatArrives, DateNow
  <2>2. chatBus \in Seq(1..said) /\ said \in Nat /\ stamp \in [Msgs -> 0..clock]
        /\ Msgs \subseteq Int
    BY BoundsAssumption DEF TypeOK, Msgs
  <2>3. x \in Elements(chatBus)
    BY <2>1, <2>2, ElementsTail
  <2>4. \A m \in Msgs : stamp[m] # 0 => m # x
    BY <2>2, <2>3 DEF StampInv
  <2> HIDE DEF x
  <2>5. \A m \in Msgs : stamp[m] # 0 => stamp'[m] = stamp[m]
    BY <2>1, <2>2, <2>4
  <2>6. Chronological(hist[c])'
    <3>1. Chronological(hist[c]) /\ \A y \in Elements(hist[c]) : y \in Msgs /\ stamp[y] # 0
      BY <1>d DEF Dated
    <3>2. hist'[c] = hist[c]
      BY <2>1
    <3> QED
      BY <2>5, <3>1, <3>2, ChronologicalStays DEF Chronological
  <2>7. Chronological(answer[c])'
    <3>1. Chronological(answer[c]) /\ \A y \in Elements(answer[c]) : y \in Msgs /\ stamp[y] # 0
      BY <1>d DEF Dated
    <3>2. answer'[c] = answer[c]
      BY <2>1
    <3> QED
      BY <2>5, <3>1, <3>2, ChronologicalStays DEF Chronological
  <2>8. \A y \in Elements(hist'[c]) \cup Elements(answer'[c]) : y \in Msgs /\ stamp'[y] # 0
    BY <1>d, <2>1, <2>5 DEF Dated
  <2> QED
    BY <2>6, <2>7, <2>8 DEF Dated
<1>7. Next => \/ UNCHANGED <<stamp, hist, answer>>
              \/ \E d \in Clients : Leave(d) \/ Hear(d) \/ ServeHistory(d) \/ HearHistory(d)
              \/ ChatArrives
  BY DEF Next, CheckRoom, AddParticipant, Enter, Drop, Say, EndRoom, PublishEnd, PublishEndFails,
     RelayEnd, LoseEnd, LoseChat, Persist
<1> QED
  BY <1>1, <1>2, <1>3, <1>4, <1>5, <1>6, <1>7 DEF vars

LEMMA DatedHolds == Spec => []DatedInv
<1>1. Init => DatedInv
  BY EmptyIsChronological DEF Init, DatedInv, Dated
<1>2. TypeOK /\ StampInv /\ DatedInv /\ [Next]_vars => DatedInv'
  BY DatedNext
<1> QED
  BY <1>1, <1>2, PanelsHold, PTL DEF Spec

-----------------------------------------------------------------------------
(* What a client reads *)

\* History and live messages together have everything a client could have, for
\* any number of clients and messages, any limit and any loss.
THEOREM PanelIsCompleteAlways == Spec => []PanelIsComplete
<1>1. TypeOK /\ PanelInv => PanelIsComplete
  <2> SUFFICES ASSUME TypeOK, PanelInv, NEW c \in Clients, at[c] = "in", history[c] = "shown",
                      NEW m \in 1..said
               PROVE  \/ m \in Elements(live[c]) \cup Elements(inbox[c])
                      \/ m < since[c] /\ m \in Elements(hist[c])
                      \/ m < since[c] /\ Len(hist[c]) = Limit
                      \/ m \in excused[c]
    BY DEF PanelIsComplete
  <2>1. said \in Nat /\ since[c] \in Nat
    BY PanelTypes
  <2>2. Kept(c) /\ Covers(c, hist[c]) /\ at[c] \in Panels
    BY DEF PanelInv, Panel, Read, Panels
  <2>3. CASE m < since[c]
    BY <2>1, <2>2, <2>3 DEF Covers
  <2>4. CASE m >= since[c]
    BY <2>1, <2>2, <2>4 DEF Kept
  <2> QED
    BY <2>1, <2>3, <2>4
<1> QED
  BY <1>1, PanelsHold, PTL

\* Everybody reads the messages in the order in which they were said, but for those
\* of a history that were made in one millisecond, for any number of clients and
\* messages and any loss.
THEOREM PanelInOrderAlways == Spec => []PanelInOrder
<1>1. TypeOK /\ PanelInv /\ DatedInv => PanelInOrder
  <2> SUFFICES ASSUME TypeOK, PanelInv, DatedInv, NEW c \in Clients, at[c] \in {"in", "away"}
               PROVE  /\ Chronological(hist[c]) /\ Ascending(live[c])
                      /\ \A m \in Elements(hist[c]) \ Elements(live[c]), n \in Elements(live[c]) :
                            m < n \/ m \in Elements(inbox[c]) \/ m \in excused[c]
    BY DEF PanelInOrder
  <2>1. /\ said \in Nat /\ since[c] \in Nat
        /\ \A x \in Elements(live[c]) : x # Ended
    BY PanelTypes
  <2>2. InOrder(c) /\ Within(c) /\ Kept(c) /\ at[c] \in Panels
    BY DEF PanelInv, Panel, Panels
  <2>3. Ascending(live[c])
    BY <2>1, <2>2 DEF InOrder, Rising, Ascending, Elements
  <2>4. \A x \in Elements(hist[c]) : x \in 1..said /\ x # Ended
    BY <2>2 DEF Within, Ended
  <2>5. Chronological(hist[c])
    BY DEF DatedInv, Dated
  <2>6. ASSUME NEW m \in Elements(hist[c]) \ Elements(live[c]), NEW n \in Elements(live[c]),
               m \notin Elements(inbox[c]), m \notin excused[c]
        PROVE  m < n
    <3>1. m \in 1..said /\ n \in since[c]..said
      BY <2>1, <2>2, <2>4 DEF Within
    <3>2. m < since[c]
      BY <2>1, <2>2, <2>6, <3>1 DEF Kept
    <3> QED
      BY <2>1, <3>1, <3>2
  <2> QED
    BY <2>3, <2>5, <2>6
<1> QED
  BY <1>1, PanelsHold, DatedHolds, PTL
=============================================================================
