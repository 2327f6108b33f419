--------------------------- MODULE ClientCall_proofs ---------------------------
(***************************************************************************)
(* Safety of ClientCall for any peers and producers, and any number of lost  *)
(* connections and of faults.  Inv is the inductive invariant; each part of  *)
(* it is stated with the reason why it holds, and its proof has one step per *)
(* action.                                                                   *)
(***************************************************************************)
EXTENDS ClientCall, SequenceTheorems, TLAPS

USE DEF store, own, server, others, rest, vars

-----------------------------------------------------------------------------
(* The inductive invariant *)

Early == {"none", "rest", "answered", "connect"}
Entering == {"enter", "turn", "init"}
Preparing == Entering \cup {"produce", "list", "consume"}

\* The request join-room of t is on its way.
EnterSent(t) == At(t, "enter") /\ thread[t].net = "sent"

\* The connection: what is not connected has nothing in the inbox and no place in
\* the room, and there are no more clients than connections.
ConnInv ==
    /\ inbox \in Seq(Messages)
    /\ conn # "up" => inbox = <<>> /\ ~inRoom
    /\ ~inRoom => ~wired /\ mine = 0
    /\ gen <= drops + 1 /\ (conn = "down" => gen <= drops)
    /\ \A t \in Threads : thread[t].net \in {"sent", "answered"} => conn = "up" \/ At(t, "rest")
    /\ \A k \in tasks : k.net \in {"sent", "answered"} => conn = "up"

\* The threads: before join() enters nothing exists, so that rejoin() starts after
\* it; once left the connection is closed, or the page is gone.
ThreadInv ==
    /\ thread["join"].pc \in Early =>
          /\ conn = "off" /\ At("rejoin", "none")
          /\ tasks = {} /\ remote = {} /\ tiles = {} /\ consuming = {} /\ ~open
    /\ thread["rejoin"].pc \in {"none"} \cup Preparing \cup {"drain"}
    /\ phase = "joined" => At("join", "done")
    /\ left /\ page =>
          conn = "off" /\ ~bound /\ thread["join"].pc \notin {"none", "rest", "answered"}
    /\ \A t \in Threads : /\ thread[t].pc \in {"enter", "produce"} => thread[t].net # "buffered"
                          /\ thread[t].pc \in Idle => thread[t].net = "none"

\* The inbox: an answer to a thread meets the await it is for, and no other is on
\* the way; an answer to a task was given by the SFU of this connection.
MsgInv ==
    \A i \in 1..Len(inbox) : LET m == inbox[i] IN
      /\ m.k = "thread" => /\ thread[m.t].net = "answered"
                           /\ thread[m.t].pc \in {"init", "produce", "list"}
                           /\ \A j \in 1..Len(inbox) :
                                 inbox[j].k = "thread" /\ inbox[j].t = m.t => i = j
      /\ m.k = "task" => m.t.net = "answered" /\ m.t.st # "opening" /\ (m.ok => inRoom)

\* t may produce: its transports exist, and produce is sent or will be.  The pair of
\* transports is made once per connection, so one thread at most may, and once.
Claims(t) ==
    \/ At(t, "produce") /\ thread[t].net = "sent"
    \/ /\ At(t, "init")
       /\ \E i \in 1..Len(inbox) : inbox[i].k = "thread" /\ inbox[i].t = t /\ inbox[i].ok
ClaimInv ==
    /\ mine <= 1
    /\ mine = 1 => wired /\ \A t \in Threads : ~Claims(t)
    /\ \A t \in Threads : Claims(t) => wired
    /\ Claims("join") => ~Claims("rejoin")

\* A connection begins without anything of an earlier one.
EnterInv ==
    /\ \A t \in Threads : EnterSent(t) =>
          /\ ~inRoom /\ ~open /\ tiles = {} /\ remote = {}
          /\ \A k \in tasks : k.g # gen
          /\ \A i \in 1..Len(inbox) : inbox[i].k = "task" => inbox[i].t.g # gen
    /\ EnterSent("join") => ~EnterSent("rejoin")

\* The store and the map agree, until the page has reset the store.
TileInv == tiles \subseteq remote /\ (conn # "off" => remote \subseteq tiles)

\* A producer that is being handled is shown, or has a task of this client; in the
\* room no such task waits for an answer that is lost.
TaskInv ==
    /\ \A k \in tasks : k.g <= gen /\ (k.st = "opening" => k.net = "none")
    /\ \A p \in consuming : p \in remote \/ \E k \in tasks : k.p = p /\ k.g = gen
    /\ inRoom => \A k \in tasks : k.g = gen => open /\ k.net \notin {"lost", "buffered"}
    /\ inRoom /\ open => wired

\* In the room the media is ready, or a thread is on its way to make it so.
ReadyInv ==
    /\ mediaReady => pending = {}
    /\ inRoom => \/ open \/ excused = Producers
                 \/ \E t \in Threads : thread[t].pc \in Entering
    /\ inRoom => \/ mediaReady \/ excused = Producers
                 \/ \E t \in Threads : thread[t].pc \in Preparing

\* A producer that was heard of is still listed, or its owner gone for good.
Known(p) == p \in listed \/ Owner[p] \notin here
KnownMsg(m) ==
    /\ m.k = "new" => Known(m.p)
    /\ m.k = "closed" => m.p \in stopped
    /\ m.k = "left" => m.q \notin here
    /\ m.k = "thread" => \A p \in m.ps : Known(p)
    /\ m.k = "task" => Known(m.t.p)
    /\ m.k = "task" /\ ~m.ok /\ m.t.g = gen /\ inRoom => m.t.p \in excused \/ m.t.p \notin listed
KnownInv ==
    /\ \A p \in listed : Owner[p] \in here
    /\ \A p \in pending \cup news : Known(p)
    /\ \A k \in tasks : Known(k.p)
    /\ goodbyes \cap here = {}
    /\ \A i \in 1..Len(inbox) : KnownMsg(inbox[i])

\* t has still to list p, or p is in the answer it will hear.
Lists(t, p) ==
    \/ thread[t].pc \in Entering \cup {"produce"}
    \/ /\ At(t, "list")
       /\ \A i \in 1..Len(inbox) :
             inbox[i].k = "thread" /\ inbox[i].t = t /\ inbox[i].ok => p \in inbox[i].ps
\* Every producer of the room is somewhere on its way to the screen.
Covered(p) ==
    \/ p \in tiles \cup news \cup pending
    \/ \E i \in 1..Len(inbox) : inbox[i].k = "new" /\ inbox[i].p = p
    \/ \E k \in tasks : k.p = p /\ k.g = gen
    \/ \E t \in Threads : Lists(t, p)
CoverInv == inRoom => \A p \in listed \ (excused \cup stopped) : Covered(p)

\* The leave of the owner of p is behind the i-th message.
LeftAfter(p, i) ==
    \E j \in 1..Len(inbox) : j > i /\ inbox[j].k = "left" /\ inbox[j].q = Owner[p]
\* A tile, and one that an answer on its way will show, is of somebody who is here,
\* or whose leave is heard afterwards.
GoneOrHere(p, i) == p \in listed \/ Owner[p] \in goodbyes \/ LeftAfter(p, i)
GhostInv ==
    /\ inRoom => \A p \in tiles : GoneOrHere(p, 0)
    /\ \A i \in 1..Len(inbox) : inbox[i].k = "task" /\ inbox[i].ok => GoneOrHere(inbox[i].t.p, i)

Inv ==
    /\ TypeOK /\ ConnInv /\ ThreadInv /\ MsgInv /\ ClaimInv /\ EnterInv /\ TileInv
    /\ TaskInv /\ ReadyInv /\ KnownInv /\ CoverInv /\ GhostInv

-----------------------------------------------------------------------------
(* Messages, the inbox, threads and tasks *)

\* What a message carries.
LEMMA MessageParts ==
  ASSUME NEW m \in Messages
  PROVE  /\ m.k \in {"new", "closed", "left", "joined", "join-error", "room-ended", "thread", "task"}
         /\ m.k \in {"new", "closed"} => m.p \in Producers
         /\ m.k = "left" => m.q \in Peers
         /\ m.k = "thread" => m.t \in Threads /\ m.ok \in BOOLEAN /\ m.ps \subseteq Producers
         /\ m.k = "task" => m.t \in Tasks /\ m.ok \in BOOLEAN
  BY DEF Messages

LEMMA MessageForms ==
  /\ \A p \in Producers : [k |-> "new", p |-> p] \in Messages
  /\ \A p \in Producers : [k |-> "closed", p |-> p] \in Messages
  /\ \A q \in Peers : [k |-> "left", q |-> q] \in Messages
  /\ [k |-> "joined"] \in Messages
  /\ [k |-> "join-error"] \in Messages
  /\ [k |-> "room-ended"] \in Messages
  /\ \A t \in Threads, ok \in BOOLEAN, ps \in SUBSET Producers :
        [k |-> "thread", t |-> t, ok |-> ok, ps |-> ps] \in Messages
  /\ \A t \in Tasks, ok \in BOOLEAN : [k |-> "task", t |-> t, ok |-> ok] \in Messages
  BY DEF Messages

LEMMA TaskParts ==
  ASSUME NEW k \in Tasks
  PROVE  /\ k.p \in Producers /\ k.g \in 1..(MaxDrops + 1) /\ k.by \in Threads \cup {"event"}
         /\ k.st \in {"asked", "opening", "resuming"} /\ k.net \in Nets
  BY DEF Tasks

\* The inbox with a message more, and with one less.
Longer(m) ==
    /\ inbox' \in Seq(Messages)
    /\ Len(inbox') = Len(inbox) + 1
    /\ \A i \in 1..Len(inbox) : inbox'[i] = inbox[i]
    /\ inbox'[Len(inbox) + 1] = m
    /\ \A i \in DOMAIN inbox' : inbox'[i] \in Messages
    /\ \A i \in 1..Len(inbox') : i \in 1..Len(inbox) \/ i = Len(inbox) + 1
Shorter ==
    /\ inbox' \in Seq(Messages)
    /\ Len(inbox) \in Nat \ {0} /\ Len(inbox') = Len(inbox) - 1
    /\ \A i \in 1..Len(inbox') : i + 1 \in 1..Len(inbox) /\ inbox'[i] = inbox[i + 1]
    /\ \A i \in 1..Len(inbox) : i = 1 \/ (i - 1 \in 1..Len(inbox') /\ inbox'[i - 1] = inbox[i])
    /\ \A i \in DOMAIN inbox' : inbox'[i] \in Messages

LEMMA Appended ==
  ASSUME inbox \in Seq(Messages), NEW m \in Messages, inbox' = Append(inbox, m)
  PROVE  Longer(m)
<1>1. /\ inbox' \in Seq(Messages) /\ Len(inbox') = Len(inbox) + 1
      /\ \A i \in 1..Len(inbox) : inbox'[i] = inbox[i]
      /\ inbox'[Len(inbox) + 1] = m
  BY AppendProperties
<1>2. Len(inbox) \in Nat /\ DOMAIN inbox' = 1..Len(inbox')
  BY <1>1, LenProperties
<1> QED
  BY <1>1, <1>2, ElementOfSeq DEF Longer

LEMMA Popped ==
  ASSUME inbox \in Seq(Messages), inbox # <<>>, inbox' = Tail(inbox)
  PROVE  Shorter /\ Head(inbox) = inbox[1] /\ 1 \in 1..Len(inbox) /\ inbox[1] \in Messages
<1>1. Len(inbox) \in Nat \ {0} /\ Head(inbox) = inbox[1]
  BY EmptySeq, HeadTailProperties
<1>2. inbox' \in Seq(Messages) /\ Len(inbox') = Len(inbox) - 1
        /\ \A i \in 1..Len(inbox') : inbox'[i] = inbox[i + 1]
  BY HeadTailProperties
<1>3. \A i \in 1..Len(inbox') : i + 1 \in 1..Len(inbox) /\ inbox'[i] = inbox[i + 1]
  BY <1>1, <1>2
<1>4. \A i \in 1..Len(inbox) : i = 1 \/ (i - 1 \in 1..Len(inbox') /\ inbox'[i - 1] = inbox[i])
  <2> SUFFICES ASSUME NEW i \in 1..Len(inbox), i # 1
               PROVE  i - 1 \in 1..Len(inbox') /\ inbox'[i - 1] = inbox[i]
    OBVIOUS
  <2>1. i - 1 \in 1..Len(inbox') /\ (i - 1) + 1 = i
    BY <1>1, <1>2
  <2> QED
    BY <1>2, <2>1
<1>5. \A i \in DOMAIN inbox' : inbox'[i] \in Messages
  BY <1>2, LenProperties, ElementOfSeq
<1>6. inbox[1] \in Messages /\ 1 \in 1..Len(inbox)
  BY <1>1, ElementOfSeq
<1> QED
  BY <1>1, <1>2, <1>3, <1>4, <1>5, <1>6 DEF Shorter

\* What a lost connection, and a new one, makes of the requests of the tasks.
Same(k, j) == k.p = j.p /\ k.g = j.g /\ k.by = j.by /\ k.st = j.st

LEMMA LoseFacts ==
  ASSUME tasks \subseteq Tasks
  PROVE  /\ LoseTasks(tasks) \subseteq Tasks
         /\ \A k \in LoseTasks(tasks) : /\ k.net \notin {"sent", "answered"}
                                       /\ \E j \in tasks : Same(k, j) /\ k.net = LoseNet(j.net)
         /\ \A j \in tasks : \E k \in LoseTasks(tasks) : Same(k, j)
<1> DEFINE L(j) == [j EXCEPT !.net = LoseNet(@)]
<1>1. ASSUME NEW j \in tasks
      PROVE  L(j) \in Tasks /\ Same(L(j), j) /\ L(j).net = LoseNet(j.net)
  BY <1>1 DEF Tasks, Nets, LoseNet, Same
<1>2. LoseTasks(tasks) = {L(j) : j \in tasks}
  BY DEF LoseTasks
<1>3. \A j \in tasks : LoseNet(j.net) \notin {"sent", "answered"}
  BY DEF LoseNet
<1> HIDE DEF L
<1> QED
  BY <1>1, <1>2, <1>3

LEMMA FlushFacts ==
  ASSUME tasks \subseteq Tasks
  PROVE  /\ FlushTasks(tasks) \subseteq Tasks
         /\ \A k \in FlushTasks(tasks) : \E j \in tasks : Same(k, j) /\ k.net = FlushNet(j.net)
         /\ \A j \in tasks : \E k \in FlushTasks(tasks) : Same(k, j)
<1> DEFINE F(j) == [j EXCEPT !.net = FlushNet(@)]
<1>1. ASSUME NEW j \in tasks
      PROVE  F(j) \in Tasks /\ Same(F(j), j) /\ F(j).net = FlushNet(j.net)
  BY <1>1 DEF Tasks, Nets, FlushNet, Same
<1>2. FlushTasks(tasks) = {F(j) : j \in tasks}
  BY DEF FlushTasks
<1> HIDE DEF F
<1> QED
  BY <1>1, <1>2

\* consumeOne of several producers adds a task for each that is not being handled.
LEMMA ConsumeFacts ==
  ASSUME TypeOK, NEW ps \in SUBSET Producers, NEW t \in Threads \cup {"event"},
         ConsumeAll(ps, t, tasks)
  PROVE  /\ tasks \subseteq tasks' /\ tasks' \subseteq Tasks
         /\ \A k \in tasks' \ tasks : /\ k.p \in ps \ consuming /\ k.g = gen /\ k.by = t
                                     /\ k.st = "asked" /\ k.net = Emitted /\ open
         /\ consuming \subseteq consuming' /\ consuming' \subseteq Producers
         /\ open => /\ consuming' = consuming \cup ps
                    /\ \A p \in ps \ consuming : \E k \in tasks' : k.p = p /\ k.g = gen
         /\ ~open => consuming' = consuming /\ tasks' = tasks
<1> DEFINE New(p) == [p |-> p, g |-> gen, by |-> t, st |-> "asked", net |-> Emitted]
<1>1. ASSUME NEW p \in Producers
      PROVE  /\ New(p) \in Tasks /\ New(p).p = p /\ New(p).g = gen /\ New(p).by = t
             /\ New(p).st = "asked" /\ New(p).net = Emitted
  BY DEF TypeOK, Tasks, Nets, Emitted
<1>2. open => /\ consuming' = consuming \cup (ps \ consuming)
              /\ tasks' = tasks \cup {New(p) : p \in ps \ consuming}
  BY DEF ConsumeAll
<1>3. ~open => consuming' = consuming /\ tasks' = tasks
  BY DEF ConsumeAll
<1>4. tasks \subseteq Tasks /\ consuming \subseteq Producers
  BY DEF TypeOK
<1> HIDE DEF New
<1> QED
  BY <1>1, <1>2, <1>3, <1>4

\* What a message less leaves of the parts about messages.
LEMMA ShorterMsg ==
  ASSUME MsgInv, Shorter, UNCHANGED inRoom,
         \A i \in 1..Len(inbox) : i # 1 /\ inbox[i].k = "thread" =>
            thread'[inbox[i].t].net = "answered" /\ thread'[inbox[i].t].pc \in {"init", "produce", "list"}
  PROVE  MsgInv'
<1> SUFFICES ASSUME NEW i \in 1..Len(inbox')
             PROVE  /\ inbox'[i].k = "thread" =>
                        /\ thread'[inbox'[i].t].net = "answered"
                        /\ thread'[inbox'[i].t].pc \in {"init", "produce", "list"}
                        /\ \A j \in 1..Len(inbox') :
                              inbox'[j].k = "thread" /\ inbox'[j].t = inbox'[i].t => i = j
                    /\ inbox'[i].k = "task" => /\ inbox'[i].t.net = "answered"
                                              /\ inbox'[i].t.st # "opening" /\ (inbox'[i].ok => inRoom')
  BY DEF MsgInv
<1>1. i + 1 \in 1..Len(inbox) /\ inbox'[i] = inbox[i + 1] /\ i + 1 # 1
  BY DEF Shorter
<1>2. ASSUME NEW j \in 1..Len(inbox'), inbox'[j].k = "thread", inbox'[j].t = inbox'[i].t,
             inbox'[i].k = "thread"
      PROVE  i = j
  <2>1. j + 1 \in 1..Len(inbox) /\ inbox'[j] = inbox[j + 1]
    BY DEF Shorter
  <2>2. i + 1 = j + 1
    BY <1>1, <1>2, <2>1 DEF MsgInv
  <2> QED
    BY <2>2
<1> QED
  BY <1>1, <1>2 DEF MsgInv

LEMMA ShorterKnown ==
  ASSUME KnownInv, Shorter, UNCHANGED <<listed, here, news, goodbyes, stopped, gen, inRoom>>,
         excused \subseteq excused', \A p \in pending' : Known(p), \A k \in tasks' : Known(k.p)
  PROVE  KnownInv'
<1>1. ASSUME NEW i \in 1..Len(inbox') PROVE KnownMsg(inbox[i])'
  <2>1. i + 1 \in 1..Len(inbox) /\ inbox'[i] = inbox[i + 1]
    BY DEF Shorter
  <2>2. KnownMsg(inbox[i + 1])
    BY <2>1 DEF KnownInv
  <2> QED
    BY <2>1, <2>2 DEF KnownMsg, Known
<1> QED
  BY <1>1 DEF KnownInv, Known

LEMMA ShorterLeft ==
  ASSUME inbox \in Seq(Messages), Shorter, NEW p \in Producers, NEW i \in Nat, LeftAfter(p, i + 1)
  PROVE  LeftAfter(p, i)'
<1>1. PICK j \in 1..Len(inbox) : j > i + 1 /\ inbox[j].k = "left" /\ inbox[j].q = Owner[p]
  BY DEF LeftAfter
<1>2. j - 1 \in 1..Len(inbox') /\ inbox'[j - 1] = inbox[j]
  BY <1>1 DEF Shorter
<1>3. j - 1 > i
  BY <1>1, LenProperties
<1> QED
  BY <1>1, <1>2, <1>3 DEF LeftAfter

LEMMA ShorterFind ==
  ASSUME Shorter, NEW i \in 1..Len(inbox), i # 1
  PROVE  \E j \in 1..Len(inbox') : inbox'[j] = inbox[i]
  BY DEF Shorter

LEMMA ShorterStill ==
  ASSUME inbox \in Seq(Messages), Shorter, UNCHANGED <<listed, goodbyes>>, inbox[1].k # "left",
         NEW p \in Producers, GoneOrHere(p, 0)
  PROVE  GoneOrHere(p, 0)'
<1>1. CASE LeftAfter(p, 0)
  <2>1. PICK j \in 1..Len(inbox) : j > 0 /\ inbox[j].k = "left" /\ inbox[j].q = Owner[p]
    BY <1>1 DEF LeftAfter
  <2>2. PICK k \in 1..Len(inbox') : inbox'[k] = inbox[j]
    BY <2>1, ShorterFind
  <2>3. k > 0
    BY <2>2 DEF Shorter
  <2> QED
    BY <2>1, <2>2, <2>3 DEF GoneOrHere, LeftAfter
<1>2. CASE p \in listed \/ Owner[p] \in goodbyes
  BY <1>2 DEF GoneOrHere
<1> QED
  BY <1>1, <1>2 DEF GoneOrHere

LEMMA ShorterGhost ==
  ASSUME TypeOK, GhostInv, inbox \in Seq(Messages), Shorter, UNCHANGED <<listed, goodbyes>>,
         NEW i \in 1..Len(inbox'), inbox'[i].k = "task", inbox'[i].ok
  PROVE  GoneOrHere(inbox[i].t.p, i)'
<1>1. i + 1 \in 1..Len(inbox) /\ inbox'[i] = inbox[i + 1] /\ i \in Nat
  BY DEF Shorter
<1>2. GoneOrHere(inbox[i + 1].t.p, i + 1)
  BY <1>1 DEF GhostInv
<1>3. inbox[i + 1].t.p \in Producers
  BY <1>1, MessageParts, TaskParts, ElementOfSeq
<1> QED
  BY <1>1, <1>2, <1>3, ShorterLeft DEF GoneOrHere

LEMMA ShorterClaim ==
  ASSUME Shorter, NEW t \in Threads, thread'[t] = thread[t], Claims(t)'
  PROVE  Claims(t)
<1>1. CASE At(t, "produce")
  BY <1>1 DEF Claims, At
<1>2. ASSUME NEW i \in 1..Len(inbox'), inbox'[i].k = "thread", inbox'[i].t = t, inbox'[i].ok,
             At(t, "init")
      PROVE  Claims(t)
  <2>1. i + 1 \in 1..Len(inbox) /\ inbox'[i] = inbox[i + 1]
    BY DEF Shorter
  <2> QED
    BY <1>2, <2>1 DEF Claims
<1> QED
  BY <1>1, <1>2 DEF Claims, At

LEMMA ShorterEnter ==
  ASSUME EnterInv, Shorter, UNCHANGED <<inRoom, open, gen>>, tiles' \subseteq tiles,
         remote' \subseteq remote, \A k \in tasks' : open \/ \E j \in tasks : k.g = j.g,
         \A t \in Threads : EnterSent(t)' => EnterSent(t)
  PROVE  EnterInv'
<1>1. ASSUME NEW i \in 1..Len(inbox') PROVE i + 1 \in 1..Len(inbox) /\ inbox'[i] = inbox[i + 1]
  BY DEF Shorter
<1>2. ASSUME NEW t \in Threads, EnterSent(t)'
      PROVE  /\ ~inRoom' /\ ~open' /\ tiles' = {} /\ remote' = {}
             /\ \A k \in tasks' : k.g # gen'
             /\ \A i \in 1..Len(inbox') : inbox'[i].k = "task" => inbox'[i].t.g # gen'
  <2>1. EnterSent(t)
    BY <1>2
  <2>2. ~inRoom' /\ ~open' /\ tiles' = {} /\ remote' = {}
    BY <2>1 DEF EnterInv
  <2>3. \A k \in tasks' : k.g # gen'
    BY <2>1 DEF EnterInv
  <2>4. \A i \in 1..Len(inbox') : inbox'[i].k = "task" => inbox'[i].t.g # gen'
    BY <1>1, <2>1 DEF EnterInv
  <2> QED
    BY <2>2, <2>3, <2>4
<1> QED
  BY <1>2 DEF EnterInv, Threads

\* Who has still to list p has still to list it.
LEMMA ShorterLists ==
  ASSUME Shorter, NEW p, NEW t \in Threads, thread'[t] = thread[t], Lists(t, p)
  PROVE  Lists(t, p)'
<1>1. \A i \in 1..Len(inbox') : i + 1 \in 1..Len(inbox) /\ inbox'[i] = inbox[i + 1]
  BY DEF Shorter
<1>2. CASE thread[t].pc \in Entering \cup {"produce"}
  BY <1>2 DEF Lists, Entering
<1>3. CASE At(t, "list") /\ \A i \in 1..Len(inbox) :
             inbox[i].k = "thread" /\ inbox[i].t = t /\ inbox[i].ok => p \in inbox[i].ps
  BY <1>1, <1>3 DEF Lists, At
<1> QED
  BY <1>2, <1>3 DEF Lists

\* What a message more leaves of them, when it is no answer.
LEMMA LongerMsg ==
  ASSUME MsgInv, NEW m, Longer(m), m.k \notin {"thread", "task"}, inRoom => inRoom',
         \A i \in 1..Len(inbox) : inbox[i].k = "thread" => thread'[inbox[i].t] = thread[inbox[i].t]
  PROVE  MsgInv'
<1>1. ASSUME NEW i \in 1..Len(inbox'), inbox'[i].k \in {"thread", "task"}
      PROVE  i \in 1..Len(inbox) /\ inbox'[i] = inbox[i]
  BY <1>1 DEF Longer
<1>2. ASSUME NEW i \in 1..Len(inbox'), inbox'[i].k = "thread"
      PROVE  /\ thread'[inbox'[i].t].net = "answered"
             /\ thread'[inbox'[i].t].pc \in {"init", "produce", "list"}
  BY <1>1, <1>2 DEF MsgInv
<1>3. ASSUME NEW i \in 1..Len(inbox'), NEW j \in 1..Len(inbox'), inbox'[i].k = "thread",
             inbox'[j].k = "thread", inbox'[j].t = inbox'[i].t
      PROVE  i = j
  <2>1. /\ i \in 1..Len(inbox) /\ inbox'[i] = inbox[i]
        /\ j \in 1..Len(inbox) /\ inbox'[j] = inbox[j]
    BY <1>1, <1>3
  <2> QED
    BY <1>3, <2>1 DEF MsgInv
<1>4. ASSUME NEW i \in 1..Len(inbox'), inbox'[i].k = "task"
      PROVE  inbox'[i].t.net = "answered" /\ inbox'[i].t.st # "opening" /\ (inbox'[i].ok => inRoom')
  BY <1>1, <1>4 DEF MsgInv
<1> QED
  BY <1>2, <1>3, <1>4 DEF MsgInv

LEMMA LongerClaim ==
  ASSUME NEW m, Longer(m), m.k # "thread", NEW t \in Threads, thread'[t] = thread[t], Claims(t)'
  PROVE  Claims(t)
<1>1. CASE At(t, "produce")
  BY <1>1 DEF Claims, At
<1>2. ASSUME NEW i \in 1..Len(inbox'), inbox'[i].k = "thread", inbox'[i].t = t, inbox'[i].ok,
             At(t, "init")
      PROVE  Claims(t)
  <2>1. i \in 1..Len(inbox) /\ inbox'[i] = inbox[i]
    BY <1>2 DEF Longer
  <2> QED
    BY <1>2, <2>1 DEF Claims
<1> QED
  BY <1>1, <1>2 DEF Claims, At

\* Nobody may produce who might not before.
LEMMA NoMoreClaims ==
  ASSUME ClaimInv, UNCHANGED <<wired, mine>>, \A t \in Threads : Claims(t)' => Claims(t)
  PROVE  ClaimInv'
  BY DEF ClaimInv, Threads

LEMMA LongerLeft ==
  ASSUME inbox \in Seq(Messages), NEW m, Longer(m), NEW p \in Producers, NEW i \in Nat, LeftAfter(p, i)
  PROVE  LeftAfter(p, i)'
<1>1. PICK j \in 1..Len(inbox) : j > i /\ inbox[j].k = "left" /\ inbox[j].q = Owner[p]
  BY DEF LeftAfter
<1>2. j \in 1..Len(inbox') /\ inbox'[j] = inbox[j]
  BY <1>1, LenProperties DEF Longer
<1> QED
  BY <1>1, <1>2 DEF LeftAfter

LEMMA LongerGhost ==
  ASSUME TypeOK, GhostInv, inbox \in Seq(Messages), NEW m, Longer(m), m.k # "task",
         UNCHANGED <<listed, goodbyes>>, inRoom' /\ tiles' # {} => inRoom, tiles' \subseteq tiles
  PROVE  GhostInv'
<1>1. ASSUME inRoom', NEW r \in tiles' PROVE GoneOrHere(r, 0)'
  <2>1. r \in Producers /\ GoneOrHere(r, 0)
    BY <1>1 DEF GhostInv, TypeOK
  <2> QED
    BY <2>1, LongerLeft DEF GoneOrHere
<1>2. ASSUME NEW i \in 1..Len(inbox'), inbox'[i].k = "task", inbox'[i].ok
      PROVE  GoneOrHere(inbox[i].t.p, i)'
  <2>1. i \in 1..Len(inbox) /\ inbox'[i] = inbox[i] /\ i \in Nat
    BY <1>2, LenProperties DEF Longer
  <2>2. GoneOrHere(inbox[i].t.p, i) /\ inbox[i].t.p \in Producers
    BY <1>2, <2>1, MessageParts, TaskParts, ElementOfSeq DEF GhostInv
  <2> QED
    BY <2>1, <2>2, LongerLeft DEF GoneOrHere
<1> QED
  BY <1>1, <1>2 DEF GhostInv

\* The connection is closed for good, by leave() or by the catch of join(): nothing
\* of it is left, and no request will be answered.
CutOff ==
    /\ open' = FALSE /\ bound' = FALSE /\ conn' = "off" /\ inbox' = <<>>
    /\ tasks' = LoseTasks(tasks)
    /\ inRoom' = FALSE /\ wired' = FALSE /\ mine' = 0
    /\ thread' \in [Threads -> [pc : Awaits \cup Idle \cup {"failing"}, net : Nets]]
    /\ \A t \in Threads :
          thread'[t] \in {[thread[t] EXCEPT !.net = LoseNet(@)],
                          [pc |-> IF t = "join" THEN "failing" ELSE "none", net |-> "none"]}
    /\ UNCHANGED <<gen, mediaReady, pending, consuming, remote, others, over, drops>>

LEMMA CutKeeps ==
  ASSUME Inv, CutOff,
         phase' \in {"idle", "joining", "joined", "ended", "error"},
         {page', left', row'} \subseteq BOOLEAN, byes' \subseteq {"leave", "fail"},
         faults' \in 0..MaxFaults, excused' \subseteq Producers, tiles' \in {tiles, {}},
         phase' = "joined" => At("join", "done")',
         left' /\ page' => thread'["join"].pc \notin {"none", "rest", "answered"}
  PROVE  Inv'
<1> USE DEF Inv, CutOff, At
<1>a. /\ tasks' \subseteq Tasks
      /\ \A k \in tasks' : /\ k.net \notin {"sent", "answered"}
                           /\ \E j \in tasks : Same(k, j) /\ k.net = LoseNet(j.net)
      /\ \A j \in tasks : \E k \in tasks' : Same(k, j)
  BY LoseFacts DEF TypeOK
<1>b. inbox' \in Seq(Messages) /\ \A i \in 1..Len(inbox') : FALSE
  BY EmptySeq
<1>c. DOMAIN inbox' = 1..Len(inbox')
  BY <1>b, LenProperties
<1>d. /\ \A t \in Threads : /\ thread'[t].net \notin {"sent", "answered"}
                            /\ thread'[t].net = "buffered" => thread[t].net = "buffered"
                            /\ thread'[t].net # "none" => thread[t].net # "none" /\ thread'[t].pc = thread[t].pc
      /\ thread'["join"].pc \in {thread["join"].pc, "failing"}
      /\ thread'["rejoin"].pc \in {thread["rejoin"].pc, "none"}
  BY DEF TypeOK, Threads, LoseNet
<1>1. TypeOK'
  <2>1. {page', left', bound', open', mediaReady', inRoom', wired', row', over'} \subseteq BOOLEAN
    BY DEF TypeOK
  <2>2. {pending', consuming', remote', tiles', listed', stopped', news', excused'}
          \subseteq SUBSET Producers
    BY DEF TypeOK
  <2>3. conn' \in {"off", "up", "down"} /\ mine' \in 0..2
    OBVIOUS
  <2>4. gen' \in 1..(MaxDrops + 1) /\ drops' \in 0..MaxDrops /\ here' \subseteq Peers /\ goodbyes' \subseteq Peers
    BY DEF TypeOK
  <2> QED
    BY <1>a, <1>b, <1>c, <2>1, <2>2, <2>3, <2>4 DEF TypeOK
<1>2. ConnInv'
  BY <1>a, <1>b, <1>d DEF ConnInv
<1>3. ThreadInv'
  BY <1>a, <1>d DEF ThreadInv, Early, Preparing, Entering, Idle, Threads
<1>4. MsgInv'
  BY <1>b DEF MsgInv
<1>5. ClaimInv'
  BY <1>b, <1>d DEF ClaimInv, Claims, Threads
<1>6. EnterInv'
  BY <1>b, <1>d DEF EnterInv, EnterSent, Threads
<1>7. TileInv'
  BY DEF TileInv
<1>8. TaskInv'
  BY <1>a DEF TaskInv, Same, LoseNet
<1>9. ReadyInv'
  BY DEF ReadyInv
<1>10. KnownInv'
  BY <1>a, <1>b DEF KnownInv, Known, Same
<1>11. CoverInv'
  BY DEF CoverInv
<1>12. GhostInv'
  BY <1>b DEF GhostInv
<1> QED
  BY <1>1, <1>2, <1>3, <1>4, <1>5, <1>6, <1>7, <1>8, <1>9, <1>10, <1>11, <1>12

\* The catch of join() closes the connection.
LEMMA ThrowJoin ==
  ASSUME TypeOK, NEW ts \in SUBSET Threads, NEW queue, Throw(ts, queue), "join" \in ts,
         UNCHANGED <<gen, mediaReady, pending, consuming, remote, others, over, drops>>
  PROVE  /\ CutOff /\ thread'["join"].pc = "failing"
         /\ phase' \in {phase, "error"} /\ excused' \in {excused, Producers}
         /\ byes' \subseteq {"leave", "fail"}
<1>1. /\ open' = FALSE /\ bound' = FALSE /\ conn' = "off" /\ inbox' = <<>>
      /\ tasks' = LoseTasks(tasks) /\ inRoom' = FALSE /\ wired' = FALSE /\ mine' = 0
      /\ byes' = byes \cup {"fail"}
      /\ phase' \in {phase, "error"} /\ excused' \in {excused, Producers}
      /\ thread' = [t \in Threads |->
                     CASE t \notin ts -> LoseThreads[t]
                       [] t \in ts \cap {"join"} -> [pc |-> "failing", net |-> "none"]
                       [] t \in ts \ {"join"} -> [pc |-> "none", net |-> "none"]]
  BY DEF Throw, Teardown
<1>2. ASSUME NEW t \in Threads
      PROVE  /\ LoseThreads[t].pc = thread[t].pc /\ LoseThreads[t].net = LoseNet(thread[t].net)
             /\ LoseThreads[t] \in [pc : Awaits \cup Idle \cup {"failing"}, net : Nets]
  BY DEF LoseThreads, LoseNet, TypeOK, Nets
<1>3. thread'["join"] = [pc |-> "failing", net |-> "none"] /\ "join" \in Threads
  BY <1>1 DEF Threads
<1>4. /\ thread'["rejoin"] = LoseThreads["rejoin"] \/ thread'["rejoin"] = [pc |-> "none", net |-> "none"]
      /\ "rejoin" \in Threads
  BY <1>1 DEF Threads
<1>5. \A t \in Threads : t = "join" \/ t = "rejoin"
  BY DEF Threads
<1>6. thread' \in [Threads -> [pc : Awaits \cup Idle \cup {"failing"}, net : Nets]]
  <2>1. ASSUME NEW t \in Threads
        PROVE  thread'[t] \in [pc : Awaits \cup Idle \cup {"failing"}, net : Nets]
    BY <1>2, <1>3, <1>4, <1>5 DEF Idle, Nets
  <2>2. thread' = [t \in Threads |-> thread'[t]]
    BY <1>1
  <2> QED
    BY <2>1, <2>2
<1>7. \A t \in Threads :
         thread'[t] \in {[thread[t] EXCEPT !.net = LoseNet(@)],
                         [pc |-> IF t = "join" THEN "failing" ELSE "none", net |-> "none"]}
  BY <1>3, <1>4, <1>5 DEF LoseThreads
<1> QED
  BY <1>1, <1>3, <1>6, <1>7 DEF CutOff, TypeOK

\* leave(), the first time.
LEMMA LeaveCuts ==
  ASSUME TypeOK, NEW queue, Leave(queue), ~left,
         UNCHANGED <<gen, mediaReady, pending, consuming, remote, others, over, drops>>
  PROVE  /\ CutOff /\ byes' \subseteq {"leave", "fail"} /\ left' = TRUE
         /\ \A t \in Threads : thread'[t].pc = thread[t].pc
<1>1. /\ open' = FALSE /\ bound' = FALSE /\ conn' = "off" /\ inbox' = <<>>
      /\ tasks' = LoseTasks(tasks) /\ inRoom' = FALSE /\ wired' = FALSE /\ mine' = 0
      /\ byes' = byes \cup {"leave"} /\ left' = TRUE /\ thread' = LoseThreads
  BY DEF Leave, Teardown
<1>2. ASSUME NEW t \in Threads
      PROVE  /\ LoseThreads[t].pc = thread[t].pc
             /\ LoseThreads[t] = [thread[t] EXCEPT !.net = LoseNet(@)]
             /\ LoseThreads[t] \in [pc : Awaits \cup Idle \cup {"failing"}, net : Nets]
  BY DEF LoseThreads, LoseNet, TypeOK, Nets
<1>3. thread' \in [Threads -> [pc : Awaits \cup Idle \cup {"failing"}, net : Nets]]
  BY <1>1, <1>2 DEF LoseThreads
<1> QED
  BY <1>1, <1>2, <1>3 DEF CutOff, TypeOK, Threads

\* Only a message of no consequence is taken.
LEMMA PopKeeps ==
  ASSUME Inv, Shorter, inbox[1].k \in {"join-error", "room-ended"},
         phase' \in {phase, "ended"},
         UNCHANGED <<page, own, conn, thread, server, others, rest, excused, drops, faults>>
  PROVE  Inv'
<1> USE DEF Inv, At
<1>1. TypeOK'
  BY DEF TypeOK, Threads, Awaits, Idle, Nets, Shorter
<1>2. ConnInv'
  BY DEF ConnInv, Shorter
<1>3. ThreadInv'
  BY DEF ThreadInv, TypeOK, Early, Entering, Preparing, Idle, Threads
<1>4. MsgInv'
  BY ShorterMsg DEF MsgInv, TypeOK, Threads
<1>5. ClaimInv'
  BY ShorterClaim DEF ClaimInv, Claims, TypeOK, Threads
<1>6. EnterInv'
  BY ShorterEnter DEF EnterInv, EnterSent, TypeOK, Threads
<1>7. TileInv'
  BY DEF TileInv
<1>8. TaskInv'
  BY DEF TaskInv
<1>9. ReadyInv'
  BY DEF ReadyInv, TypeOK, Entering, Preparing, Threads
<1>10. KnownInv'
  BY ShorterKnown DEF KnownInv, KnownMsg, Known
<1>11. CoverInv'
  <2> SUFFICES ASSUME inRoom', NEW r \in listed' \ (excused' \cup stopped')
               PROVE  Covered(r)'
    BY DEF CoverInv
  <2>1. Covered(r)
    BY DEF CoverInv, Shorter
  <2>2. CASE r \in tiles \cup news \cup pending
    BY <2>2 DEF Covered, Shorter
  <2>3. ASSUME NEW i \in 1..Len(inbox), inbox[i].k = "new", inbox[i].p = r PROVE Covered(r)'
    BY <2>3 DEF Covered, Shorter
  <2>4. ASSUME NEW k \in tasks, k.p = r, k.g = gen PROVE Covered(r)'
    BY <2>4 DEF Covered, Shorter
  <2>5. ASSUME NEW u \in Threads, Lists(u, r) PROVE Covered(r)'
    BY <2>5, ShorterLists DEF Covered
  <2> QED
    BY <2>1, <2>2, <2>3, <2>4, <2>5 DEF Covered
<1>12. GhostInv'
  <2>1. ASSUME inRoom', NEW r \in tiles' PROVE GoneOrHere(r, 0)'
    BY <2>1, ShorterStill DEF GhostInv, ConnInv, TypeOK
  <2>2. ASSUME NEW i \in 1..Len(inbox'), inbox'[i].k = "task", inbox'[i].ok
        PROVE  GoneOrHere(inbox[i].t.p, i)'
    BY <2>2, ShorterGhost DEF ConnInv
  <2> QED
    BY <2>1, <2>2 DEF GhostInv
<1> QED
  BY <1>1, <1>2, <1>3, <1>4, <1>5, <1>6, <1>7, <1>8, <1>9, <1>10, <1>11, <1>12
LEMMA RejoinGivesUp ==
  ASSUME Inv, ~At("rejoin", "none"), inbox' = inbox \/ (Shorter /\ inbox[1].k \in {"thread", "join-error"}),
         \A i \in 1..Len(inbox') : inbox'[i].k = "thread" => inbox'[i].t # "rejoin",
         thread' = [thread EXCEPT !["rejoin"] = [pc |-> "none", net |-> "none"]],
         phase' = "error", excused' = Producers,
         UNCHANGED <<page, own, conn, server, others, rest, drops, faults>>
  PROVE  Inv'
<1> USE DEF Inv, At
<1>b. /\ "join" \in Threads /\ "rejoin" \in Threads /\ \A t \in Threads : t = "join" \/ t = "rejoin"
      /\ thread'["join"] = thread["join"] /\ thread'["rejoin"] = [pc |-> "none", net |-> "none"]
  BY DEF TypeOK, Threads
<1>c. \A i \in 1..Len(inbox') : inbox'[i].k = "thread" => inbox'[i].t = "join"
  <2>1. inbox' \in Seq(Messages)
    BY DEF Shorter, ConnInv
  <2> QED
    BY <1>b, <2>1, MessageParts, ElementOfSeq
<1>a. \A i \in 1..Len(inbox) : (inbox' = inbox \/ i # 1) /\ inbox[i].k = "thread" =>
         /\ inbox[i].t = "join"
         /\ thread'["join"].net = "answered" /\ thread'["join"].pc \in {"init", "produce", "list"}
  BY <1>b, <1>c DEF MsgInv, Shorter
<1>d. inbox' = inbox \/ Shorter
  OBVIOUS
<1>1. TypeOK'
  BY BoundsAssumption DEF TypeOK, Threads, Awaits, Idle, Nets, Shorter
<1>2. ConnInv'
  BY DEF ConnInv, Shorter, TypeOK, Threads
<1>3. ThreadInv'
  BY DEF ThreadInv, TypeOK, Early, Entering, Preparing, Idle, Threads
<1>4. MsgInv'
  <2>1. CASE inbox' = inbox
    BY <1>a, <2>1 DEF MsgInv
  <2>2. CASE Shorter
    BY <1>a, <2>2, ShorterMsg DEF MsgInv
  <2> QED
    BY <1>d, <2>1, <2>2
<1>5. ClaimInv'
  <2>1. CASE inbox' = inbox
    BY <1>b, <2>1 DEF ClaimInv, Claims, Threads
  <2>2. CASE Shorter
    BY <1>b, <2>2, ShorterClaim DEF ClaimInv, Claims, Threads
  <2> QED
    BY <1>d, <2>1, <2>2
<1>6. EnterInv'
  <2>1. CASE inbox' = inbox
    BY <1>b, <2>1 DEF EnterInv, EnterSent, Threads
  <2>2. CASE Shorter
    BY <1>b, <2>2, ShorterEnter DEF EnterSent, Threads
  <2> QED
    BY <1>d, <2>1, <2>2
<1>7. TileInv'
  BY DEF TileInv
<1>8. TaskInv'
  BY DEF TaskInv
<1>9. ReadyInv'
  BY DEF ReadyInv, TypeOK, Entering, Preparing, Threads
<1>10. KnownInv'
  <2>1. CASE inbox' = inbox
    BY <2>1 DEF KnownInv, KnownMsg, Known, TypeOK
  <2>2. CASE Shorter
    BY <2>2, ShorterKnown DEF KnownInv, TypeOK
  <2> QED
    BY <1>d, <2>1, <2>2
<1>11. CoverInv'
  BY DEF CoverInv, Covered, Lists, TypeOK, Entering, Threads, TypeOK
<1>12. GhostInv'
  <2>1. CASE inbox' = inbox
    BY <2>1 DEF GhostInv, GoneOrHere, LeftAfter
  <2>2. CASE Shorter
    <3>0. inbox' # inbox
      BY <2>2 DEF Shorter
    <3>1. \A r \in tiles : GoneOrHere(r, 0) => GoneOrHere(r, 0)'
      <4>1. inbox[1].k # "left" /\ inbox \in Seq(Messages) /\ UNCHANGED <<listed, goodbyes>>
        BY <3>0 DEF ConnInv
      <4>2. tiles \subseteq Producers
        BY DEF TypeOK
      <4> QED
        BY <2>2, <4>1, <4>2, ShorterStill
    <3>2. ASSUME NEW i \in 1..Len(inbox'), inbox'[i].k = "task", inbox'[i].ok
          PROVE  GoneOrHere(inbox[i].t.p, i)'
      BY <2>2, <3>2, ShorterGhost DEF ConnInv
    <3> QED
      BY <3>1, <3>2 DEF GhostInv
  <2> QED
    BY <1>d, <2>1, <2>2
<1> QED
  BY <1>1, <1>2, <1>3, <1>4, <1>5, <1>6, <1>7, <1>8, <1>9, <1>10, <1>11, <1>12

-----------------------------------------------------------------------------
(* The page *)

LEMMA ClickJoinKeeps ==
  ASSUME Inv, ClickJoin
  PROVE  Inv'
<1> USE DEF Inv, ClickJoin, Goto, At
<1>1. TypeOK'
  BY BoundsAssumption DEF TypeOK, Threads, Awaits, Idle, Nets
<1>2. ConnInv' /\ ThreadInv' /\ MsgInv' /\ ClaimInv' /\ EnterInv' /\ TileInv' /\ TaskInv' /\
      ReadyInv' /\ KnownInv' /\ CoverInv' /\ GhostInv'
  BY DEF ConnInv, ThreadInv, TypeOK, Early, Entering, Preparing, Idle, Threads, MsgInv,
         ClaimInv, Claims, EnterInv, EnterSent, TileInv, TaskInv, ReadyInv, KnownInv, KnownMsg,
         Known, CoverInv, Covered, Lists, GhostInv, GoneOrHere, LeftAfter
<1> QED
  BY <1>1, <1>2

LEMMA ClickLeaveKeeps ==
  ASSUME Inv, ClickLeave
  PROVE  Inv'
<1>1. At("join", "done")
  BY DEF Inv, ThreadInv, ClickLeave
<1>2. TypeOK /\ Leave(inbox) /\ ~left
        /\ UNCHANGED <<store, gen, mediaReady, pending, consuming, remote, tiles,
                       others, row, over, excused, drops, faults>>
  BY DEF Inv, ClickLeave
<1>3. CutOff /\ byes' \subseteq {"leave", "fail"} /\ left' = TRUE
        /\ \A t \in Threads : thread'[t].pc = thread[t].pc
  BY <1>2, LeaveCuts
<1>4. thread'["join"].pc = "done"
  BY <1>1, <1>3 DEF At, Threads
<1> QED
  BY <1>2, <1>3, <1>4, CutKeeps DEF At, TypeOK

LEMMA UnmountKeeps ==
  ASSUME Inv, Unmount
  PROVE  Inv'
<1>1. /\ TypeOK /\ page /\ page' = FALSE /\ phase' = "idle" /\ tiles' = {} /\ Leave(inbox)
      /\ UNCHANGED <<gen, mediaReady, pending, consuming, remote, others, row, over,
                     excused, drops, faults>>
  BY DEF Inv, Unmount
<1>2. CASE ~left
  <2>1. CutOff /\ byes' \subseteq {"leave", "fail"} /\ left' = TRUE
    BY <1>1, <1>2, LeaveCuts
  <2> QED
    BY <1>1, <2>1, CutKeeps DEF TypeOK
<1>3. CASE left
  <2>a. left' = left /\ inbox' = inbox /\ UNCHANGED <<open, bound, conn, tasks, thread, server, byes>>
    BY <1>1, <1>3 DEF Leave, TypeOK
  <2>b. conn = "off"
    BY <1>1, <1>3 DEF Inv, ThreadInv
  <2> USE <1>1, <2>a, <2>b DEF Inv, At
  <2>1. TypeOK'
    <3>1. phase' \in {"idle", "joining", "joined", "ended", "error"} /\ page' \in BOOLEAN
          /\ tiles' \in SUBSET Producers
      OBVIOUS
    <3> QED
      BY <3>1 DEF TypeOK
  <2>2. ConnInv' /\ ThreadInv' /\ MsgInv' /\ ClaimInv' /\ EnterInv' /\ TileInv' /\ TaskInv' /\
        ReadyInv' /\ KnownInv' /\ GhostInv'
    BY DEF ConnInv, ThreadInv, TypeOK, Early, Entering, Preparing, Idle, Threads, MsgInv,
           ClaimInv, Claims, EnterInv, EnterSent, TileInv, TaskInv, ReadyInv, KnownInv,
           KnownMsg, Known, GhostInv, GoneOrHere, LeftAfter
  <2>3. CoverInv'
    BY DEF CoverInv, Covered, Lists, TypeOK, Entering, Threads, ConnInv
  <2> QED
    BY <2>1, <2>2, <2>3
<1> QED
  BY <1>2, <1>3

-----------------------------------------------------------------------------
(* room-service *)

\* A request of join() that fails, or cannot be made.
LEMMA JoinFails ==
  ASSUME Inv, NEW ts \in SUBSET Threads, NEW queue, Throw(ts, queue), "join" \in ts,
         ~At("join", "done"), row' \in BOOLEAN, faults' \in 0..MaxFaults,
         UNCHANGED <<page, left, gen, mediaReady, pending, consuming, remote, tiles,
                     others, over, drops>>
  PROVE  Inv'
<1>1. /\ CutOff /\ thread'["join"].pc = "failing" /\ phase' \in {phase, "error"}
      /\ excused' \in {excused, Producers} /\ byes' \subseteq {"leave", "fail"}
  BY ThrowJoin DEF Inv
<1>2. phase' # "joined"
  BY <1>1 DEF Inv, ThreadInv, At
<1> QED
  BY <1>1, <1>2, CutKeeps DEF Inv, TypeOK

\* A request of rejoin() that fails.
LEMMA RejoinFails ==
  ASSUME Inv, NEW queue, Throw({"rejoin"}, queue), ~At("rejoin", "none"),
         \/ queue = inbox /\ thread["rejoin"].net # "answered"
         \/ /\ inbox # <<>> /\ queue = Tail(inbox)
            /\ \/ inbox[1].k = "thread" /\ inbox[1].t = "rejoin"
               \/ inbox[1].k = "join-error" /\ At("rejoin", "enter"),
         UNCHANGED <<page, left, gen, mediaReady, pending, consuming, remote, tiles,
                     others, row, over, drops, faults>>
  PROVE  Inv'
<1>1. /\ inbox' = queue /\ UNCHANGED <<open, bound, conn, tasks, server, byes>>
      /\ phase' = "error" /\ excused' = Producers
      /\ thread' = [thread EXCEPT !["rejoin"] = [pc |-> "none", net |-> "none"]]
  <2>1. "join" \notin {"rejoin"}
    OBVIOUS
  <2>2. /\ inbox' = queue /\ UNCHANGED <<open, bound, conn, tasks, server, byes>>
        /\ phase' = "error" /\ excused' = Producers
        /\ thread' = [t \in Threads |->
                       CASE t \notin {"rejoin"} -> thread[t]
                         [] t \in {"rejoin"} \cap {"join"} -> [pc |-> "failing", net |-> "none"]
                         [] t \in {"rejoin"} \ {"join"} -> [pc |-> "none", net |-> "none"]]
    BY <2>1 DEF Throw
  <2>3. /\ thread'["join"] = thread["join"] /\ thread'["rejoin"] = [pc |-> "none", net |-> "none"]
        /\ "join" \in Threads /\ "rejoin" \in Threads
    BY <2>2 DEF Threads
  <2>4. thread = [t \in Threads |-> thread[t]]
    BY DEF Inv, TypeOK
  <2> QED
    BY <2>2, <2>3, <2>4 DEF Threads
<1>2. CASE inbox' = inbox /\ thread["rejoin"].net # "answered"
  <2>1. \A i \in 1..Len(inbox') : inbox'[i].k = "thread" => inbox'[i].t # "rejoin"
    BY <1>2 DEF Inv, MsgInv
  <2> QED
    BY <1>1, <1>2, <2>1, RejoinGivesUp
<1>3. CASE /\ inbox # <<>> /\ inbox' = Tail(inbox)
           /\ \/ inbox[1].k = "thread" /\ inbox[1].t = "rejoin"
              \/ inbox[1].k = "join-error" /\ At("rejoin", "enter")
  <2>1. Shorter /\ 1 \in 1..Len(inbox)
    BY <1>3, Popped DEF Inv, ConnInv
  <2>2. ASSUME NEW i \in 1..Len(inbox'), inbox'[i].k = "thread"
        PROVE  inbox'[i].t # "rejoin"
    <3>1. i + 1 \in 1..Len(inbox) /\ inbox'[i] = inbox[i + 1] /\ i + 1 # 1
      BY <2>1 DEF Shorter
    <3> QED
      BY <1>3, <2>1, <2>2, <3>1 DEF Inv, MsgInv, At
  <2> QED
    BY <1>1, <1>3, <2>1, <2>2, RejoinGivesUp
<1> QED
  BY <1>1, <1>2, <1>3

LEMMA RestJoinKeeps ==
  ASSUME Inv, RestJoin
  PROVE  Inv'
<1>1. CASE /\ row' = TRUE /\ Goto("join", "answered", "none")
           /\ UNCHANGED <<store, own, conn, inbox, server, byes, excused, faults, others, over, drops>>
  <2> USE <1>1 DEF Inv, Goto, At
  <2>a. At("join", "rest")
    BY DEF RestJoin
  <2> HIDE DEF RestJoin
  <2>1. TypeOK'
    BY <2>a DEF TypeOK, Threads, Awaits, Idle, Nets
  <2>2. ConnInv' /\ ThreadInv' /\ MsgInv' /\ ClaimInv' /\ EnterInv' /\ TileInv' /\ TaskInv' /\
        ReadyInv' /\ KnownInv' /\ CoverInv' /\ GhostInv'
    BY <2>a
    DEF ConnInv, ThreadInv, TypeOK, Early, Entering, Preparing, Idle, Threads, MsgInv, ClaimInv,
        Claims, EnterInv, EnterSent, TileInv, TaskInv, ReadyInv, KnownInv, KnownMsg, Known,
        CoverInv, Covered, Lists, GhostInv, GoneOrHere, LeftAfter
  <2> QED
    BY <2>1, <2>2
<1>2. CASE /\ row' \in {row, TRUE} /\ faults' \in 0..MaxFaults
           /\ Throw({"join"}, inbox)
           /\ UNCHANGED <<page, left, gen, mediaReady, pending, consuming, remote, tiles, others, over, drops>>
  <2>1. row' \in BOOLEAN
    BY <1>2 DEF Inv, TypeOK
  <2>2. ~At("join", "done") /\ {"join"} \in SUBSET Threads
    BY DEF RestJoin, At, Threads
  <2> QED
    BY <1>2, <2>1, <2>2, JoinFails
<1>3. faults \in 0..MaxFaults /\ (faults < MaxFaults => faults + 1 \in 0..MaxFaults)
  BY BoundsAssumption DEF Inv, TypeOK
<1> QED
  BY <1>1, <1>2, <1>3 DEF RestJoin, Faulty

LEMMA RestLeaveKeeps ==
  ASSUME Inv, NEW b \in byes, RestLeave(b)
  PROVE  Inv'
<1> USE DEF Inv, RestLeave, At
<1>a. faults' \in 0..MaxFaults
  BY BoundsAssumption DEF TypeOK, Faulty
<1>b. row' \in BOOLEAN /\ byes' \subseteq {"leave", "fail"}
  BY DEF TypeOK
<1>1. TypeOK'
  BY BoundsAssumption, <1>a, <1>b DEF TypeOK, Threads, Awaits, Idle, Nets
<1>2. ConnInv' /\ ThreadInv' /\ MsgInv' /\ ClaimInv' /\ EnterInv' /\ TileInv' /\ TaskInv' /\
      ReadyInv' /\ KnownInv' /\ CoverInv' /\ GhostInv'
  BY DEF ConnInv, ThreadInv, TypeOK, Early, Entering, Preparing, Idle, Threads, MsgInv,
         ClaimInv, Claims, EnterInv, EnterSent, TileInv, TaskInv, ReadyInv, KnownInv, KnownMsg,
         Known, CoverInv, Covered, Lists, GhostInv, GoneOrHere, LeftAfter
<1> QED
  BY <1>1, <1>2

LEMMA EndMeetingKeeps ==
  ASSUME Inv, EndMeeting
  PROVE  Inv'
<1> USE DEF Inv, EndMeeting, At
<1> DEFINE m == [k |-> "room-ended"]
<1>a. m \in Messages /\ m.k = "room-ended"
  BY MessageForms
<1>b. inbox' \in Seq(Messages) /\ \A i \in DOMAIN inbox' : inbox'[i] \in Messages
  BY <1>a, Appended, LenProperties DEF Longer, ConnInv, Tell, TypeOK
<1>c. \/ inRoom /\ Longer(m)
      \/ ~inRoom /\ inbox' = inbox
  BY <1>a, Appended DEF Tell, ConnInv
<1> HIDE DEF m
<1>1. TypeOK'
  BY BoundsAssumption, <1>b DEF TypeOK, Threads, Awaits, Idle, Nets
<1>2. ThreadInv' /\ TileInv' /\ TaskInv' /\ ReadyInv'
  BY DEF ThreadInv, TypeOK, Early, Entering, Preparing, Idle, Threads, TileInv, TaskInv,
         ReadyInv
<1>3. ConnInv'
  BY <1>b, <1>c DEF ConnInv, Longer
<1>4. MsgInv'
  BY <1>a, <1>c DEF MsgInv, TypeOK, Threads, Longer
<1>5. ClaimInv'
  BY <1>a, <1>c DEF ClaimInv, Claims, TypeOK, Threads, Longer
<1>6. EnterInv'
  BY <1>a, <1>c DEF EnterInv, EnterSent, TypeOK, Threads, Longer
<1>7. KnownInv'
  BY <1>a, <1>c DEF KnownInv, KnownMsg, Known, Longer
<1>8. CoverInv'
  BY <1>a, <1>c DEF CoverInv, Covered, Lists, TypeOK, Entering, Threads, Longer
<1>9. GhostInv'
  BY <1>a, <1>c DEF GhostInv, GoneOrHere, LeftAfter, Longer
<1> QED
  BY <1>1, <1>2, <1>3, <1>4, <1>5, <1>6, <1>7, <1>8, <1>9

-----------------------------------------------------------------------------
(* The connection *)

LEMMA ConnectKeeps ==
  ASSUME Inv, Connect
  PROVE  Inv'
<1> USE DEF Inv, Connect, Goto, At
<1>1. TypeOK'
  BY BoundsAssumption DEF TypeOK, Threads, Awaits, Idle, Nets
<1>2. ConnInv' /\ ThreadInv' /\ MsgInv' /\ ClaimInv' /\ EnterInv' /\ TileInv' /\ TaskInv' /\
      ReadyInv' /\ KnownInv' /\ CoverInv' /\ GhostInv'
  BY DEF ConnInv, ThreadInv, TypeOK, Early, Entering, Preparing, Idle, Threads, MsgInv,
         ClaimInv, Claims, EnterInv, EnterSent, TileInv, TaskInv, ReadyInv, KnownInv, KnownMsg,
         Known, CoverInv, Covered, Lists, GhostInv, GoneOrHere, LeftAfter
<1> QED
  BY <1>1, <1>2

LEMMA ConnectedKeeps ==
  ASSUME Inv, Connected
  PROVE  Inv'
<1> USE DEF Inv, Connected, Goto, At
<1>a. tiles = {} /\ remote = {} /\ tasks = {} /\ ~open /\ inbox = <<>> /\ conn = "off"
        /\ At("rejoin", "none")
  BY DEF ThreadInv, ConnInv, Early
<1>b. \A i \in 1..Len(inbox) : FALSE
  BY <1>a, EmptySeq
<1>1. TypeOK'
  BY BoundsAssumption DEF TypeOK, Threads, Awaits, Idle, Nets
<1>2. ThreadInv' /\ MsgInv' /\ ClaimInv' /\ ReadyInv' /\ KnownInv' /\ CoverInv' /\ GhostInv'
  BY DEF ThreadInv, TypeOK, Early, Entering, Preparing, Idle, Threads, MsgInv, ClaimInv, Claims,
         ReadyInv, KnownInv, KnownMsg, Known, CoverInv, Covered, Lists, GhostInv, GoneOrHere,
         LeftAfter
<1>3. ConnInv'
  BY <1>a DEF ConnInv
<1>4. EnterInv'
  BY <1>a, <1>b DEF EnterInv, EnterSent, TypeOK, Threads, ConnInv
<1>5. TileInv'
  BY <1>a DEF TileInv
<1>6. TaskInv'
  BY <1>a DEF TaskInv, ConnInv
<1> QED
  BY <1>1, <1>2, <1>3, <1>4, <1>5, <1>6

LEMMA ConnectFailsKeeps ==
  ASSUME Inv, ConnectFails
  PROVE  Inv'
<1>1. faults' \in 0..MaxFaults /\ row' \in BOOLEAN
  BY BoundsAssumption DEF ConnectFails, Faulty, Inv, TypeOK
<1>2. ~At("join", "done") /\ {"join"} \in SUBSET Threads
  BY DEF ConnectFails, At, Threads
<1> QED
  BY <1>1, <1>2, JoinFails DEF ConnectFails

LEMMA DropKeeps ==
  ASSUME Inv, Drop
  PROVE  Inv'
<1> USE DEF Inv, At
<1>a. /\ conn = "up" /\ drops < MaxDrops /\ drops' = drops + 1 /\ conn' = "down" /\ inbox' = <<>>
      /\ tasks' = LoseTasks(tasks) /\ inRoom' = FALSE /\ wired' = FALSE /\ mine' = 0
      /\ UNCHANGED <<store, left, bound, open, gen, mediaReady, pending, consuming, remote,
                     tiles, others, rest, excused, faults>>
  BY DEF Drop
<1>b. /\ tasks' \subseteq Tasks
      /\ \A k \in tasks' : /\ k.net \notin {"sent", "answered"}
                           /\ \E j \in tasks : Same(k, j) /\ k.net = LoseNet(j.net)
      /\ \A j \in tasks : \E k \in tasks' : Same(k, j)
  BY <1>a, LoseFacts DEF TypeOK
<1>c. inbox' \in Seq(Messages) /\ DOMAIN inbox' = {} /\ \A i \in 1..Len(inbox') : FALSE
  BY <1>a, EmptySeq, LenProperties
<1>d. /\ thread' \in [Threads -> [pc : Awaits \cup Idle \cup {"failing"}, net : Nets]]
      /\ \A t \in Threads : thread'[t].pc = thread[t].pc /\ thread'[t].net = LoseNet(thread[t].net)
  BY DEF Drop, LoseThreads, LoseNet, TypeOK, Nets
<1>1. TypeOK'
  <2>1. {page', left', bound', open', mediaReady', inRoom', wired', row', over'} \subseteq BOOLEAN
    BY <1>a DEF TypeOK
  <2>2. drops' \in 0..MaxDrops /\ mine' \in 0..2
    BY <1>a, BoundsAssumption DEF TypeOK
  <2> QED
    BY <1>a, <1>b, <1>c, <1>d, <2>1, <2>2 DEF TypeOK
<1>2. TileInv' /\ ReadyInv' /\ CoverInv' /\ GhostInv'
  BY <1>a, <1>b, <1>c, <1>d
  DEF TileInv, ReadyInv, TypeOK, Entering, Preparing, Threads, CoverInv, Covered, Lists,
      GhostInv, GoneOrHere, LeftAfter
<1>3. ConnInv'
  BY BoundsAssumption, <1>a, <1>b, <1>c, <1>d DEF ConnInv, LoseNet, TypeOK
<1>4. ThreadInv'
  BY <1>a, <1>b, <1>c, <1>d
  DEF ThreadInv, TypeOK, Early, Entering, Preparing, Idle, Threads, LoseNet, Same
<1>5. MsgInv'
  BY <1>a, <1>b, <1>c, <1>d DEF MsgInv, TypeOK, Threads
<1>6. ClaimInv'
  BY <1>a, <1>b, <1>c, <1>d DEF ClaimInv, Claims, TypeOK, Threads, LoseNet
<1>7. EnterInv'
  BY <1>a, <1>b, <1>c, <1>d DEF EnterInv, EnterSent, TypeOK, Threads, LoseNet
<1>8. TaskInv'
  BY <1>a, <1>b, <1>c, <1>d DEF TaskInv, Same, LoseNet
<1>9. KnownInv'
  BY <1>a, <1>b, <1>c, <1>d DEF KnownInv, KnownMsg, Known, Same
<1> QED
  BY <1>1, <1>2, <1>3, <1>4, <1>5, <1>6, <1>7, <1>8, <1>9

LEMMA ReconnectKeeps ==
  ASSUME Inv, Reconnect
  PROVE  Inv'
<1> USE DEF Inv, At
<1>a. /\ conn = "down" /\ conn' = "up" /\ tasks' = FlushTasks(tasks)
      /\ UNCHANGED <<store, left, bound, inbox, server, others, rest, drops, faults>>
  BY DEF Reconnect
<1>b. /\ tasks' \subseteq Tasks
      /\ \A k \in tasks' : \E j \in tasks : Same(k, j) /\ k.net = FlushNet(j.net)
      /\ \A j \in tasks : \E k \in tasks' : Same(k, j)
  BY <1>a, FlushFacts DEF TypeOK
<1>c. /\ inbox' = <<>> /\ ~inRoom' /\ ~wired' /\ mine' = 0 /\ gen <= drops
      /\ thread["join"].pc \notin Early
  BY <1>a DEF ConnInv, ThreadInv
<1>d. \A i \in 1..Len(inbox') : FALSE
  BY <1>c, EmptySeq
<1>e. \A t \in Threads : /\ Flushed[t].pc = thread[t].pc /\ Flushed[t].net = FlushNet(thread[t].net)
                         /\ Flushed[t] \in [pc : Awaits \cup Idle \cup {"failing"}, net : Nets]
  BY DEF Flushed, FlushNet, TypeOK, Nets
<1>f. \A t \in Threads : thread[t].net \notin {"sent", "answered"} \/ At(t, "rest")
  BY <1>a DEF ConnInv
<1>g. \/ /\ At("rejoin", "none") /\ ~left
         /\ mediaReady' = FALSE /\ open' = FALSE /\ gen' = gen + 1 /\ excused' = {}
         /\ pending' = {} /\ remote' = {} /\ consuming' = {} /\ tiles' = {}
         /\ thread' \in [Threads -> [pc : Awaits \cup Idle \cup {"failing"}, net : Nets]]
         /\ thread'["rejoin"] = [pc |-> "enter", net |-> "sent"]
         /\ thread'["join"].pc = thread["join"].pc /\ thread'["join"].net = FlushNet(thread["join"].net)
      \/ /\ UNCHANGED <<mediaReady, pending, remote, consuming, tiles, open, gen, excused>>
         /\ thread' \in [Threads -> [pc : Awaits \cup Idle \cup {"failing"}, net : Nets]]
         /\ \A t \in Threads : thread'[t].pc = thread[t].pc /\ thread'[t].net = FlushNet(thread[t].net)
  <2>1. CASE At("rejoin", "none") /\ ~left
    <3>1. StartRejoin
      BY <2>1 DEF Reconnect
    <3>2. thread' = [Flushed EXCEPT !["rejoin"] = [pc |-> "enter", net |-> "sent"]]
      BY <3>1 DEF StartRejoin
    <3>3. /\ thread' \in [Threads -> [pc : Awaits \cup Idle \cup {"failing"}, net : Nets]]
          /\ thread'["rejoin"] = [pc |-> "enter", net |-> "sent"] /\ thread'["join"] = Flushed["join"]
      BY <1>e, <3>2 DEF Flushed, Threads, Awaits, Nets
    <3> QED
      BY <1>e, <2>1, <3>1, <3>3 DEF StartRejoin, Threads
  <2>2. CASE ~(At("rejoin", "none") /\ ~left)
    <3>1. /\ thread' = Flushed
          /\ UNCHANGED <<mediaReady, pending, remote, consuming, tiles, open, gen, excused>>
      BY <2>2 DEF Reconnect
    <3>2. thread' \in [Threads -> [pc : Awaits \cup Idle \cup {"failing"}, net : Nets]]
      BY <1>e, <3>1 DEF Flushed
    <3> QED
      BY <1>e, <3>1, <3>2
  <2> QED
    BY <2>1, <2>2
<1>1. TypeOK'
  <2>1. gen' \in 1..(MaxDrops + 1) /\ DOMAIN inbox' = {}
    BY <1>a, <1>c, <1>g, BoundsAssumption DEF TypeOK
  <2>2. {page', left', bound', open', mediaReady', inRoom', wired', row', over'} \subseteq BOOLEAN
    BY <1>a, <1>g DEF TypeOK
  <2>3. {pending', consuming', remote', tiles', listed', stopped', news', excused'}
          \subseteq SUBSET Producers
    BY <1>a, <1>g DEF TypeOK
  <2>4. mine' \in 0..2 /\ inbox' \in Seq(Messages)
    BY <1>a, <1>c, EmptySeq DEF TypeOK
  <2> QED
    BY <1>a, <1>b, <1>g, <2>1, <2>2, <2>3, <2>4 DEF TypeOK
<1>2. TileInv' /\ ReadyInv' /\ CoverInv'
  BY <1>a, <1>b, <1>c, <1>d, <1>g
  DEF TileInv, ReadyInv, TypeOK, Entering, Preparing, Threads, CoverInv, Covered, Lists
<1>3. ConnInv'
  BY <1>f, <1>a, <1>b, <1>c, <1>d, <1>g DEF ConnInv, FlushNet, TypeOK, Threads
<1>4. ThreadInv'
  BY <1>a, <1>b, <1>c, <1>d, <1>g
  DEF ThreadInv, TypeOK, Early, Entering, Preparing, Idle, Threads, FlushNet
<1>5. MsgInv'
  BY <1>a, <1>b, <1>c, <1>d, <1>g DEF MsgInv, TypeOK, Threads
<1>6. ClaimInv'
  BY <1>f, <1>a, <1>b, <1>c, <1>d, <1>g
  DEF ClaimInv, Claims, TypeOK, Threads, FlushNet, ThreadInv
<1>7. EnterInv'
  BY <1>f, <1>a, <1>b, <1>c, <1>d, <1>g
  DEF EnterInv, EnterSent, TypeOK, Threads, FlushNet, ThreadInv, TaskInv, Same
<1>8. TaskInv'
  <2>1. \A k \in tasks' : k.st = "opening" => k.net = "none"
    BY <1>b DEF TaskInv, Same, FlushNet
  <2>2. \A k \in tasks' : k.g <= gen'
    BY <1>b, <1>g DEF TaskInv, Same, TypeOK, Tasks
  <2>3. \A p \in consuming' : p \in remote' \/ \E k \in tasks' : k.p = p /\ k.g = gen'
    BY <1>b, <1>g DEF TaskInv, Same
  <2> QED
    BY <1>c, <2>1, <2>2, <2>3 DEF TaskInv
<1>9. KnownInv'
  BY <1>a, <1>b, <1>c, <1>d, <1>g DEF KnownInv, KnownMsg, Known, Same
<1>10. GhostInv'
  BY <1>a, <1>b, <1>c, <1>d, <1>g DEF GhostInv, GoneOrHere, LeftAfter
<1> QED
  BY <1>1, <1>2, <1>3, <1>4, <1>5, <1>6, <1>7, <1>8, <1>9, <1>10

-----------------------------------------------------------------------------
(* signaling and the SFU *)

LEMMA ServeJoinKeeps ==
  ASSUME Inv, NEW t \in Threads, ServeJoin(t)
  PROVE  Inv'
<1> USE DEF Inv, ServeJoin, Goto, At, Answered, Faulty
<1>a. PICK m \in {[k |-> "joined"], [k |-> "join-error"]} : inbox' = Append(inbox, m)
  BY DEF Reply
<1>b. Longer(m) /\ m.k \in {"joined", "join-error"}
  BY <1>a, MessageForms, Appended DEF ConnInv
<1>c. /\ ~open /\ tiles = {} /\ \A k \in tasks : k.g # gen
      /\ \A i \in 1..Len(inbox) : inbox[i].k = "task" => inbox[i].t.g # gen
  BY DEF EnterInv, EnterSent
<1>d. faults' \in 0..MaxFaults
  BY BoundsAssumption DEF TypeOK
<1>e. inRoom' \in BOOLEAN
  BY DEF TypeOK
<1>f. \A i \in 1..Len(inbox') : \/ i \in 1..Len(inbox) /\ inbox'[i] = inbox[i]
                                \/ inbox'[i].k \in {"joined", "join-error"}
  BY <1>b DEF Longer
<1>1. TypeOK'
  BY BoundsAssumption, <1>b, <1>d, <1>e DEF TypeOK, Threads, Awaits, Idle, Nets, Longer, Reply
<1>2. ThreadInv' /\ TileInv' /\ ReadyInv'
  BY DEF ThreadInv, TypeOK, Early, Entering, Preparing, Idle, Threads, TileInv, ReadyInv
<1>3. ConnInv'
  BY <1>b DEF ConnInv, Longer, Reply
<1>g. \A u \in Threads : u # t => thread'[u] = thread[u]
  BY DEF TypeOK
<1>4. MsgInv'
  <2>1. \A i \in 1..Len(inbox) : inbox[i].k = "thread" => inbox[i].t # t /\ inbox[i].t \in Threads
    BY MessageParts, ElementOfSeq DEF MsgInv, ConnInv
  <2>2. inRoom => inRoom'
    OBVIOUS
  <2> QED
    BY <1>b, <1>g, <2>1, <2>2, LongerMsg
<1>5. ClaimInv'
  <2>1. ~Claims(t)'
    BY DEF Claims, TypeOK
  <2>2. \A u \in Threads : Claims(u)' => Claims(u)
    BY <1>b, <1>g, <2>1, LongerClaim
  <2> QED
    BY <2>2, NoMoreClaims
<1>6. EnterInv'
  BY <1>b DEF EnterInv, EnterSent, TypeOK, Threads, Longer
<1>7. TaskInv'
  BY <1>c DEF TaskInv
<1>8. KnownInv'
  BY <1>c, <1>f DEF KnownInv, KnownMsg, Known
<1>9. CoverInv'
  BY <1>b DEF CoverInv, Covered, Lists, TypeOK, Entering, Threads, Longer
<1>10. GhostInv'
  BY <1>b, <1>c, LongerGhost DEF ConnInv
<1> QED
  BY <1>1, <1>2, <1>3, <1>4, <1>5, <1>6, <1>7, <1>8, <1>9, <1>10

LEMMA ServeInitKeeps ==
  ASSUME Inv, NEW t \in Threads, ServeInit(t)
  PROVE  Inv'
<1> USE DEF Inv, ServeInit, Goto, At, Answered, Faulty
<1>a. PICK ok \in BOOLEAN : /\ (ok => inRoom /\ ~wired) /\ wired' = (wired \/ ok)
                           /\ inbox' = Append(inbox, [k |-> "thread", t |-> t, ok |-> ok, ps |-> {}])
  BY DEF Reply
<1> DEFINE m == [k |-> "thread", t |-> t, ok |-> ok, ps |-> {}]
<1>b. Longer(m) /\ m.k = "thread" /\ m.t = t /\ m.ok = ok /\ m.ps = {}
  BY <1>a, MessageForms, Appended DEF ConnInv, TypeOK
<1>c. \A i \in 1..Len(inbox) : inbox[i].k = "thread" => inbox[i].t # t
  BY DEF MsgInv
<1> HIDE DEF m
<1>1. TypeOK'
  BY BoundsAssumption, <1>a, <1>b DEF TypeOK, Threads, Awaits, Idle, Nets, Longer
<1>2. ThreadInv' /\ TileInv' /\ TaskInv' /\ ReadyInv'
  BY DEF ThreadInv, TypeOK, Early, Entering, Preparing, Idle, Threads, TileInv, TaskInv,
         ReadyInv
<1>3. ConnInv'
  BY <1>a, <1>b DEF ConnInv, Longer
<1>4. MsgInv'
  BY <1>a, <1>b, <1>c DEF MsgInv, TypeOK, Threads, Longer
<1>5. ClaimInv'
  BY <1>a, <1>b, <1>c DEF ClaimInv, Claims, TypeOK, Threads, Longer
<1>6. EnterInv'
  BY <1>a, <1>b, <1>c DEF EnterInv, EnterSent, TypeOK, Threads, Longer
<1>7. KnownInv'
  BY <1>a, <1>b, <1>c DEF KnownInv, KnownMsg, Known, Longer
<1>8. CoverInv'
  BY <1>a, <1>b, <1>c DEF CoverInv, Covered, Lists, TypeOK, Entering, Threads, Longer
<1>9. GhostInv'
  BY <1>b, LongerGhost DEF ConnInv
<1> QED
  BY <1>1, <1>2, <1>3, <1>4, <1>5, <1>6, <1>7, <1>8, <1>9

LEMMA ServeProduceKeeps ==
  ASSUME Inv, NEW t \in Threads, ServeProduce(t)
  PROVE  Inv'
<1> USE DEF Inv, ServeProduce, Goto, At, Answered, Faulty
<1>a. PICK ok \in BOOLEAN : /\ (ok => inRoom /\ wired) /\ mine' = IF ok THEN mine + 1 ELSE mine
                           /\ inbox' = Append(inbox, [k |-> "thread", t |-> t, ok |-> ok, ps |-> {}])
  BY DEF Reply
<1> DEFINE m == [k |-> "thread", t |-> t, ok |-> ok, ps |-> {}]
<1>b. Longer(m) /\ m.k = "thread" /\ m.t = t /\ m.ok = ok /\ m.ps = {}
  BY <1>a, MessageForms, Appended DEF ConnInv, TypeOK
<1>c. \A i \in 1..Len(inbox) : inbox[i].k = "thread" => inbox[i].t # t
  BY DEF MsgInv
<1> HIDE DEF m
<1>1. TypeOK'
  BY BoundsAssumption, <1>a, <1>b
  DEF TypeOK, Threads, Awaits, Idle, Nets, Longer, ClaimInv, Claims
<1>2. ThreadInv' /\ TileInv' /\ TaskInv' /\ ReadyInv'
  BY DEF ThreadInv, TypeOK, Early, Entering, Preparing, Idle, Threads, TileInv, TaskInv,
         ReadyInv
<1>3. ConnInv'
  BY <1>a, <1>b DEF ConnInv, Longer
<1>4. MsgInv'
  BY <1>a, <1>b, <1>c DEF MsgInv, TypeOK, Threads, Longer
<1>5. ClaimInv'
  BY <1>a, <1>b, <1>c DEF ClaimInv, Claims, TypeOK, Threads, Longer
<1>6. EnterInv'
  BY <1>a, <1>b, <1>c DEF EnterInv, EnterSent, TypeOK, Threads, Longer
<1>7. KnownInv'
  BY <1>a, <1>b, <1>c DEF KnownInv, KnownMsg, Known, Longer
<1>8. CoverInv'
  BY <1>a, <1>b, <1>c DEF CoverInv, Covered, Lists, TypeOK, Entering, Threads, Longer
<1>9. GhostInv'
  BY <1>b, LongerGhost DEF ConnInv
<1> QED
  BY <1>1, <1>2, <1>3, <1>4, <1>5, <1>6, <1>7, <1>8, <1>9

LEMMA ServeListKeeps ==
  ASSUME Inv, NEW t \in Threads, ServeList(t)
  PROVE  Inv'
<1> USE DEF Inv, ServeList, Goto, At, Answered, Faulty
<1>a. PICK ok \in BOOLEAN : /\ ok => inRoom
                           /\ inbox' = Append(inbox, [k |-> "thread", t |-> t, ok |-> ok, ps |-> listed])
  BY DEF Reply
<1> DEFINE m == [k |-> "thread", t |-> t, ok |-> ok, ps |-> listed]
<1>b. Longer(m) /\ m.k = "thread" /\ m.t = t /\ m.ok = ok /\ m.ps = listed
  BY <1>a, MessageForms, Appended DEF ConnInv, TypeOK
<1>c. \A i \in 1..Len(inbox) : inbox[i].k = "thread" => inbox[i].t # t
  BY DEF MsgInv
<1> HIDE DEF m
<1>1. TypeOK'
  BY BoundsAssumption, <1>a, <1>b DEF TypeOK, Threads, Awaits, Idle, Nets, Longer
<1>2. ThreadInv' /\ TileInv' /\ TaskInv' /\ ReadyInv'
  BY DEF ThreadInv, TypeOK, Early, Entering, Preparing, Idle, Threads, TileInv, TaskInv,
         ReadyInv
<1>3. ConnInv'
  BY <1>a, <1>b DEF ConnInv, Longer
<1>4. MsgInv'
  BY <1>a, <1>b, <1>c DEF MsgInv, TypeOK, Threads, Longer
<1>5. ClaimInv'
  BY <1>a, <1>b, <1>c DEF ClaimInv, Claims, TypeOK, Threads, Longer
<1>6. EnterInv'
  BY <1>a, <1>b, <1>c DEF EnterInv, EnterSent, TypeOK, Threads, Longer
<1>7. KnownInv'
  BY <1>a, <1>b, <1>c DEF KnownInv, KnownMsg, Known, Longer
<1>8. CoverInv'
  BY <1>a, <1>b, <1>c DEF CoverInv, Covered, Lists, TypeOK, Entering, Threads, Longer
<1>9. GhostInv'
  BY <1>b, LongerGhost DEF ConnInv
<1> QED
  BY <1>1, <1>2, <1>3, <1>4, <1>5, <1>6, <1>7, <1>8, <1>9

LEMMA ServeTaskKeeps ==
  ASSUME Inv, NEW t \in tasks, ServeTask(t)
  PROVE  Inv'
<1> USE DEF Inv, ServeTask, At, Faulty
<1> DEFINE to == [t EXCEPT !.net = "answered"]
           m(ok) == [k |-> "task", t |-> to, ok |-> ok]
<1>a. to \in Tasks /\ to.p = t.p /\ to.g = t.g /\ to.st = t.st /\ to.net = "answered" /\ t.net = "sent"
  BY DEF TypeOK, Tasks, Nets
<1> DEFINE can == inRoom /\ wired /\ t.p \in listed
<1>f. PICK ok \in BOOLEAN :
        /\ ok => can
        /\ IF ~ok /\ can THEN Faulty /\ excused' = excused \cup {t.p} ELSE UNCHANGED <<faults, excused>>
        /\ tasks' = (tasks \ {t}) \cup {to}
        /\ inbox' = Append(inbox, m(ok))
  BY DEF Reply
<1>b. /\ ok => inRoom /\ wired /\ t.p \in listed
      /\ ~ok => t.p \in excused' \/ ~(inRoom /\ wired /\ t.p \in listed)
      /\ excused \subseteq excused' /\ excused' \subseteq excused \cup {t.p}
      /\ faults' \in 0..MaxFaults
      /\ tasks' = (tasks \ {t}) \cup {to}
      /\ inbox' = Append(inbox, m(ok))
  BY <1>f, BoundsAssumption DEF TypeOK
<1>c. Longer(m(ok)) /\ m(ok).k = "task" /\ m(ok).t = to /\ m(ok).ok = ok
  BY <1>a, <1>b, MessageForms, Appended DEF ConnInv
<1>d. t.p \in Producers /\ t.st # "opening"
  BY TaskParts DEF TypeOK, TaskInv
<1> HIDE DEF to, m
<1>e. UNCHANGED <<store, left, bound, open, gen, mediaReady, pending, consuming, remote, tiles,
                  conn, thread, server, others, rest, drops>>
  OBVIOUS
<1> HIDE DEF ServeTask
<1>1. TypeOK'
  BY BoundsAssumption, <1>a, <1>b, <1>c, <1>d, <1>e
  DEF TypeOK, Threads, Awaits, Idle, Nets, Longer
<1>2. ConnInv'
  BY <1>a, <1>b, <1>c, <1>e DEF ConnInv, Longer
<1>3. ThreadInv'
  BY <1>b, <1>e DEF ThreadInv, TypeOK, Early, Entering, Preparing, Idle, Threads
<1>4. MsgInv'
  BY <1>a, <1>b, <1>c, <1>d, <1>e DEF MsgInv, TypeOK, Threads, Longer
<1>5. ClaimInv'
  BY <1>c, <1>e DEF ClaimInv, Claims, TypeOK, Threads, Longer
<1>6. EnterInv'
  BY <1>a, <1>b, <1>c, <1>e DEF EnterInv, EnterSent, TypeOK, Threads, Longer
<1>7. TileInv'
  BY <1>e DEF TileInv
<1>8. TaskInv'
  BY <1>a, <1>b, <1>d, <1>e DEF TaskInv
<1>9. ReadyInv'
  <2>1. excused = Producers => excused' = Producers
    BY <1>b, <1>d
  <2> QED
    BY <1>e, <2>1 DEF ReadyInv
<1>10. KnownInv'
  BY <1>a, <1>b, <1>c, <1>d, <1>e DEF KnownInv, KnownMsg, Known, Longer, TaskInv
<1>11. CoverInv'
  <2> SUFFICES ASSUME inRoom', NEW r \in listed' \ (excused' \cup stopped')
               PROVE  Covered(r)'
    BY DEF CoverInv
  <2>1. Covered(r)
    BY <1>a, <1>b, <1>c, <1>e DEF CoverInv, Longer
  <2>2. CASE r \in tiles \cup news \cup pending
    BY <2>2, <1>a, <1>b, <1>c, <1>e DEF Covered, Longer
  <2>3. ASSUME NEW i \in 1..Len(inbox), inbox[i].k = "new", inbox[i].p = r PROVE Covered(r)'
    BY <2>3, <1>a, <1>b, <1>c, <1>e DEF Covered, Longer
  <2>4. ASSUME NEW k \in tasks, k.p = r, k.g = gen PROVE Covered(r)'
    BY <2>4, <1>a, <1>b, <1>c, <1>e DEF Covered, Longer
  <2>5. ASSUME NEW u \in Threads, Lists(u, r) PROVE Covered(r)'
    BY <2>5, <1>a, <1>b, <1>c, <1>e DEF Covered, Lists, Entering, Longer
  <2> QED
    BY <2>1, <2>2, <2>3, <2>4, <2>5 DEF Covered
<1>12. GhostInv'
  <2>1. ASSUME inRoom', NEW r \in tiles' PROVE GoneOrHere(r, 0)'
    BY <2>1, <1>c, <1>e, LongerLeft DEF GhostInv, GoneOrHere, ConnInv, TypeOK
  <2>2. ASSUME NEW i \in 1..Len(inbox'), inbox'[i].k = "task", inbox'[i].ok
        PROVE  GoneOrHere(inbox[i].t.p, i)'
    BY <2>2, <1>a, <1>b, <1>c, <1>e DEF GhostInv, GoneOrHere, LeftAfter, Longer
  <2> QED
    BY <2>1, <2>2 DEF GhostInv
<1> QED
  BY <1>1, <1>2, <1>3, <1>4, <1>5, <1>6, <1>7, <1>8, <1>9, <1>10, <1>11, <1>12

-----------------------------------------------------------------------------
(* The other peers *)

LEMMA PublishKeeps ==
  ASSUME Inv, NEW p \in Producers, Publish(p)
  PROVE  Inv'
<1> USE DEF Inv, Publish, At
<1>1. TypeOK'
  BY BoundsAssumption DEF TypeOK, Threads, Awaits, Idle, Nets
<1>2. ConnInv' /\ ThreadInv' /\ MsgInv' /\ ClaimInv' /\ EnterInv' /\ TileInv' /\ TaskInv' /\
      ReadyInv' /\ KnownInv' /\ CoverInv' /\ GhostInv'
  BY DEF ConnInv, ThreadInv, TypeOK, Early, Entering, Preparing, Idle, Threads, MsgInv,
         ClaimInv, Claims, EnterInv, EnterSent, TileInv, TaskInv, ReadyInv, KnownInv, KnownMsg,
         Known, CoverInv, Covered, Lists, GhostInv, GoneOrHere, LeftAfter
<1> QED
  BY <1>1, <1>2

LEMMA AnnounceKeeps ==
  ASSUME Inv, NEW p \in Producers, Announce(p)
  PROVE  Inv'
<1> USE DEF Inv, Announce, At
<1> DEFINE m == [k |-> "new", p |-> p]
<1>a. m \in Messages /\ m.k = "new" /\ m.p = p
  BY MessageForms
<1>b. inbox' \in Seq(Messages) /\ \A i \in DOMAIN inbox' : inbox'[i] \in Messages
  BY <1>a, Appended, LenProperties DEF Longer, ConnInv, Tell, TypeOK
<1>c. \/ inRoom /\ Longer(m)
      \/ ~inRoom /\ inbox' = inbox
  BY <1>a, Appended DEF Tell, ConnInv
<1> HIDE DEF m
<1>1. TypeOK'
  BY BoundsAssumption, <1>b DEF TypeOK, Threads, Awaits, Idle, Nets
<1>2. ThreadInv' /\ TileInv' /\ TaskInv' /\ ReadyInv'
  BY DEF ThreadInv, TypeOK, Early, Entering, Preparing, Idle, Threads, TileInv, TaskInv,
         ReadyInv
<1>3. ConnInv'
  BY <1>b, <1>c DEF ConnInv, Longer
<1>4. MsgInv'
  <2>1. CASE inbox' = inbox
    BY <2>1 DEF MsgInv
  <2>2. CASE Longer(m)
    BY <1>a, <2>2, LongerMsg
  <2> QED
    BY <1>c, <2>1, <2>2
<1>5. ClaimInv'
  <2>1. CASE inbox' = inbox
    BY <2>1 DEF ClaimInv, Claims
  <2>2. CASE Longer(m)
    BY <1>a, <2>2, LongerClaim, NoMoreClaims
  <2> QED
    BY <1>c, <2>1, <2>2
<1>6. EnterInv'
  BY <1>a, <1>c DEF EnterInv, EnterSent, TypeOK, Threads, Longer
<1>7. KnownInv'
  BY <1>a, <1>c DEF KnownInv, KnownMsg, Known, Longer
<1>8. CoverInv'
  <2> SUFFICES ASSUME inRoom', NEW r \in listed' \ (excused' \cup stopped')
               PROVE  Covered(r)'
    BY DEF CoverInv
  <2>1. Covered(r)
    BY <1>a, <1>c DEF CoverInv, Longer
  <2>2. CASE r \in tiles \cup news \cup pending
    BY <2>2, <1>a, <1>c DEF Covered, Longer
  <2>3. ASSUME NEW i \in 1..Len(inbox), inbox[i].k = "new", inbox[i].p = r PROVE Covered(r)'
    BY <2>3, <1>a, <1>c DEF Covered, Longer
  <2>4. ASSUME NEW k \in tasks, k.p = r, k.g = gen PROVE Covered(r)'
    BY <2>4, <1>a, <1>c DEF Covered, Longer
  <2>5. ASSUME NEW u \in Threads, Lists(u, r) PROVE Covered(r)'
    BY <2>5, <1>a, <1>c DEF Covered, Lists, Entering, Longer
  <2> QED
    BY <2>1, <2>2, <2>3, <2>4, <2>5 DEF Covered
<1>9. GhostInv'
  <2>1. CASE inbox' = inbox
    BY <2>1 DEF GhostInv, GoneOrHere, LeftAfter
  <2>2. CASE Longer(m)
    BY <1>a, <2>2, LongerGhost DEF ConnInv
  <2> QED
    BY <1>c, <2>1, <2>2
<1> QED
  BY <1>1, <1>2, <1>3, <1>4, <1>5, <1>6, <1>7, <1>8, <1>9

LEMMA StopShareKeeps ==
  ASSUME Inv, NEW p \in Producers, StopShare(p)
  PROVE  Inv'
<1> USE DEF Inv, StopShare, At
<1> DEFINE m == [k |-> "closed", p |-> p]
<1>a. m \in Messages /\ m.k = "closed" /\ m.p = p
  BY MessageForms
<1>b. inbox' \in Seq(Messages) /\ \A i \in DOMAIN inbox' : inbox'[i] \in Messages
  BY <1>a, Appended, LenProperties DEF Longer, ConnInv, Tell, TypeOK
<1>c. \/ inRoom /\ Longer(m)
      \/ ~inRoom /\ inbox' = inbox
  BY <1>a, Appended DEF Tell, ConnInv
<1> HIDE DEF m
<1>1. TypeOK'
  BY BoundsAssumption, <1>b DEF TypeOK, Threads, Awaits, Idle, Nets
<1>2. ThreadInv' /\ TileInv' /\ TaskInv' /\ ReadyInv'
  BY DEF ThreadInv, TypeOK, Early, Entering, Preparing, Idle, Threads, TileInv, TaskInv,
         ReadyInv
<1>3. ConnInv'
  BY <1>b, <1>c DEF ConnInv, Longer
<1>4. MsgInv'
  <2>1. CASE inbox' = inbox
    BY <2>1 DEF MsgInv
  <2>2. CASE Longer(m)
    BY <1>a, <2>2, LongerMsg
  <2> QED
    BY <1>c, <2>1, <2>2
<1>5. ClaimInv'
  <2>1. CASE inbox' = inbox
    BY <2>1 DEF ClaimInv, Claims
  <2>2. CASE Longer(m)
    BY <1>a, <2>2, LongerClaim, NoMoreClaims
  <2> QED
    BY <1>c, <2>1, <2>2
<1>6. EnterInv'
  BY <1>a, <1>c DEF EnterInv, EnterSent, TypeOK, Threads, Longer
<1>7. KnownInv'
  BY <1>a, <1>c DEF KnownInv, KnownMsg, Known, Longer
<1>8. CoverInv'
  <2> SUFFICES ASSUME inRoom', NEW r \in listed' \ (excused' \cup stopped')
               PROVE  Covered(r)'
    BY DEF CoverInv
  <2>1. Covered(r)
    BY DEF CoverInv
  <2>2. CASE r \in tiles \cup news \cup pending
    BY <2>2 DEF Covered
  <2>3. ASSUME NEW i \in 1..Len(inbox), inbox[i].k = "new", inbox[i].p = r PROVE Covered(r)'
    BY <2>3, <1>a, <1>c DEF Covered, Longer
  <2>4. ASSUME NEW k \in tasks, k.p = r, k.g = gen PROVE Covered(r)'
    BY <2>4 DEF Covered
  <2>5. ASSUME NEW u \in Threads, Lists(u, r) PROVE Covered(r)'
    BY <2>5, <1>a, <1>c DEF Covered, Lists, Entering, Longer
  <2> QED
    BY <2>1, <2>2, <2>3, <2>4, <2>5 DEF Covered
<1>9. GhostInv'
  <2>1. CASE inbox' = inbox
    BY <2>1 DEF GhostInv, GoneOrHere, LeftAfter
  <2>2. CASE Longer(m)
    BY <1>a, <2>2, LongerGhost DEF ConnInv
  <2> QED
    BY <1>c, <2>1, <2>2
<1> QED
  BY <1>1, <1>2, <1>3, <1>4, <1>5, <1>6, <1>7, <1>8, <1>9

LEMMA PeerLeavesKeeps ==
  ASSUME Inv, NEW q \in Peers, PeerLeaves(q)
  PROVE  Inv'
<1> USE DEF Inv, PeerLeaves, At
<1>1. TypeOK'
  BY BoundsAssumption DEF TypeOK, Threads, Awaits, Idle, Nets
<1>2. ConnInv' /\ ThreadInv' /\ MsgInv' /\ ClaimInv' /\ EnterInv' /\ TileInv' /\ TaskInv' /\
      ReadyInv' /\ KnownInv' /\ CoverInv' /\ GhostInv'
  BY DEF ConnInv, ThreadInv, TypeOK, Early, Entering, Preparing, Idle, Threads, MsgInv,
         ClaimInv, Claims, EnterInv, EnterSent, TileInv, TaskInv, ReadyInv, KnownInv, KnownMsg,
         Known, CoverInv, Covered, Lists, GhostInv, GoneOrHere, LeftAfter
<1> QED
  BY <1>1, <1>2

LEMMA AnnounceLeaveKeeps ==
  ASSUME Inv, NEW q \in Peers, AnnounceLeave(q)
  PROVE  Inv'
<1> USE DEF Inv, AnnounceLeave, At
<1> DEFINE m == [k |-> "left", q |-> q]
<1>a. m \in Messages /\ m.k = "left" /\ m.q = q
  BY MessageForms
<1>b. inbox' \in Seq(Messages) /\ \A i \in DOMAIN inbox' : inbox'[i] \in Messages
  BY <1>a, Appended, LenProperties DEF Longer, ConnInv, Tell, TypeOK
<1>c. \/ inRoom /\ Longer(m)
      \/ ~inRoom /\ inbox' = inbox
  BY <1>a, Appended DEF Tell, ConnInv
<1> HIDE DEF m
<1>1. TypeOK'
  BY BoundsAssumption, <1>b DEF TypeOK, Threads, Awaits, Idle, Nets
<1>2. ThreadInv' /\ TileInv' /\ TaskInv' /\ ReadyInv'
  BY DEF ThreadInv, TypeOK, Early, Entering, Preparing, Idle, Threads, TileInv, TaskInv,
         ReadyInv
<1>3. ConnInv'
  BY <1>b, <1>c DEF ConnInv, Longer
<1>4. MsgInv'
  <2>1. CASE inbox' = inbox
    BY <2>1 DEF MsgInv
  <2>2. CASE Longer(m)
    BY <1>a, <2>2, LongerMsg
  <2> QED
    BY <1>c, <2>1, <2>2
<1>5. ClaimInv'
  <2>1. CASE inbox' = inbox
    BY <2>1 DEF ClaimInv, Claims
  <2>2. CASE Longer(m)
    BY <1>a, <2>2, LongerClaim, NoMoreClaims
  <2> QED
    BY <1>c, <2>1, <2>2
<1>6. EnterInv'
  BY <1>a, <1>c DEF EnterInv, EnterSent, TypeOK, Threads, Longer
<1>7. KnownInv'
  BY <1>a, <1>c DEF KnownInv, KnownMsg, Known, Longer
<1>8. CoverInv'
  <2> SUFFICES ASSUME inRoom', NEW r \in listed' \ (excused' \cup stopped')
               PROVE  Covered(r)'
    BY DEF CoverInv
  <2>1. Covered(r)
    BY <1>a, <1>c DEF CoverInv, Longer
  <2>2. CASE r \in tiles \cup news \cup pending
    BY <2>2, <1>a, <1>c DEF Covered, Longer
  <2>3. ASSUME NEW i \in 1..Len(inbox), inbox[i].k = "new", inbox[i].p = r PROVE Covered(r)'
    BY <2>3, <1>a, <1>c DEF Covered, Longer
  <2>4. ASSUME NEW k \in tasks, k.p = r, k.g = gen PROVE Covered(r)'
    BY <2>4, <1>a, <1>c DEF Covered, Longer
  <2>5. ASSUME NEW u \in Threads, Lists(u, r) PROVE Covered(r)'
    BY <2>5, <1>a, <1>c DEF Covered, Lists, Entering, Longer
  <2> QED
    BY <2>1, <2>2, <2>3, <2>4, <2>5 DEF Covered
<1>9. GhostInv'
  <2>1. ASSUME inRoom', NEW r \in tiles' PROVE GoneOrHere(r, 0)'
    BY <2>1, <1>a, <1>c DEF GhostInv, GoneOrHere, LeftAfter, Longer
  <2>2. ASSUME NEW i \in 1..Len(inbox'), inbox'[i].k = "task", inbox'[i].ok
        PROVE  GoneOrHere(inbox[i].t.p, i)'
    <3>1. Len(inbox) \in Nat
      BY LenProperties DEF ConnInv
    <3>2. i \in 1..Len(inbox) /\ inbox'[i] = inbox[i]
      BY <2>2, <1>a, <1>c DEF Longer
    <3>3. inRoom /\ Longer(m)
      BY <2>2, <3>2, <1>c DEF MsgInv
    <3>4. GoneOrHere(inbox[i].t.p, i)
      BY <2>2, <3>2 DEF GhostInv
    <3> QED
      BY <3>1, <3>2, <3>3, <3>4, <1>a DEF GoneOrHere, LeftAfter, Longer
  <2> QED
    BY <2>1, <2>2 DEF GhostInv
<1> QED
  BY <1>1, <1>2, <1>3, <1>4, <1>5, <1>6, <1>7, <1>8, <1>9

-----------------------------------------------------------------------------
(* Messages to the session *)

LEMMA HearJoinedKeeps ==
  ASSUME Inv, HearJoined
  PROVE  Inv'
<1> USE DEF Inv, HearJoined, At, Others
<1>a. /\ Shorter /\ 1 \in 1..Len(inbox) /\ Head(inbox) = inbox[1] /\ inbox[1] \in Messages
      /\ inbox[1].k = "joined" /\ conn = "up"
  BY Popped DEF Heard, Pop, Head1, ConnInv
<1>b. \A i \in 1..Len(inbox) : inbox[i].k = "thread" =>
          inbox[i].t \in Threads /\ thread[inbox[i].t].net = "answered"
            /\ thread[inbox[i].t].pc \in {"init", "produce", "list"}
  BY MessageParts, LenProperties DEF MsgInv, TypeOK, ConnInv
<1>1. TypeOK'
  BY BoundsAssumption, <1>a DEF TypeOK, Threads, Awaits, Idle, Nets, Shorter
<1>2. ThreadInv' /\ TileInv' /\ TaskInv' /\ ReadyInv'
  BY DEF ThreadInv, TypeOK, Early, Entering, Preparing, Idle, Threads, TileInv, TaskInv,
         ReadyInv
<1>3. ConnInv'
  BY <1>a DEF ConnInv, Shorter
<1>4. MsgInv'
  BY <1>a, <1>b, ShorterMsg DEF MsgInv, TypeOK, Threads
<1>5. ClaimInv'
  BY <1>a DEF ClaimInv, Claims, TypeOK, Threads, Shorter
<1>6. EnterInv'
  BY <1>a DEF EnterInv, EnterSent, TypeOK, Threads, Shorter
<1>7. KnownInv'
  BY <1>a, ShorterKnown DEF KnownInv, KnownMsg, Known
<1>8. CoverInv'
  <2> SUFFICES ASSUME inRoom', NEW r \in listed' \ (excused' \cup stopped')
               PROVE  Covered(r)'
    BY DEF CoverInv
  <2>1. Covered(r)
    BY <1>a DEF CoverInv, Shorter
  <2>2. CASE r \in tiles \cup news \cup pending
    BY <2>2, <1>a DEF Covered, Shorter
  <2>3. ASSUME NEW i \in 1..Len(inbox), inbox[i].k = "new", inbox[i].p = r PROVE Covered(r)'
    BY <2>3, <1>a DEF Covered, Shorter
  <2>4. ASSUME NEW k \in tasks, k.p = r, k.g = gen PROVE Covered(r)'
    BY <2>4, <1>a DEF Covered, Shorter
  <2>5. ASSUME NEW u \in Threads, Lists(u, r) PROVE Covered(r)'
    BY <2>5, <1>a DEF Covered, Lists, Entering, Shorter
  <2> QED
    BY <2>1, <2>2, <2>3, <2>4, <2>5 DEF Covered
<1>9. GhostInv'
  <2>1. ASSUME inRoom', NEW r \in tiles' PROVE GoneOrHere(r, 0)'
    BY <2>1, <1>a DEF GhostInv, GoneOrHere, LeftAfter, Shorter
  <2>2. ASSUME NEW i \in 1..Len(inbox'), inbox'[i].k = "task", inbox'[i].ok
        PROVE  GoneOrHere(inbox[i].t.p, i)'
    BY <2>2, <1>a, ShorterGhost DEF ConnInv
  <2> QED
    BY <2>1, <2>2 DEF GhostInv
<1> QED
  BY <1>1, <1>2, <1>3, <1>4, <1>5, <1>6, <1>7, <1>8, <1>9

LEMMA HearJoinErrorKeeps ==
  ASSUME Inv, HearJoinError
  PROVE  Inv'
<1> DEFINE ts == {t \in Threads : At(t, "enter")}
<1>1. /\ TypeOK /\ ts \in SUBSET Threads /\ Throw(ts, Tail(inbox))
      /\ UNCHANGED <<page, left, gen, mediaReady, pending, consuming, remote, tiles,
                     others, row, over, drops, faults>>
  BY DEF Inv, HearJoinError, Others
<1>2. inbox # <<>> /\ Head(inbox).k = "join-error" /\ inbox \in Seq(Messages)
  BY DEF HearJoinError, Heard, Head1, Inv, ConnInv
<1>3. Head(inbox) = inbox[1]
  BY <1>2
<1>4. CASE "join" \in ts
  <2>1. ~At("join", "done") /\ row' \in BOOLEAN /\ faults' \in 0..MaxFaults
    BY <1>1, <1>4 DEF TypeOK, At
  <2> HIDE DEF ts
  <2> QED
    BY <1>1, <1>4, <2>1, JoinFails
<1>5. CASE "join" \notin ts /\ "rejoin" \in ts
  <2>1. ts = {"rejoin"} /\ At("rejoin", "enter") /\ ~At("rejoin", "none")
    BY <1>5 DEF Threads, At
  <2> HIDE DEF ts
  <2> QED
    BY <1>1, <1>2, <1>3, <2>1, RejoinFails
<1>6. CASE "join" \notin ts /\ "rejoin" \notin ts
  <2>1. /\ inbox' = Tail(inbox) /\ UNCHANGED <<open, bound, conn, tasks, server, byes, phase, excused>>
        /\ thread' = [t \in Threads |-> thread[t]]
    <3> HIDE DEF ts
    <3>1. ts = {}
      BY <1>1, <1>6 DEF Threads
    <3>2. /\ inbox' = Tail(inbox) /\ UNCHANGED <<open, bound, conn, tasks, server, byes, phase, excused>>
          /\ thread' = [t \in Threads |->
                         CASE t \notin ts -> thread[t]
                           [] t \in ts \cap {"join"} -> [pc |-> "failing", net |-> "none"]
                           [] t \in ts \ {"join"} -> [pc |-> "none", net |-> "none"]]
      BY <1>1, <1>6 DEF Throw
    <3> QED
      BY <3>1, <3>2
  <2>2. thread' = thread
    BY <1>1, <2>1 DEF TypeOK
  <2>3. Shorter /\ inbox[1].k = "join-error"
    BY <1>2, <2>1, Popped
  <2> QED
    BY <1>1, <2>1, <2>2, <2>3, PopKeeps
<1> QED
  BY <1>4, <1>5, <1>6

\* The message of t is taken, and t goes on.
LEMMA HeardThread ==
  ASSUME Inv, NEW t \in Threads, Heard("thread"), Head1.t = t
  PROVE  /\ inbox # <<>> /\ conn = "up" /\ inbox \in Seq(Messages)
         /\ Head(inbox) = inbox[1] /\ 1 \in 1..Len(inbox) /\ inbox[1] \in Messages
         /\ inbox[1].k = "thread" /\ inbox[1].t = t /\ inbox[1].ok \in BOOLEAN
         /\ inbox[1].ps \in SUBSET Producers /\ \A p \in inbox[1].ps : Known(p)
         /\ thread[t].net = "answered" /\ thread[t].pc \in {"init", "produce", "list"}
         /\ inbox' = Tail(inbox) => Shorter
         /\ \A i \in 1..Len(inbox) : i # 1 /\ inbox[i].k = "thread" => inbox[i].t # t
<1>1. /\ inbox # <<>> /\ conn = "up" /\ inbox \in Seq(Messages)
      /\ Head(inbox).k = "thread" /\ Head(inbox).t = t
  BY DEF Heard, Head1, Inv, ConnInv
<1>2. Head(inbox) = inbox[1] /\ 1 \in 1..Len(inbox) /\ inbox[1] \in Messages
  BY <1>1, EmptySeq, HeadTailProperties, ElementOfSeq
<1>3. inbox' = Tail(inbox) => Shorter
  BY <1>1, Popped
<1>4. inbox[1].ok \in BOOLEAN /\ inbox[1].ps \in SUBSET Producers
  BY <1>1, <1>2, MessageParts
<1>5. \A p \in inbox[1].ps : Known(p)
  BY <1>1, <1>2 DEF Inv, KnownInv, KnownMsg
<1>6. /\ thread[t].net = "answered" /\ thread[t].pc \in {"init", "produce", "list"}
      /\ \A i \in 1..Len(inbox) : i # 1 /\ inbox[i].k = "thread" => inbox[i].t # t
  BY <1>1, <1>2 DEF Inv, MsgInv
<1> QED
  BY <1>1, <1>2, <1>3, <1>4, <1>5, <1>6

\* SfuClient.init is answered: the transports exist on both sides.
LEMMA HearInitKeeps ==
  ASSUME Inv, NEW t \in Threads, HearThread(t), At(t, "init"), Head1.ok
  PROVE  Inv'
<1>a. /\ inbox # <<>> /\ conn = "up" /\ 1 \in 1..Len(inbox)
      /\ inbox[1].k = "thread" /\ inbox[1].t = t /\ inbox[1].ok
      /\ \A i \in 1..Len(inbox) : i # 1 /\ inbox[i].k = "thread" => inbox[i].t # t
  BY HeardThread DEF HearThread, Head1
<1>b. /\ inbox' = Tail(inbox) /\ open' = TRUE
      /\ thread' = [thread EXCEPT ![t] = [pc |-> "produce", net |-> "sent"]]
      /\ UNCHANGED <<phase, page, left, bound, gen, mediaReady, pending, consuming, remote, tasks,
                     tiles, conn, server, others, rest, excused, drops, faults>>
  BY DEF HearThread, Pop, Goto, Others, At
<1>c. Shorter
  BY <1>b, HeardThread DEF HearThread
<1>d. Claims(t) /\ wired /\ inRoom
  BY <1>a DEF Claims, Inv, ClaimInv, ConnInv
<1> USE DEF Inv, At
<1>1. TypeOK'
  BY BoundsAssumption, <1>a, <1>b, <1>c, <1>d DEF TypeOK, Threads, Awaits, Idle, Nets, Shorter
<1>2. ThreadInv' /\ TileInv' /\ TaskInv' /\ ReadyInv'
  BY <1>a, <1>b, <1>c, <1>d
  DEF ThreadInv, TypeOK, Early, Entering, Preparing, Idle, Threads, TileInv, TaskInv, ReadyInv
<1>3. ConnInv'
  BY <1>a, <1>b, <1>c, <1>d DEF ConnInv, Shorter, Emitted
<1>4. MsgInv'
  BY ShorterMsg, <1>a, <1>b, <1>c, <1>d DEF MsgInv, TypeOK, Threads
<1>5. ClaimInv'
  BY ShorterClaim, <1>a, <1>b, <1>c, <1>d DEF ClaimInv, Claims, TypeOK, Threads
<1>6. EnterInv'
  BY <1>a, <1>b, <1>c, <1>d DEF EnterInv, EnterSent, TypeOK, Threads
<1>7. KnownInv'
  BY ShorterKnown, <1>a, <1>b, <1>c, <1>d DEF KnownInv, KnownMsg, Known
<1>8. CoverInv'
  <2> SUFFICES ASSUME inRoom', NEW r \in listed' \ (excused' \cup stopped')
               PROVE  Covered(r)'
    BY DEF CoverInv
  <2>1. Covered(r)
    BY <1>a, <1>b, <1>c, <1>d DEF CoverInv, Shorter
  <2>2. CASE r \in tiles \cup news \cup pending
    BY <2>2, <1>a, <1>b, <1>c, <1>d DEF Covered, Shorter
  <2>3. ASSUME NEW i \in 1..Len(inbox), inbox[i].k = "new", inbox[i].p = r PROVE Covered(r)'
    <3>1. i # 1 /\ Shorter
      BY <2>3, <1>a, <1>c
    <3>2. PICK j \in 1..Len(inbox') : inbox'[j] = inbox[i]
      BY <3>1, ShorterFind
    <3> QED
      BY <2>3, <3>2 DEF Covered
  <2>4. ASSUME NEW k \in tasks, k.p = r, k.g = gen PROVE Covered(r)'
    BY <2>4, <1>a, <1>b, <1>c, <1>d DEF Covered, Shorter
  <2>5. ASSUME NEW u \in Threads, Lists(u, r) PROVE Covered(r)'
    BY <2>5, <1>a, <1>b, <1>c, <1>d DEF Covered, Lists, Entering, Shorter, TypeOK
  <2> QED
    BY <2>1, <2>2, <2>3, <2>4, <2>5 DEF Covered
<1>9. GhostInv'
  <2>1. ASSUME inRoom', NEW r \in tiles' PROVE GoneOrHere(r, 0)'
    BY <2>1, <1>a, <1>b, <1>c, <1>d, ShorterStill DEF GhostInv, ConnInv, TypeOK
  <2>2. ASSUME NEW i \in 1..Len(inbox'), inbox'[i].k = "task", inbox'[i].ok
        PROVE  GoneOrHere(inbox[i].t.p, i)'
    BY <2>2, <1>a, <1>b, <1>c, <1>d, ShorterGhost DEF ConnInv
  <2> QED
    BY <2>1, <2>2 DEF GhostInv
<1> QED
  BY <1>1, <1>2, <1>3, <1>4, <1>5, <1>6, <1>7, <1>8, <1>9

\* produce is answered, well or not.
LEMMA HearProduceKeeps ==
  ASSUME Inv, NEW t \in Threads, HearThread(t), At(t, "produce")
  PROVE  Inv'
<1>a. /\ inbox # <<>> /\ conn = "up" /\ 1 \in 1..Len(inbox)
      /\ inbox[1].k = "thread" /\ inbox[1].t = t
      /\ \A i \in 1..Len(inbox) : i # 1 /\ inbox[i].k = "thread" => inbox[i].t # t
  BY HeardThread DEF HearThread, Head1
<1>b. /\ inbox' = Tail(inbox)
      /\ thread' = [thread EXCEPT ![t] = [pc |-> "list", net |-> "sent"]]
      /\ UNCHANGED <<phase, page, left, bound, open, gen, mediaReady, pending, consuming, remote, tasks,
                     tiles, conn, server, others, rest, excused, drops, faults>>
  BY DEF HearThread, Pop, Goto, Others, At
<1>c. Shorter
  BY <1>b, HeardThread DEF HearThread
<1> USE DEF Inv, At
<1>1. TypeOK'
  BY BoundsAssumption, <1>a, <1>b, <1>c DEF TypeOK, Threads, Awaits, Idle, Nets, Shorter
<1>2. ThreadInv' /\ TileInv' /\ TaskInv' /\ ReadyInv'
  BY <1>a, <1>b, <1>c
  DEF ThreadInv, TypeOK, Early, Entering, Preparing, Idle, Threads, TileInv, TaskInv, ReadyInv
<1>3. ConnInv'
  BY <1>a, <1>b, <1>c DEF ConnInv, Shorter, Emitted
<1>4. MsgInv'
  BY ShorterMsg, <1>a, <1>b, <1>c DEF MsgInv, TypeOK, Threads
<1>5. ClaimInv'
  BY ShorterClaim, <1>a, <1>b, <1>c DEF ClaimInv, Claims, TypeOK, Threads
<1>6. EnterInv'
  BY ShorterEnter, <1>a, <1>b, <1>c DEF EnterInv, EnterSent, TypeOK, Threads
<1>7. KnownInv'
  BY ShorterKnown, <1>a, <1>b, <1>c DEF KnownInv, KnownMsg, Known
<1>8. CoverInv'
  <2> SUFFICES ASSUME inRoom', NEW r \in listed' \ (excused' \cup stopped')
               PROVE  Covered(r)'
    BY DEF CoverInv
  <2>1. Covered(r)
    BY <1>a, <1>b, <1>c DEF CoverInv, Shorter
  <2>2. CASE r \in tiles \cup news \cup pending
    BY <2>2, <1>a, <1>b, <1>c DEF Covered, Shorter
  <2>3. ASSUME NEW i \in 1..Len(inbox), inbox[i].k = "new", inbox[i].p = r PROVE Covered(r)'
    <3>1. i # 1 /\ Shorter
      BY <2>3, <1>a, <1>c
    <3>2. PICK j \in 1..Len(inbox') : inbox'[j] = inbox[i]
      BY <3>1, ShorterFind
    <3> QED
      BY <2>3, <3>2 DEF Covered
  <2>4. ASSUME NEW k \in tasks, k.p = r, k.g = gen PROVE Covered(r)'
    BY <2>4, <1>a, <1>b, <1>c DEF Covered, Shorter
  <2>5. ASSUME NEW u \in Threads, Lists(u, r) PROVE Covered(r)'
    BY <2>5, <1>a, <1>b, <1>c DEF Covered, Lists, Entering, Shorter, TypeOK
  <2> QED
    BY <2>1, <2>2, <2>3, <2>4, <2>5 DEF Covered
<1>9. GhostInv'
  <2>1. ASSUME inRoom', NEW r \in tiles' PROVE GoneOrHere(r, 0)'
    BY <2>1, <1>a, <1>b, <1>c, ShorterStill DEF GhostInv, ConnInv, TypeOK
  <2>2. ASSUME NEW i \in 1..Len(inbox'), inbox'[i].k = "task", inbox'[i].ok
        PROVE  GoneOrHere(inbox[i].t.p, i)'
    BY <2>2, <1>a, <1>b, <1>c, ShorterGhost DEF ConnInv
  <2> QED
    BY <2>1, <2>2 DEF GhostInv
<1> QED
  BY <1>1, <1>2, <1>3, <1>4, <1>5, <1>6, <1>7, <1>8, <1>9

\* get-producers is answered: they are consumed.
LEMMA HearListKeeps ==
  ASSUME Inv, NEW t \in Threads, HearThread(t), At(t, "list"), Head1.ok
  PROVE  Inv'
<1> DEFINE ps == inbox[1].ps
<1>a. /\ inbox # <<>> /\ conn = "up" /\ 1 \in 1..Len(inbox)
      /\ inbox[1].k = "thread" /\ inbox[1].t = t /\ inbox[1].ok
      /\ \A i \in 1..Len(inbox) : i # 1 /\ inbox[i].k = "thread" => inbox[i].t # t
      /\ Head(inbox) = inbox[1] /\ ps \in SUBSET Producers /\ \A p \in ps : Known(p)
  BY HeardThread DEF HearThread, Head1
<1>b. /\ inbox' = Tail(inbox) /\ ConsumeAll(ps, t, tasks)
      /\ thread' = [thread EXCEPT ![t] = [pc |-> "consume", net |-> "none"]]
      /\ UNCHANGED <<phase, page, left, bound, open, gen, mediaReady, pending, remote,
                     tiles, conn, server, others, rest, excused, drops, faults>>
  BY <1>a DEF HearThread, Pop, Goto, Others, At, Head1
<1>c. Shorter
  BY <1>b, HeardThread DEF HearThread
<1>d. /\ tasks \subseteq tasks' /\ tasks' \subseteq Tasks /\ consuming' \subseteq Producers
      /\ \A k \in tasks' \ tasks : /\ k.p \in ps /\ k.g = gen /\ k.st = "asked"
                                  /\ k.net = Emitted /\ open
      /\ consuming \subseteq consuming' /\ consuming' \subseteq consuming \cup ps
      /\ open =>
            \A p \in ps : p \in consuming \/ \E k \in tasks' : k.p = p /\ k.g = gen
      /\ ~open => consuming' = consuming /\ tasks' = tasks
  <2>1. TypeOK /\ ps \in SUBSET Producers /\ t \in Threads \cup {"event"} /\ ConsumeAll(ps, t, tasks)
    BY <1>a, <1>b DEF Inv
  <2> HIDE DEF ps
  <2> QED
    BY <2>1, ConsumeFacts
<1> HIDE DEF ps
<1> USE DEF Inv, At
<1>1. TypeOK'
  BY <1>a, <1>b, <1>c, <1>d DEF TypeOK, Threads, Awaits, Idle, Nets
<1>2. ThreadInv' /\ TileInv' /\ ReadyInv'
  BY <1>a, <1>b, <1>c, <1>d
  DEF ThreadInv, TypeOK, Early, Entering, Preparing, Idle, Threads, TileInv, ReadyInv
<1>3. ConnInv'
  BY <1>a, <1>b, <1>c, <1>d DEF ConnInv, Shorter, Emitted
<1>4. MsgInv'
  BY ShorterMsg, <1>a, <1>b, <1>c, <1>d DEF MsgInv, TypeOK, Threads
<1>5. ClaimInv'
  BY ShorterClaim, <1>a, <1>b, <1>c, <1>d DEF ClaimInv, Claims, TypeOK, Threads
<1>6. EnterInv'
  BY ShorterEnter, <1>a, <1>b, <1>c, <1>d DEF EnterInv, EnterSent, TypeOK, Threads
<1>7. TaskInv'
  BY <1>a, <1>b, <1>c, <1>d DEF TaskInv, Emitted, TypeOK
<1>8. KnownInv'
  BY ShorterKnown, <1>a, <1>b, <1>c, <1>d DEF KnownInv, KnownMsg, Known
<1>9. CoverInv'
  <2> SUFFICES ASSUME inRoom', NEW r \in listed' \ (excused' \cup stopped')
               PROVE  Covered(r)'
    BY DEF CoverInv
  <2>1. Covered(r)
    BY <1>a, <1>b, <1>c, <1>d DEF CoverInv, Shorter
  <2>2. CASE r \in tiles \cup news \cup pending
    BY <2>2, <1>a, <1>b, <1>c, <1>d DEF Covered, Shorter
  <2>3. ASSUME NEW i \in 1..Len(inbox), inbox[i].k = "new", inbox[i].p = r PROVE Covered(r)'
    <3>1. i # 1 /\ Shorter
      BY <2>3, <1>a, <1>c
    <3>2. PICK j \in 1..Len(inbox') : inbox'[j] = inbox[i]
      BY <3>1, ShorterFind
    <3> QED
      BY <2>3, <3>2 DEF Covered
  <2>4. ASSUME NEW k \in tasks, k.p = r, k.g = gen PROVE Covered(r)'
    BY <2>4, <1>a, <1>b, <1>c, <1>d DEF Covered, Shorter
  <2>5. ASSUME NEW u \in Threads, Lists(u, r) PROVE Covered(r)'
    <3>1. CASE u # t
      BY <2>5, <3>1, <1>a, <1>b, <1>c DEF Covered, Lists, Entering, Shorter, TypeOK
    <3>2. CASE u = t
      <4>1. r \in ps
        BY <2>5, <3>2, <1>a DEF Lists, Entering, ps
      <4>2. CASE open
        <5>1. r \in remote => r \in tiles'
          BY <1>a, <1>b DEF TileInv
        <5> QED
          BY <4>1, <4>2, <5>1, <1>b, <1>d DEF Covered, TaskInv
      <4>3. CASE ~open
        BY <4>3, <1>a, <1>b, <1>d DEF ReadyInv, Covered, Lists, Entering, TypeOK
      <4> QED
        BY <4>2, <4>3
    <3> QED
      BY <3>1, <3>2
  <2> QED
    BY <2>1, <2>2, <2>3, <2>4, <2>5 DEF Covered
<1>10. GhostInv'
  <2>1. ASSUME inRoom', NEW r \in tiles' PROVE GoneOrHere(r, 0)'
    BY <2>1, <1>a, <1>b, <1>c, <1>d, ShorterStill DEF GhostInv, ConnInv, TypeOK
  <2>2. ASSUME NEW i \in 1..Len(inbox'), inbox'[i].k = "task", inbox'[i].ok
        PROVE  GoneOrHere(inbox[i].t.p, i)'
    BY <2>2, <1>a, <1>b, <1>c, <1>d, ShorterGhost DEF ConnInv
  <2> QED
    BY <2>1, <2>2 DEF GhostInv
<1> QED
  BY <1>1, <1>2, <1>3, <1>4, <1>5, <1>6, <1>7, <1>8, <1>9, <1>10

LEMMA HearThreadKeeps ==
  ASSUME Inv, NEW t \in Threads, HearThread(t)
  PROVE  Inv'
<1>1. CASE At(t, "init") /\ Head1.ok
  BY <1>1, HearInitKeeps
<1>2. CASE At(t, "produce")
  BY <1>2, HearProduceKeeps
<1>3. CASE At(t, "list") /\ Head1.ok
  BY <1>3, HearListKeeps
<1>4. CASE ~Head1.ok /\ ~At(t, "produce")
  <2>1. /\ Throw({t}, Tail(inbox))
        /\ UNCHANGED <<page, left, gen, mediaReady, pending, consuming, remote, tiles,
                       others, row, over, drops, faults>>
    BY <1>4 DEF HearThread, Others, At
  <2>2. inbox # <<>> /\ inbox[1].k = "thread" /\ inbox[1].t = t /\ thread[t].pc \in {"init", "produce", "list"}
    BY HeardThread DEF HearThread
  <2>3. CASE t = "join"
    <3>1. ~At("join", "done") /\ row' \in BOOLEAN /\ faults' \in 0..MaxFaults /\ {"join"} \in SUBSET Threads
      BY <2>1, <2>2, <2>3 DEF At, Inv, TypeOK, Threads
    <3> QED
      BY <2>1, <2>3, <3>1, JoinFails
  <2>4. CASE t = "rejoin"
    <3>1. ~At("rejoin", "none")
      BY <2>2, <2>4 DEF At
    <3> QED
      BY <2>1, <2>2, <2>4, <3>1, RejoinFails
  <2> QED
    BY <2>3, <2>4 DEF Threads
<1> QED
  BY <1>1, <1>2, <1>3, <1>4, HeardThread DEF HearThread, Head1, At

LEMMA HearNewKeeps ==
  ASSUME Inv, HearNew
  PROVE  Inv'
<1> USE DEF Inv, HearNew, At, Others, Head1
<1>a. /\ Shorter /\ 1 \in 1..Len(inbox) /\ Head(inbox) = inbox[1] /\ inbox[1] \in Messages
      /\ inbox[1].k = "new" /\ conn = "up"
  BY Popped DEF Heard, Pop, Head1, ConnInv
<1>b. inbox[1].p \in Producers /\ Known(inbox[1].p)
  BY <1>a, MessageParts DEF KnownInv, KnownMsg
<1>c. /\ mediaReady => ConsumeAll({inbox[1].p}, "event", tasks) /\ pending' = pending
      /\ ~mediaReady => /\ pending' = pending \cup {inbox[1].p}
                       /\ consuming' = consuming /\ tasks' = tasks
  BY <1>a
<1>d. /\ tasks \subseteq tasks' /\ tasks' \subseteq Tasks /\ consuming' \subseteq Producers
      /\ \A k \in tasks' \ tasks : /\ k.p \in {inbox[1].p} /\ k.g = gen /\ k.st = "asked"
                                  /\ k.net = Emitted /\ open /\ mediaReady
      /\ consuming \subseteq consuming' /\ consuming' \subseteq consuming \cup {inbox[1].p}
      /\ mediaReady /\ open =>
            \A p \in {inbox[1].p} : p \in consuming \/ \E k \in tasks' : k.p = p /\ k.g = gen
      /\ ~(mediaReady /\ open) => consuming' = consuming /\ tasks' = tasks
  <2>1. CASE mediaReady
    <3>1. {inbox[1].p} \in SUBSET Producers /\ ConsumeAll({inbox[1].p}, "event", tasks)
      BY <1>b, <1>c, <2>1
    <3> HIDE DEF HearNew
    <3> QED
      BY <2>1, <3>1, ConsumeFacts
  <2>2. CASE ~mediaReady
    BY <1>c, <2>2 DEF TypeOK
  <2> QED
    BY <2>1, <2>2
<1>1. TypeOK'
  BY BoundsAssumption, <1>a, <1>b, <1>d DEF TypeOK, Threads, Awaits, Idle, Nets, Shorter
<1>2. TileInv' /\ ReadyInv'
  BY DEF TileInv, ReadyInv, TypeOK, Entering, Preparing, Threads
<1>3. ConnInv'
  BY <1>a, <1>d DEF ConnInv, Shorter, Emitted
<1>4. ThreadInv'
  BY <1>a, <1>d DEF ThreadInv, TypeOK, Early, Entering, Preparing, Idle, Threads
<1>5. MsgInv'
  BY <1>a, ShorterMsg DEF MsgInv, TypeOK, Threads
<1>6. ClaimInv'
  BY <1>a, ShorterClaim DEF ClaimInv, Claims, TypeOK, Threads
<1>7. EnterInv'
  <2>1. \A k \in tasks' : open \/ \E j \in tasks : k.g = j.g
    BY <1>d
  <2> QED
    BY <1>a, <2>1, ShorterEnter DEF EnterSent
<1>8. TaskInv'
  BY <1>a, <1>d DEF TaskInv, Emitted, TypeOK
<1>9. KnownInv'
  <2>1. \A p \in pending' : Known(p)
    BY <1>b DEF KnownInv
  <2>2. \A k \in tasks' : Known(k.p)
    BY <1>b, <1>d DEF KnownInv
  <2> QED
    BY <1>a, <2>1, <2>2, ShorterKnown
<1>10. CoverInv'
  <2> SUFFICES ASSUME inRoom', NEW r \in listed' \ (excused' \cup stopped')
               PROVE  Covered(r)'
    BY DEF CoverInv
  <2>1. Covered(r)
    BY <1>a, <1>d DEF CoverInv, Shorter
  <2>2. CASE r \in tiles \cup news \cup pending
    BY <2>2, <1>a, <1>d DEF Covered, Shorter
  <2>3. ASSUME NEW i \in 1..Len(inbox), inbox[i].k = "new", inbox[i].p = r PROVE Covered(r)'
    <3>1. CASE i # 1
      BY <1>a, <2>3, <3>1 DEF Covered, Shorter
    <3>2. CASE i = 1 /\ ~mediaReady
      BY <2>3, <3>2 DEF Covered
    <3>3. CASE i = 1 /\ mediaReady /\ open
      <4>1. r \in remote => r \in tiles'
        BY <1>a DEF TileInv
      <4> QED
        BY <1>d, <2>3, <3>3, <4>1 DEF Covered, TaskInv
    <3>4. CASE i = 1 /\ mediaReady /\ ~open
      BY <3>4 DEF ReadyInv, Covered, Lists, TypeOK
    <3> QED
      BY <3>1, <3>2, <3>3, <3>4
  <2>4. ASSUME NEW k \in tasks, k.p = r, k.g = gen PROVE Covered(r)'
    BY <2>4, <1>a, <1>d DEF Covered, Shorter
  <2>5. ASSUME NEW u \in Threads, Lists(u, r) PROVE Covered(r)'
    BY <2>5, <1>a, <1>d DEF Covered, Lists, Entering, Shorter
  <2> QED
    BY <2>1, <2>2, <2>3, <2>4, <2>5 DEF Covered
<1>11. GhostInv'
  <2>1. ASSUME inRoom', NEW r \in tiles' PROVE GoneOrHere(r, 0)'
    BY <2>1, <1>a DEF GhostInv, GoneOrHere, LeftAfter, Shorter
  <2>2. ASSUME NEW i \in 1..Len(inbox'), inbox'[i].k = "task", inbox'[i].ok
        PROVE  GoneOrHere(inbox[i].t.p, i)'
    BY <2>2, <1>a, ShorterGhost DEF ConnInv
  <2> QED
    BY <2>1, <2>2 DEF GhostInv
<1> QED
  BY <1>1, <1>2, <1>3, <1>4, <1>5, <1>6, <1>7, <1>8, <1>9, <1>10, <1>11

LEMMA HearClosedKeeps ==
  ASSUME Inv, HearClosed
  PROVE  Inv'
<1> USE DEF Inv, HearClosed, At, Others, Forget, Head1
<1>a. /\ Shorter /\ 1 \in 1..Len(inbox) /\ Head(inbox) = inbox[1] /\ inbox[1] \in Messages
      /\ inbox[1].k = "closed" /\ conn = "up"
  BY Popped DEF Heard, Pop, Head1, ConnInv
<1>b. inbox[1].p \in stopped
  BY <1>a DEF KnownInv, KnownMsg
<1>1. TypeOK'
  BY BoundsAssumption, <1>a DEF TypeOK, Threads, Awaits, Idle, Nets, Shorter
<1>2. ThreadInv' /\ TileInv' /\ TaskInv' /\ ReadyInv'
  BY DEF ThreadInv, TypeOK, Early, Entering, Preparing, Idle, Threads, TileInv, TaskInv,
         ReadyInv
<1>3. ConnInv'
  BY <1>a DEF ConnInv, Shorter
<1>4. MsgInv'
  BY <1>a, ShorterMsg DEF MsgInv, TypeOK, Threads
<1>5. ClaimInv'
  BY <1>a, ShorterClaim DEF ClaimInv, Claims, TypeOK, Threads
<1>6. EnterInv'
  BY <1>a, ShorterEnter DEF EnterInv, EnterSent, TypeOK, Threads
<1>7. KnownInv'
  BY <1>a, ShorterKnown DEF KnownInv, KnownMsg, Known
<1>8. CoverInv'
  <2> SUFFICES ASSUME inRoom', NEW r \in listed' \ (excused' \cup stopped')
               PROVE  Covered(r)'
    BY DEF CoverInv
  <2>1. Covered(r)
    BY <1>a, <1>b DEF CoverInv, Shorter
  <2>2. CASE r \in tiles \cup news \cup pending
    BY <2>2, <1>a, <1>b DEF Covered, Shorter
  <2>3. ASSUME NEW i \in 1..Len(inbox), inbox[i].k = "new", inbox[i].p = r PROVE Covered(r)'
    BY <2>3, <1>a, <1>b DEF Covered, Shorter
  <2>4. ASSUME NEW k \in tasks, k.p = r, k.g = gen PROVE Covered(r)'
    BY <2>4, <1>a, <1>b DEF Covered, Shorter
  <2>5. ASSUME NEW u \in Threads, Lists(u, r) PROVE Covered(r)'
    BY <2>5, <1>a, ShorterLists DEF Covered
  <2> QED
    BY <2>1, <2>2, <2>3, <2>4, <2>5 DEF Covered
<1>9. GhostInv'
  <2>1. ASSUME inRoom', NEW r \in tiles' PROVE GoneOrHere(r, 0)'
    BY <2>1, <1>a, ShorterStill DEF GhostInv, ConnInv, TypeOK
  <2>2. ASSUME NEW i \in 1..Len(inbox'), inbox'[i].k = "task", inbox'[i].ok
        PROVE  GoneOrHere(inbox[i].t.p, i)'
    BY <2>2, <1>a, ShorterGhost DEF ConnInv
  <2> QED
    BY <2>1, <2>2 DEF GhostInv
<1> QED
  BY <1>1, <1>2, <1>3, <1>4, <1>5, <1>6, <1>7, <1>8, <1>9

LEMMA HearLeftKeeps ==
  ASSUME Inv, HearLeft
  PROVE  Inv'
<1> USE DEF Inv, HearLeft, At, Others, Forget, Head1
<1>a. /\ Shorter /\ 1 \in 1..Len(inbox) /\ Head(inbox) = inbox[1] /\ inbox[1] \in Messages
      /\ inbox[1].k = "left" /\ conn = "up"
  BY Popped DEF Heard, Pop, Head1, ConnInv
<1>b. \A p \in listed : Owner[p] # inbox[1].q
  BY <1>a DEF KnownInv, KnownMsg
<1>1. TypeOK'
  BY BoundsAssumption, <1>a DEF TypeOK, Threads, Awaits, Idle, Nets, Shorter
<1>2. ThreadInv' /\ TileInv' /\ TaskInv' /\ ReadyInv'
  BY DEF ThreadInv, TypeOK, Early, Entering, Preparing, Idle, Threads, TileInv, TaskInv,
         ReadyInv
<1>3. ConnInv'
  BY <1>a DEF ConnInv, Shorter
<1>4. MsgInv'
  BY <1>a, ShorterMsg DEF MsgInv, TypeOK, Threads
<1>5. ClaimInv'
  BY <1>a, ShorterClaim DEF ClaimInv, Claims, TypeOK, Threads
<1>6. EnterInv'
  BY <1>a, ShorterEnter DEF EnterInv, EnterSent, TypeOK, Threads
<1>7. KnownInv'
  BY <1>a, ShorterKnown DEF KnownInv, KnownMsg, Known
<1>8. CoverInv'
  <2> SUFFICES ASSUME inRoom', NEW r \in listed' \ (excused' \cup stopped')
               PROVE  Covered(r)'
    BY DEF CoverInv
  <2>1. Covered(r)
    BY <1>a, <1>b DEF CoverInv, Shorter
  <2>2. CASE r \in tiles \cup news \cup pending
    BY <2>2, <1>a, <1>b DEF Covered, Shorter
  <2>3. ASSUME NEW i \in 1..Len(inbox), inbox[i].k = "new", inbox[i].p = r PROVE Covered(r)'
    BY <2>3, <1>a, <1>b DEF Covered, Shorter
  <2>4. ASSUME NEW k \in tasks, k.p = r, k.g = gen PROVE Covered(r)'
    BY <2>4, <1>a, <1>b DEF Covered, Shorter
  <2>5. ASSUME NEW u \in Threads, Lists(u, r) PROVE Covered(r)'
    BY <2>5, <1>a, <1>b DEF Covered, Lists, Entering, Shorter
  <2> QED
    BY <2>1, <2>2, <2>3, <2>4, <2>5 DEF Covered
<1>9. GhostInv'
  <2>1. ASSUME inRoom', NEW r \in tiles' PROVE GoneOrHere(r, 0)'
    <3>1. GoneOrHere(r, 0) /\ Owner[r] # inbox[1].q /\ inRoom /\ r \in Producers
      BY <2>1, <1>a DEF GhostInv, TypeOK
    <3>2. CASE LeftAfter(r, 0)
      <4>1. PICK j \in 1..Len(inbox) : j > 0 /\ inbox[j].k = "left" /\ inbox[j].q = Owner[r]
        BY <3>2 DEF LeftAfter
      <4>2. j - 1 \in 1..Len(inbox') /\ inbox'[j - 1] = inbox[j] /\ j - 1 > 0
        BY <1>a, <3>1, <4>1 DEF Shorter
      <4> QED
        BY <4>1, <4>2 DEF GoneOrHere, LeftAfter
    <3> QED
      BY <3>1, <3>2 DEF GoneOrHere
  <2>2. ASSUME NEW i \in 1..Len(inbox'), inbox'[i].k = "task", inbox'[i].ok
        PROVE  GoneOrHere(inbox[i].t.p, i)'
    BY <2>2, <1>a, ShorterGhost DEF ConnInv
  <2> QED
    BY <2>1, <2>2 DEF GhostInv
<1> QED
  BY <1>1, <1>2, <1>3, <1>4, <1>5, <1>6, <1>7, <1>8, <1>9

LEMMA HearEndedKeeps ==
  ASSUME Inv, HearEnded
  PROVE  Inv'
<1>1. /\ TypeOK /\ phase' = "ended" /\ Leave(Tail(inbox))
      /\ UNCHANGED <<page, gen, mediaReady, pending, consuming, remote, tiles,
                     others, row, over, excused, drops, faults>>
  BY DEF Inv, HearEnded, Others
<1>2. /\ conn = "up" /\ inbox # <<>> /\ Head(inbox).k = "room-ended" /\ inbox \in Seq(Messages)
  BY DEF HearEnded, Heard, Head1, Inv, ConnInv
<1>3. CASE left
  <2>1. inbox' = Tail(inbox) /\ UNCHANGED <<left, open, bound, conn, tasks, thread, server, byes>>
    BY <1>1, <1>3 DEF Leave, TypeOK
  <2>2. Shorter /\ inbox[1].k = "room-ended"
    BY <1>2, <2>1, Popped
  <2> QED
    BY <1>1, <2>1, <2>2, PopKeeps
<1>4. CASE ~left
  <2>1. CutOff /\ byes' \subseteq {"leave", "fail"} /\ left' = TRUE
          /\ \A t \in Threads : thread'[t].pc = thread[t].pc
    BY <1>1, <1>4, LeaveCuts
  <2>2. thread'["join"].pc \notin {"none", "rest", "answered"}
    BY <1>2, <2>1 DEF Inv, ThreadInv, Early, Threads
  <2> QED
    BY <1>1, <2>1, <2>2, CutKeeps DEF TypeOK
<1> QED
  BY <1>3, <1>4

-----------------------------------------------------------------------------
(* startMedia, and the end of the threads *)

LEMMA StartInitKeeps ==
  ASSUME Inv, NEW t \in Threads, StartInit(t)
  PROVE  Inv'
<1> USE DEF Inv, StartInit, Goto, At, Emitted
<1>1. TypeOK'
  BY BoundsAssumption DEF TypeOK, Threads, Awaits, Idle, Nets
<1>2. ConnInv' /\ ThreadInv' /\ MsgInv' /\ EnterInv' /\ TileInv' /\ TaskInv' /\ ReadyInv' /\
      KnownInv' /\ CoverInv' /\ GhostInv'
  BY DEF ConnInv, ThreadInv, TypeOK, Early, Entering, Preparing, Idle, Threads, MsgInv,
         EnterInv, EnterSent, TileInv, TaskInv, ReadyInv, KnownInv, KnownMsg, Known, CoverInv,
         Covered, Lists, GhostInv, GoneOrHere, LeftAfter
<1>3. ClaimInv'
  BY DEF ClaimInv, Claims, TypeOK, Threads, MsgInv
<1> QED
  BY <1>1, <1>2, <1>3

LEMMA TimeoutKeeps ==
  ASSUME Inv, NEW t \in Threads, Timeout(t)
  PROVE  Inv'
<1>1. /\ thread[t].net \in {"lost", "buffered"} /\ thread[t].pc \notin Idle
      /\ UNCHANGED <<page, left, gen, mediaReady, pending, consuming, remote, tiles,
                     others, row, over, drops, faults>>
  BY DEF Timeout, Inv, ThreadInv
<1>2. CASE At(t, "produce")
  <2>a. /\ thread' = [thread EXCEPT ![t] = [pc |-> "list", net |-> Emitted]]
        /\ UNCHANGED <<phase, open, bound, conn, inbox, tasks, server, byes, excused>>
    BY <1>2 DEF Timeout, Goto
  <2>b. \A i \in 1..Len(inbox) : inbox[i].k = "thread" => inbox[i].t # t
    BY <1>1 DEF Inv, MsgInv
  <2> USE DEF Inv, At
  <2>1. TypeOK'
    BY BoundsAssumption, <1>1, <1>2, <2>a, <2>b DEF TypeOK, Threads, Awaits, Idle, Nets, Emitted
  <2>2. MsgInv' /\ ClaimInv' /\ EnterInv' /\ TileInv' /\ TaskInv' /\ ReadyInv' /\ KnownInv' /\
        CoverInv' /\ GhostInv'
    BY <1>1, <1>2, <2>a, <2>b
    DEF MsgInv, TypeOK, Threads, ClaimInv, Claims, EnterInv, EnterSent, TileInv, TaskInv,
        ReadyInv, Entering, Preparing, KnownInv, KnownMsg, Known, CoverInv, Covered, Lists,
        GhostInv, GoneOrHere, LeftAfter
  <2>3. ConnInv'
    BY <1>1, <1>2, <2>a, <2>b DEF ConnInv, Emitted
  <2>4. ThreadInv'
    BY <1>1, <1>2, <2>a, <2>b
    DEF ThreadInv, TypeOK, Early, Entering, Preparing, Idle, Threads, Emitted
  <2> QED
    BY <2>1, <2>2, <2>3, <2>4
<1>3. CASE ~At(t, "produce") /\ t = "join"
  <2>1. Throw({"join"}, inbox)
    BY <1>3 DEF Timeout
  <2>2. ~At("join", "done") /\ row' \in BOOLEAN /\ faults' \in 0..MaxFaults /\ {"join"} \in SUBSET Threads
    BY <1>1, <1>3 DEF Idle, At, Inv, TypeOK, Threads
  <2> QED
    BY <1>1, <2>1, <2>2, JoinFails
<1>4. CASE ~At(t, "produce") /\ t = "rejoin"
  <2>1. Throw({"rejoin"}, inbox) /\ ~At("rejoin", "none") /\ thread["rejoin"].net # "answered"
    BY <1>1, <1>4 DEF Timeout, Idle, At
  <2> QED
    BY <1>1, <2>1, RejoinFails
<1> QED
  BY <1>2, <1>3, <1>4 DEF Threads

LEMMA MediaReadyKeeps ==
  ASSUME Inv, NEW t \in Threads, MediaReady(t)
  PROVE  Inv'
<1> USE DEF Inv, MediaReady, Goto, At
<1>a. pending \in SUBSET Producers /\ ConsumeAll(pending, t, tasks)
  BY DEF TypeOK
<1>b. /\ tasks \subseteq tasks' /\ tasks' \subseteq Tasks /\ consuming' \subseteq Producers
      /\ \A k \in tasks' \ tasks : /\ k.p \in pending /\ k.g = gen /\ k.st = "asked"
                                  /\ k.net = Emitted /\ open
      /\ consuming \subseteq consuming' /\ consuming' \subseteq consuming \cup pending
      /\ open =>
            \A p \in pending : p \in consuming \/ \E k \in tasks' : k.p = p /\ k.g = gen
      /\ ~open => consuming' = consuming /\ tasks' = tasks
  BY <1>a, ConsumeFacts
<1> HIDE DEF MediaReady
<1>c. /\ thread[t].pc = "consume" /\ thread' = [thread EXCEPT ![t] = [pc |-> "drain", net |-> "none"]]
      /\ mediaReady' = TRUE /\ pending' = {}
      /\ UNCHANGED <<store, left, bound, open, gen, remote, tiles, conn, inbox, server,
                     others, rest, excused, drops, faults>>
  BY DEF MediaReady
<1>1. TypeOK'
  BY BoundsAssumption, <1>b, <1>c DEF TypeOK, Threads, Awaits, Idle, Nets
<1>2. ConnInv'
  BY <1>b, <1>c DEF ConnInv, Emitted, TypeOK
<1>3. ThreadInv'
  BY <1>b, <1>c DEF ThreadInv, TypeOK, Early, Entering, Preparing, Idle, Threads
<1>4. MsgInv'
  BY <1>c DEF MsgInv, TypeOK, Threads
<1>5. ClaimInv'
  BY <1>c DEF ClaimInv, Claims, TypeOK, Threads
<1>6. EnterInv'
  BY <1>b, <1>c DEF EnterInv, EnterSent, TypeOK, Threads
<1>7. TileInv'
  BY <1>c DEF TileInv
<1>8. TaskInv'
  BY <1>b, <1>c DEF TaskInv, Emitted, ConnInv, TypeOK
<1>9. ReadyInv'
  BY <1>c DEF ReadyInv, TypeOK, Entering, Preparing, Threads
<1>10. KnownInv'
  BY <1>b, <1>c DEF KnownInv, KnownMsg, Known
<1>11. CoverInv'
  <2> SUFFICES ASSUME inRoom', NEW r \in listed' \ (excused' \cup stopped')
               PROVE  Covered(r)'
    BY DEF CoverInv
  <2>1. Covered(r)
    BY <1>b, <1>c DEF CoverInv
  <2>2. CASE r \in tiles \cup news \cup pending
    <3>1. CASE r \in tiles \cup news
      BY <1>c, <3>1 DEF Covered
    <3>2. CASE r \in pending /\ open
      <4>1. r \in remote => r \in tiles'
        BY <1>c DEF TileInv, ConnInv
      <4> QED
        BY <1>b, <1>c, <3>2, <4>1 DEF Covered, TaskInv
    <3>3. CASE ~open
      BY <1>c, <3>3 DEF ReadyInv, Covered, Lists, Entering, TypeOK
    <3> QED
      BY <2>2, <3>1, <3>2, <3>3
  <2>3. ASSUME NEW i \in 1..Len(inbox), inbox[i].k = "new", inbox[i].p = r PROVE Covered(r)'
    BY <2>3, <1>b, <1>c DEF Covered
  <2>4. ASSUME NEW k \in tasks, k.p = r, k.g = gen PROVE Covered(r)'
    BY <2>4, <1>b, <1>c DEF Covered
  <2>5. ASSUME NEW u \in Threads, Lists(u, r) PROVE Covered(r)'
    BY <2>5, <1>b, <1>c DEF Covered, Lists, Entering, TypeOK
  <2> QED
    BY <2>1, <2>2, <2>3, <2>4, <2>5 DEF Covered
<1>12. GhostInv'
  <2>1. UNCHANGED <<inbox, tiles, listed, goodbyes, inRoom>> /\ GhostInv
    BY <1>c
  <2> QED
    BY <2>1 DEF GhostInv, GoneOrHere, LeftAfter
<1> QED
  BY <1>1, <1>2, <1>3, <1>4, <1>5, <1>6, <1>7, <1>8, <1>9, <1>10, <1>11, <1>12

LEMMA ThreadDoneKeeps ==
  ASSUME Inv, NEW t \in Threads, ThreadDone(t)
  PROVE  Inv'
<1> USE DEF Inv, ThreadDone, Goto, At, NoTask
<1>1. TypeOK'
  BY BoundsAssumption DEF TypeOK, Threads, Awaits, Idle, Nets
<1>2. ConnInv' /\ ThreadInv' /\ MsgInv' /\ ClaimInv' /\ EnterInv' /\ TileInv' /\ TaskInv' /\
      ReadyInv' /\ KnownInv' /\ CoverInv' /\ GhostInv'
  BY DEF ConnInv, ThreadInv, TypeOK, Early, Entering, Preparing, Idle, Threads, MsgInv,
         ClaimInv, Claims, EnterInv, EnterSent, TileInv, TaskInv, ReadyInv, KnownInv, KnownMsg,
         Known, CoverInv, Covered, Lists, GhostInv, GoneOrHere, LeftAfter
<1> QED
  BY <1>1, <1>2

LEMMA JoinFailedKeeps ==
  ASSUME Inv, JoinFailed
  PROVE  Inv'
<1> USE DEF Inv, JoinFailed, Goto, At
<1>1. TypeOK'
  BY BoundsAssumption DEF TypeOK, Threads, Awaits, Idle, Nets
<1>2. ConnInv' /\ ThreadInv' /\ MsgInv' /\ ClaimInv' /\ EnterInv' /\ TileInv' /\ TaskInv' /\
      ReadyInv' /\ KnownInv' /\ CoverInv' /\ GhostInv'
  BY DEF ConnInv, ThreadInv, TypeOK, Early, Entering, Preparing, Idle, Threads, MsgInv,
         ClaimInv, Claims, EnterInv, EnterSent, TileInv, TaskInv, ReadyInv, KnownInv, KnownMsg,
         Known, CoverInv, Covered, Lists, GhostInv, GoneOrHere, LeftAfter
<1> QED
  BY <1>1, <1>2

-----------------------------------------------------------------------------
(* consumeOne *)

LEMMA HearTaskKeeps ==
  ASSUME Inv, NEW t \in tasks, HearTask(t)
  PROVE  Inv'
<1> USE DEF Inv, HearTask, At, Others, Head1, TaskFails
<1>a. /\ Shorter /\ 1 \in 1..Len(inbox) /\ Head(inbox) = inbox[1] /\ inbox[1] \in Messages
      /\ inbox[1].k = "task" /\ conn = "up"
  BY Popped DEF Heard, Pop, Head1, ConnInv
<1> DEFINE to == [t EXCEPT !.st = "opening", !.net = "none"]
<1>b. /\ to \in Tasks /\ to.p = t.p /\ to.g = t.g /\ to.st = "opening" /\ to.net = "none"
      /\ t \in Tasks /\ t.p \in Producers /\ inbox[1].t = t /\ inbox[1].ok \in BOOLEAN
      /\ t.st \in {"asked", "opening", "resuming"}
  <2>1. t \in Tasks /\ inbox[1].t = t /\ inbox[1].ok \in BOOLEAN
    BY <1>a, MessageParts DEF TypeOK
  <2> HIDE DEF HearTask
  <2> QED
    BY <2>1, TaskParts DEF Tasks, Nets
<1>c. t.st # "opening" /\ (inbox[1].ok => inRoom)
  BY <1>a, <1>b DEF MsgInv
<1>d. \/ /\ open /\ t.g = gen /\ tasks' = (tasks \ {t}) \cup {to}
         /\ UNCHANGED <<consuming, remote, tiles>>
      \/ /\ inbox[1].ok /\ tasks' = tasks \ {t} /\ consuming' = consuming
         /\ remote' = remote \cup {t.p} /\ tiles' = tiles \cup {t.p}
      \/ /\ ~inbox[1].ok \/ ~(open /\ t.g = gen)
         /\ tasks' = tasks \ {t} /\ consuming' = consuming \ {t.p}
         /\ UNCHANGED <<remote, tiles>>
  <2>1. CASE inbox[1].ok /\ t.st = "asked" /\ open /\ t.g = gen
    BY <1>a, <2>1
  <2>2. CASE inbox[1].ok /\ t.st = "resuming"
    BY <1>a, <2>2
  <2>3. CASE ~inbox[1].ok \/ (t.st = "asked" /\ ~(open /\ t.g = gen))
    BY <1>a, <1>b, <1>c, <2>3
  <2> QED
    BY <1>b, <1>c, <2>1, <2>2, <2>3
<1>e. t.g = gen /\ inRoom /\ ~inbox[1].ok => t.p \in excused \/ t.p \notin listed
  BY <1>a, <1>b DEF KnownInv, KnownMsg
<1>f. /\ UNCHANGED <<phase, left, bound, open, gen, mediaReady, pending, conn, thread, server, byes,
                     excused, page, others, row, over, drops, faults>>
  OBVIOUS
<1> HIDE DEF HearTask, to
<1>1. TypeOK'
  BY BoundsAssumption, <1>a, <1>b, <1>d, <1>f DEF TypeOK, Threads, Awaits, Idle, Nets, Shorter
<1>2. ConnInv'
  BY <1>a, <1>b, <1>d, <1>f DEF ConnInv, Shorter
<1>3. ThreadInv'
  BY <1>b, <1>d, <1>f DEF ThreadInv, TypeOK, Early, Entering, Preparing, Idle, Threads
<1>4. MsgInv'
  BY <1>a, <1>f, ShorterMsg DEF MsgInv, TypeOK, Threads
<1>5. ClaimInv'
  BY <1>a, <1>f, ShorterClaim DEF ClaimInv, Claims, TypeOK, Threads
<1>6. EnterInv'
  <2>1. CASE inRoom
    BY <1>f, <2>1 DEF EnterInv, EnterSent
  <2>2. CASE ~inRoom
    <3>1. \A k \in tasks' : open \/ \E j \in tasks : k.g = j.g
      BY <1>b, <1>d
    <3>2. remote' = remote /\ tiles' = tiles
      BY <1>c, <1>d, <2>2
    <3> QED
      BY <1>a, <1>f, <3>1, <3>2, ShorterEnter DEF EnterSent
  <2> QED
    BY <2>1, <2>2
<1>7. TileInv'
  BY <1>d, <1>f DEF TileInv
<1>8. TaskInv'
  BY <1>b, <1>d, <1>f DEF TaskInv
<1>9. ReadyInv'
  BY <1>f DEF ReadyInv, TypeOK, Entering, Preparing, Threads
<1>10. KnownInv'
  <2>1. \A k \in tasks' : Known(k.p)
    BY <1>b, <1>d DEF KnownInv
  <2>2. \A p \in pending' : Known(p)
    BY <1>f DEF KnownInv
  <2> QED
    BY <1>a, <1>f, <2>1, <2>2, ShorterKnown
<1>11. CoverInv'
  <2> SUFFICES ASSUME inRoom', NEW r \in listed' \ (excused' \cup stopped')
               PROVE  Covered(r)'
    BY DEF CoverInv
  <2>1. Covered(r)
    BY <1>a, <1>f DEF CoverInv, Shorter
  <2>2. CASE r \in tiles \cup news \cup pending
    BY <2>2, <1>d, <1>f DEF Covered
  <2>3. ASSUME NEW i \in 1..Len(inbox), inbox[i].k = "new", inbox[i].p = r PROVE Covered(r)'
    BY <2>3, <1>a, <1>f DEF Covered, Shorter
  <2>4. ASSUME NEW k \in tasks, k.p = r, k.g = gen PROVE Covered(r)'
    <3>1. CASE k # t
      BY <2>4, <3>1, <1>d, <1>f DEF Covered
    <3>2. CASE k = t
      BY <2>4, <3>2, <1>b, <1>d, <1>e, <1>f DEF Covered, TaskInv
    <3> QED
      BY <3>1, <3>2
  <2>5. ASSUME NEW u \in Threads, Lists(u, r) PROVE Covered(r)'
    BY <2>5, <1>a, <1>f DEF Covered, Lists, Entering, Shorter
  <2> QED
    BY <2>1, <2>2, <2>3, <2>4, <2>5 DEF Covered
<1>12. GhostInv'
  <2>1. ASSUME inRoom', NEW r \in tiles' PROVE GoneOrHere(r, 0)'
    <3>1. CASE r \in tiles
      BY <2>1, <3>1, <1>a, <1>f DEF GhostInv, GoneOrHere, LeftAfter, Shorter
    <3>2. CASE r \notin tiles
      <4>1. r = t.p /\ GoneOrHere(t.p, 1)
        BY <2>1, <3>2, <1>a, <1>b, <1>d DEF GhostInv
      <4> QED
        BY <4>1, <1>a, <1>b, <1>f, ShorterLeft DEF GoneOrHere, ConnInv
    <3> QED
      BY <3>1, <3>2
  <2>2. ASSUME NEW i \in 1..Len(inbox'), inbox'[i].k = "task", inbox'[i].ok
        PROVE  GoneOrHere(inbox[i].t.p, i)'
    BY <2>2, <1>a, <1>f, ShorterGhost DEF ConnInv
  <2> QED
    BY <2>1, <2>2 DEF GhostInv
<1> QED
  BY <1>1, <1>2, <1>3, <1>4, <1>5, <1>6, <1>7, <1>8, <1>9, <1>10, <1>11, <1>12

LEMMA OpenConsumerKeeps ==
  ASSUME Inv, NEW t \in tasks, OpenConsumer(t)
  PROVE  Inv'
<1> USE DEF Inv, OpenConsumer, At, TaskFails
<1> DEFINE to == [t EXCEPT !.st = "resuming", !.net = Emitted]
<1>a. to \in Tasks /\ Same(to, [t EXCEPT !.st = "resuming"]) /\ to.st = "resuming" /\ to.net = Emitted
  BY DEF TypeOK, Tasks, Nets, Emitted, Same
<1>b. to.p = t.p /\ to.g = t.g
  BY DEF TypeOK, Tasks
<1>c. \/ open /\ t.g = gen /\ tasks' = (tasks \ {t}) \cup {to} /\ consuming' = consuming
      \/ ~(open /\ t.g = gen) /\ tasks' = tasks \ {t} /\ consuming' = consuming \ {t.p}
  OBVIOUS
<1> HIDE DEF to
<1>1. TypeOK'
  BY BoundsAssumption, <1>a, <1>c DEF TypeOK, Threads, Awaits, Idle, Nets
<1>2. MsgInv' /\ ClaimInv' /\ TileInv' /\ ReadyInv' /\ GhostInv'
  BY DEF MsgInv, TypeOK, Threads, ClaimInv, Claims, TileInv, ReadyInv, Entering, Preparing,
         GhostInv, GoneOrHere, LeftAfter
<1>3. ConnInv'
  BY <1>a, <1>c DEF ConnInv, Emitted
<1>4. ThreadInv'
  BY <1>c DEF ThreadInv, TypeOK, Early, Entering, Preparing, Idle, Threads
<1>5. EnterInv'
  BY <1>b, <1>c DEF EnterInv, EnterSent, TypeOK, Threads
<1>6. TaskInv'
  BY <1>a, <1>b, <1>c DEF TaskInv, Emitted, ConnInv
<1>7. KnownInv'
  BY <1>b, <1>c DEF KnownInv, KnownMsg, Known
<1>8. CoverInv'
  <2> SUFFICES ASSUME inRoom', NEW r \in listed' \ (excused' \cup stopped')
               PROVE  Covered(r)'
    BY DEF CoverInv
  <2>1. Covered(r)
    BY <1>b, <1>c DEF CoverInv
  <2>2. CASE r \in tiles \cup news \cup pending
    BY <2>2, <1>b, <1>c DEF Covered
  <2>3. ASSUME NEW i \in 1..Len(inbox), inbox[i].k = "new", inbox[i].p = r PROVE Covered(r)'
    BY <2>3, <1>b, <1>c DEF Covered
  <2>4. ASSUME NEW k \in tasks, k.p = r, k.g = gen PROVE Covered(r)'
    BY <2>4, <1>b, <1>c DEF Covered, TaskInv
  <2>5. ASSUME NEW u \in Threads, Lists(u, r) PROVE Covered(r)'
    BY <2>5, <1>b, <1>c DEF Covered, Lists, Entering
  <2> QED
    BY <2>1, <2>2, <2>3, <2>4, <2>5 DEF Covered
<1> QED
  BY <1>1, <1>2, <1>3, <1>4, <1>5, <1>6, <1>7, <1>8

LEMMA TaskTimeoutKeeps ==
  ASSUME Inv, NEW t \in tasks, TaskTimeout(t)
  PROVE  Inv'
<1> USE DEF Inv, TaskTimeout, At, TaskFails
<1>1. TypeOK'
  BY BoundsAssumption DEF TypeOK, Threads, Awaits, Idle, Nets
<1>2. ConnInv' /\ ThreadInv' /\ MsgInv' /\ ClaimInv' /\ EnterInv' /\ TileInv' /\ TaskInv' /\
      ReadyInv' /\ KnownInv' /\ GhostInv'
  BY DEF ConnInv, ThreadInv, TypeOK, Early, Entering, Preparing, Idle, Threads, MsgInv,
         ClaimInv, Claims, EnterInv, EnterSent, TileInv, TaskInv, ReadyInv, KnownInv, KnownMsg,
         Known, GhostInv, GoneOrHere, LeftAfter
<1>3. CoverInv'
  <2> SUFFICES ASSUME inRoom', NEW r \in listed' \ (excused' \cup stopped')
               PROVE  Covered(r)'
    BY DEF CoverInv
  <2>1. Covered(r)
    BY DEF CoverInv
  <2>2. CASE r \in tiles \cup news \cup pending
    BY <2>2 DEF Covered
  <2>3. ASSUME NEW i \in 1..Len(inbox), inbox[i].k = "new", inbox[i].p = r PROVE Covered(r)'
    BY <2>3 DEF Covered
  <2>4. ASSUME NEW k \in tasks, k.p = r, k.g = gen PROVE Covered(r)'
    BY <2>4 DEF Covered, TaskInv
  <2>5. ASSUME NEW u \in Threads, Lists(u, r) PROVE Covered(r)'
    BY <2>5 DEF Covered, Lists, Entering
  <2> QED
    BY <2>1, <2>2, <2>3, <2>4, <2>5 DEF Covered
<1> QED
  BY <1>1, <1>2, <1>3

-----------------------------------------------------------------------------
(* The theorems *)

LEMMA StutterKeeps ==
  ASSUME Inv, UNCHANGED vars
  PROVE  Inv'
<1> USE DEF Inv, At
<1>1. TypeOK' /\ ConnInv' /\ ThreadInv' /\ TileInv' /\ TaskInv' /\ ReadyInv'
  BY DEF TypeOK, ConnInv, ThreadInv, TileInv, TaskInv, ReadyInv
<1>2. MsgInv' /\ ClaimInv' /\ EnterInv'
  BY DEF MsgInv, ClaimInv, Claims, EnterInv, EnterSent
<1>3. KnownInv'
  BY DEF KnownInv, KnownMsg, Known
<1>4. CoverInv' /\ GhostInv'
  BY DEF CoverInv, Covered, Lists, GhostInv, GoneOrHere, LeftAfter
<1> QED
  BY <1>1, <1>2, <1>3, <1>4

LEMMA InvInit == Init => Inv
<1> SUFFICES ASSUME Init PROVE Inv
  OBVIOUS
<1> USE DEF Init, At
<1>1. inbox \in Seq(Messages) /\ DOMAIN inbox = {} /\ \A i \in 1..Len(inbox) : FALSE
  BY EmptySeq, LenProperties
<1>2. \A t \in Threads : thread[t].pc = "none" /\ thread[t].net = "none"
  OBVIOUS
<1>3. TypeOK
  <2>1. thread \in [Threads -> [pc : Awaits \cup Idle \cup {"failing"}, net : Nets]]
    BY DEF Idle, Nets
  <2>2. {page, left, bound, open, mediaReady, inRoom, wired, row, over} \subseteq BOOLEAN
    OBVIOUS
  <2>3. gen \in 1..(MaxDrops + 1) /\ drops \in 0..MaxDrops /\ faults \in 0..MaxFaults /\ mine \in 0..2
    BY BoundsAssumption
  <2> QED
    BY <1>1, <2>1, <2>2, <2>3 DEF TypeOK
<1>4. ConnInv /\ TileInv /\ TaskInv /\ ReadyInv
  BY <1>1, <1>2 DEF ConnInv, TileInv, TaskInv, ReadyInv
<1>5. ThreadInv
  BY <1>2 DEF ThreadInv, Threads, Early
<1>6. MsgInv /\ ClaimInv /\ EnterInv
  BY <1>1, <1>2 DEF MsgInv, ClaimInv, Claims, EnterInv, EnterSent, Threads
<1>7. KnownInv
  BY <1>1, OwnerAssumption DEF KnownInv, Known
<1>8. CoverInv /\ GhostInv
  BY <1>1 DEF CoverInv, GhostInv
<1> QED
  BY <1>3, <1>4, <1>5, <1>6, <1>7, <1>8 DEF Inv

LEMMA InvNext == Inv /\ [Next]_vars => Inv'
<1> SUFFICES ASSUME Inv, [Next]_vars PROVE Inv'
  OBVIOUS
<1>1. CASE ClickJoin \/ ClickLeave \/ Unmount \/ EndMeeting
  BY <1>1, ClickJoinKeeps, ClickLeaveKeeps, UnmountKeeps, EndMeetingKeeps
<1>2. CASE JoinStep
  BY <1>2, RestJoinKeeps, ConnectKeeps, ConnectedKeeps, ConnectFailsKeeps, JoinFailedKeeps
  DEF JoinStep
<1>3. CASE Hear
  BY <1>3, HearJoinedKeeps, HearJoinErrorKeeps, HearNewKeeps, HearClosedKeeps, HearLeftKeeps,
     HearEndedKeeps, HearThreadKeeps, HearTaskKeeps
  DEF Hear
<1>4. CASE Drop \/ Reconnect
  BY <1>4, DropKeeps, ReconnectKeeps
<1>5. CASE \E b \in byes : RestLeave(b)
  BY <1>5, RestLeaveKeeps
<1>6. CASE \E t \in Threads : ThreadStep(t)
  BY <1>6, ServeJoinKeeps, ServeInitKeeps, ServeProduceKeeps, ServeListKeeps, StartInitKeeps,
     TimeoutKeeps, MediaReadyKeeps, ThreadDoneKeeps
  DEF ThreadStep
<1>7. CASE \E t \in tasks : TaskStep(t)
  BY <1>7, ServeTaskKeeps, OpenConsumerKeeps, TaskTimeoutKeeps DEF TaskStep
<1>8. CASE \E p \in Producers : Publish(p) \/ Announce(p) \/ StopShare(p)
  BY <1>8, PublishKeeps, AnnounceKeeps, StopShareKeeps
<1>9. CASE \E q \in Peers : PeerLeaves(q) \/ AnnounceLeave(q)
  BY <1>9, PeerLeavesKeeps, AnnounceLeaveKeeps
<1>10. CASE UNCHANGED vars
  BY <1>10, StutterKeeps
<1> QED
  BY <1>1, <1>2, <1>3, <1>4, <1>5, <1>6, <1>7, <1>8, <1>9, <1>10 DEF Next

\* The strengthening holds: every state of every call, however its connection and
\* its two threads fare.
THEOREM InvHolds == Spec => []Inv
<1>1. Init => Inv
  BY InvInit
<1>2. Inv /\ [Next]_vars => Inv'
  BY InvNext
<1> QED
  BY <1>1, <1>2, PTL DEF Spec

\* Every field of CallSession stays in its type; in particular no more clients are
\* made than connections (gen), and no answer meets an await it is not for.
THEOREM TypeCorrect == Spec => []TypeOK
<1>1. Inv => TypeOK
  BY DEF Inv
<1> QED
  BY <1>1, InvHolds, PTL

\* What the store shows is in the session's map, where onProducerClosed and
\* removePeer look for it, also while join() and rejoin() overlap.
THEOREM TilesAreRemovableAlways == Spec => []TilesAreRemovable
<1>1. Inv => TilesAreRemovable
  BY DEF Inv, TileInv, TilesAreRemovable
<1> QED
  BY <1>1, InvHolds, PTL

\* Our microphone is produced once per connection, though join() and rejoin() may
\* both go through startMedia: the SFU refuses the second pair of transports.
THEOREM OneOfMeAlways == Spec => []OneOfMe
<1>1. Inv => OneOfMe
  BY DEF Inv, ClaimInv, OneOfMe
<1> QED
  BY <1>1, InvHolds, PTL

\* A producer that was there before us, came while we listed, or came later is
\* shown in the end: the queue of onNewProducer and the listing leave no gap.
THEOREM NothingMissedAlways == Spec => []NothingMissed
<1>1. ASSUME Inv, Quiet, NEW p \in listed \ excused, p \notin stopped
      PROVE  p \in tiles
  <2>1. /\ inRoom /\ inbox = <<>> /\ tasks = {} /\ news = {}
        /\ thread["join"].pc = "done" /\ thread["rejoin"].pc = "none"
    BY <1>1 DEF Quiet, At
  <2>2. \A t \in Threads : thread[t].pc \in {"done", "none"}
    BY <2>1 DEF Threads
  <2>3. Covered(p)
    BY <1>1, <2>1 DEF Inv, CoverInv
  <2>4. p \notin pending
    <3>1. excused # Producers
      BY <1>1 DEF Inv, TypeOK
    <3>2. mediaReady
      BY <1>1, <2>1, <2>2, <3>1 DEF Inv, ReadyInv, Preparing, Entering
    <3> QED
      BY <1>1, <3>2 DEF Inv, ReadyInv
  <2>5. \A t \in Threads : ~Lists(t, p)
    BY <2>2 DEF Lists, Entering, At
  <2>6. \A i \in 1..Len(inbox) : FALSE
    BY <2>1, EmptySeq
  <2> QED
    BY <2>1, <2>3, <2>4, <2>5, <2>6 DEF Covered
<1>2. Inv => NothingMissed
  BY <1>1 DEF NothingMissed
<1> QED
  BY <1>2, InvHolds, PTL

\* Nobody who left stays on the screen: the answer to a consume reaches the browser
\* before the leave of its owner, or its owner is still there.
THEOREM NoGhostOfLeaverAlways == Spec => []NoGhostOfLeaver
<1>1. ASSUME Inv, Quiet, NEW p \in tiles
      PROVE  p \in listed
  <2>1. inRoom /\ inbox = <<>> /\ goodbyes = {}
    BY <1>1 DEF Quiet
  <2>2. \A i \in 1..Len(inbox) : FALSE
    BY <2>1, EmptySeq
  <2>3. GoneOrHere(p, 0)
    BY <1>1, <2>1 DEF Inv, GhostInv
  <2> QED
    BY <2>1, <2>2, <2>3 DEF GoneOrHere, LeftAfter
<1>2. Inv => NoGhostOfLeaver
  BY <1>1 DEF NoGhostOfLeaver
<1> QED
  BY <1>2, InvHolds, PTL
=============================================================================
