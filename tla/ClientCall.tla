------------------------------ MODULE ClientCall ------------------------------
(***************************************************************************)
(* One meeting in one browser: the CallSession of the web client, cut at    *)
(* its awaits, the socket it shares with signaling-service, and the         *)
(* producers of the other peers that it consumes and shows as tiles.         *)
(* join() and rejoin() are two threads that both run startMedia; every       *)
(* consumeOne is a task of its own.  Answers and events reach the browser    *)
(* in the order signaling sends them, on the one socket; what is on the way  *)
(* when the connection drops is lost, and its request times out.             *)
(***************************************************************************)
EXTENDS Integers, Sequences, FiniteSets

CONSTANTS
    Producers,     \* producers of the other peers
    Peers,
    Owner,         \* Producers -> Peers
    MaxDrops,      \* bound: connections lost
    MaxFaults      \* bound: requests that fail for a reason of the server's own

ASSUME OwnerAssumption == Owner \in [Producers -> Peers]
ASSUME BoundsAssumption == MaxDrops \in Nat /\ MaxFaults \in Nat

VARIABLES
    phase,         \* phase of the call store
    page,          \* RoomPage is mounted
    left,          \* this.left
    bound,         \* the session listens to its socket
    conn,          \* the socket: off, up, or down and reconnecting
    inbox,         \* what signaling has sent on this connection
    thread,        \* join and rejoin: where they are, and the fate of their request
    open,          \* the transports of this.sfu exist
    gen,           \* which SfuClient this.sfu is
    mediaReady, pending, consuming, remote,    \* fields of the session
    tasks,         \* consumeOne calls that have not returned
    tiles,         \* producers whose track the store shows
    inRoom, wired, mine,    \* the server's side of this connection: in the room,
                            \* with transports, and how many of our own producers
    here,          \* peers in the room
    listed,        \* producers the SFU has
    stopped,       \* those whose owner stopped sharing: close-producer
    news,          \* producers that signaling has still to announce
    goodbyes,      \* peers whose leave it has still to announce
    row,           \* room-service: an open participant row of the user
    byes,          \* /leave requests on their way to room-service
    over,          \* the host ended the meeting
    excused,       \* history: producers whose consume the server refused by a fault;
                   \* all of them after a rejoin that was given up
    drops, faults

store == <<phase, page>>
own == <<left, bound, open, gen, mediaReady, pending, consuming, remote, tasks, tiles>>
server == <<inRoom, wired, mine>>
others == <<here, listed, stopped, news, goodbyes>>
rest == <<row, byes, over>>
vars == <<store, own, conn, inbox, thread, server, others, rest, excused, drops, faults>>

Threads == {"join", "rejoin"}
\* The awaits of the two threads, in their order.
Awaits == {"rest", "answered", "connect", "enter", "turn", "init", "produce",
           "list", "consume", "drain"}
Idle == {"none", "done", "failed"}
\* sent; answered (the answer is in the inbox); buffered while the socket is not
\* connected; lost with a connection.
Nets == {"none", "sent", "answered", "buffered", "lost"}
Tasks == [p : Producers, g : 1..(MaxDrops + 1), by : Threads \cup {"event"},
          st : {"asked", "opening", "resuming"}, net : Nets]
Messages ==
    [k : {"new", "closed"}, p : Producers] \cup [k : {"left"}, q : Peers]
      \cup [k : {"joined", "join-error", "room-ended"}]
      \cup [k : {"thread"}, t : Threads, ok : BOOLEAN, ps : SUBSET Producers]
      \cup [k : {"task"}, t : Tasks, ok : BOOLEAN]

TypeOK ==
    /\ phase \in {"idle", "joining", "joined", "ended", "error"}
    /\ {page, left, bound, open, mediaReady, inRoom, wired, row, over} \subseteq BOOLEAN
    /\ conn \in {"off", "up", "down"}
    /\ \A i \in DOMAIN inbox : inbox[i] \in Messages
    /\ thread \in [Threads -> [pc : Awaits \cup Idle \cup {"failing"}, net : Nets]]
    /\ gen \in 1..(MaxDrops + 1)
    /\ {pending, consuming, remote, tiles, listed, stopped, news, excused}
         \subseteq SUBSET Producers
    /\ tasks \subseteq Tasks
    /\ mine \in 0..2
    /\ here \subseteq Peers /\ goodbyes \subseteq Peers
    /\ byes \subseteq {"leave", "fail"}
    /\ drops \in 0..MaxDrops /\ faults \in 0..MaxFaults

Init ==
    /\ phase = "idle" /\ page = TRUE
    /\ left = FALSE /\ bound = FALSE /\ open = FALSE /\ gen = 1 /\ mediaReady = FALSE
    /\ pending = {} /\ consuming = {} /\ remote = {} /\ tasks = {} /\ tiles = {}
    /\ conn = "off" /\ inbox = <<>>
    /\ thread = [t \in Threads |-> [pc |-> "none", net |-> "none"]]
    /\ inRoom = FALSE /\ wired = FALSE /\ mine = 0
    /\ here = Peers /\ listed \in SUBSET Producers /\ stopped = {} /\ news = {} /\ goodbyes = {}
    /\ row = FALSE /\ byes = {} /\ over = FALSE
    /\ excused = {} /\ drops = 0 /\ faults = 0

-----------------------------------------------------------------------------
(* Requests, tasks, tear-down *)

Emitted == IF conn = "up" THEN "sent" ELSE "buffered"
At(t, pc) == thread[t].pc = pc
Goto(t, pc, net) == thread' = [thread EXCEPT ![t] = [pc |-> pc, net |-> net]]

\* A fault of the server or the network, within the bound.
Faulty == faults < MaxFaults /\ faults' = faults + 1

\* What a connection takes with it: every answer still on its way.
LoseNet(net) == IF net \in {"sent", "answered"} THEN "lost" ELSE net
LoseTasks(ts) == {[t EXCEPT !.net = LoseNet(@)] : t \in ts}
LoseThreads == [t \in Threads |-> [thread[t] EXCEPT !.net = LoseNet(@)]]

\* consumeOne of several producers, as far as its first await: one that is being
\* handled already returns; without a transport it throws, and forgets it.
ConsumeAll(ps, by, base) ==
    LET fresh == ps \ consuming IN
    IF open
    THEN /\ consuming' = consuming \cup fresh
         /\ tasks' = base \cup {[p |-> p, g |-> gen, by |-> by, st |-> "asked", net |-> Emitted]
                                  : p \in fresh}
    ELSE consuming' = consuming /\ tasks' = base

\* teardown(): leave-room, close the transports, stop listening, disconnect; the
\* /leave request is on its way.
Teardown(bye) ==
    /\ open' = FALSE
    /\ bound' = FALSE
    /\ conn' = "off"
    /\ inbox' = <<>>
    /\ tasks' = LoseTasks(tasks)
    /\ inRoom' = FALSE /\ wired' = FALSE /\ mine' = 0
    /\ byes' = byes \cup {bye}

\* leave(): once.  queue is what the socket still holds.
Leave(queue) ==
    /\ left' = TRUE
    /\ IF left
       THEN inbox' = queue /\ UNCHANGED <<open, bound, conn, tasks, thread, server, byes>>
       ELSE Teardown("leave") /\ thread' = LoseThreads

\* What the catch of join() does, tear down and wait for /leave, and the catch
\* of rejoin(), which only reports.
Throw(ts, queue) ==
    /\ IF "join" \in ts THEN Teardown("fail")
       ELSE inbox' = queue /\ UNCHANGED <<open, bound, conn, tasks, server, byes>>
    /\ thread' = [t \in Threads |->
                     CASE t \notin ts -> IF "join" \in ts THEN LoseThreads[t] ELSE thread[t]
                       [] t \in ts \cap {"join"} -> [pc |-> "failing", net |-> "none"]
                       [] t \in ts \ {"join"} -> [pc |-> "none", net |-> "none"]]
    /\ phase' = IF "rejoin" \in ts THEN "error" ELSE phase
    /\ excused' = IF "rejoin" \in ts THEN Producers ELSE excused

-----------------------------------------------------------------------------
(* The page *)

\* onJoin.  Bound: one session.
ClickJoin ==
    /\ page /\ phase = "idle" /\ At("join", "none")
    /\ phase' = "joining"
    /\ Goto("join", "rest", "sent")
    /\ UNCHANGED <<page, own, conn, inbox, server, others, rest, excused, drops, faults>>

\* onLeave, in the meeting.
ClickLeave ==
    /\ page /\ phase = "joined" /\ ~left
    /\ Leave(inbox)
    /\ UNCHANGED <<store, gen, mediaReady, pending, consuming, remote, tiles,
                   others, row, over, excused, drops, faults>>

\* The page is left at any moment: leave(), and the store is reset.
Unmount ==
    /\ page /\ ~At("join", "none")
    /\ page' = FALSE
    /\ Leave(inbox)
    /\ phase' = "idle"
    /\ tiles' = {}
    /\ UNCHANGED <<gen, mediaReady, pending, consuming, remote,
                   others, row, over, excused, drops, faults>>

-----------------------------------------------------------------------------
(* room-service *)

\* /join: the row is created, or the room has ended; the answer may be lost.
RestJoin ==
    /\ At("join", "rest")
    /\ \/ /\ ~over
          /\ row' = TRUE
          /\ Goto("join", "answered", "none")
          /\ UNCHANGED <<store, own, conn, inbox, server, byes, excused, faults>>
       \/ /\ row' \in (IF over THEN {row} ELSE {row, TRUE})
          /\ over \/ Faulty
          /\ over => faults' = faults
          /\ Throw({"join"}, inbox)
          /\ UNCHANGED <<page, left, gen, mediaReady, pending, consuming, remote, tiles>>
    /\ UNCHANGED <<others, over, drops>>

\* /leave: every open row of the user is closed.
RestLeave(b) ==
    /\ b \in byes
    /\ byes' = byes \ {b}
    /\ \/ row' = FALSE /\ UNCHANGED faults
       \/ Faulty /\ UNCHANGED row
    /\ UNCHANGED <<store, own, conn, inbox, thread, server, others, over, excused, drops>>

\* The host ends the meeting; signaling forwards room-ended to the room.
EndMeeting ==
    /\ ~over
    /\ over' = TRUE
    /\ inbox' = IF inRoom THEN Append(inbox, [k |-> "room-ended"]) ELSE inbox
    /\ UNCHANGED <<store, own, conn, thread, server, others, row, byes, excused, drops, faults>>

-----------------------------------------------------------------------------
(* The connection *)

\* join() after its REST call, whatever happened meanwhile: listen, connect.
Connect ==
    /\ At("join", "answered")
    /\ bound' = TRUE
    /\ Goto("join", "connect", "none")
    /\ UNCHANGED <<store, left, open, gen, mediaReady, pending, consuming, remote, tasks, tiles,
                   conn, inbox, server, others, rest, excused, drops, faults>>

\* The socket is connected: join-room is sent.
Connected ==
    /\ At("join", "connect") /\ bound
    /\ conn' = "up"
    /\ Goto("join", "enter", "sent")
    /\ UNCHANGED <<store, own, inbox, server, others, rest, excused, drops, faults>>

\* waitForConnect gives up: an error, or its timer.
ConnectFails ==
    /\ At("join", "connect")
    /\ IF bound THEN Faulty ELSE UNCHANGED faults
    /\ Throw({"join"}, inbox)
    /\ UNCHANGED <<page, left, gen, mediaReady, pending, consuming, remote, tiles,
                   others, row, over, drops>>

Drop ==
    /\ conn = "up" /\ drops < MaxDrops
    /\ drops' = drops + 1
    /\ conn' = "down"
    /\ inbox' = <<>>
    /\ thread' = LoseThreads
    /\ tasks' = LoseTasks(tasks)
    /\ inRoom' = FALSE /\ wired' = FALSE /\ mine' = 0
    /\ UNCHANGED <<store, left, bound, open, gen, mediaReady, pending, consuming, remote,
                   tiles, others, rest, excused, faults>>

\* What was emitted meanwhile is sent now.
FlushNet(net) == IF net = "buffered" THEN "sent" ELSE net
FlushTasks(ts) == {[t EXCEPT !.net = FlushNet(@)] : t \in ts}
Flushed == [t \in Threads |-> [thread[t] EXCEPT !.net = FlushNet(@)]]

\* Mutant: the tracks of the old connection stay in the store.
StartRejoinKeepsTiles ==
    /\ mediaReady' = FALSE
    /\ pending' = {} /\ remote' = {} /\ consuming' = {} /\ tiles' = tiles
    /\ open' = FALSE
    /\ gen' = gen + 1
    /\ excused' = {}
    /\ thread' = [Flushed EXCEPT !["rejoin"] = [pc |-> "enter", net |-> "sent"]]

\* Mutant: a second client is made for the new socket.
StartRejoinTwoClients ==
    /\ mediaReady' = FALSE
    /\ pending' = {} /\ remote' = {} /\ consuming' = {} /\ tiles' = {}
    /\ open' = FALSE
    /\ gen' = gen + 2
    /\ excused' = {}
    /\ thread' = [Flushed EXCEPT !["rejoin"] = [pc |-> "enter", net |-> "sent"]]

\* rejoin(): forget everything, a new SfuClient, join-room.
StartRejoin ==
    /\ mediaReady' = FALSE
    /\ pending' = {} /\ remote' = {} /\ consuming' = {} /\ tiles' = {}
    /\ open' = FALSE
    /\ gen' = gen + 1
    /\ excused' = {}
    /\ thread' = [Flushed EXCEPT !["rejoin"] = [pc |-> "enter", net |-> "sent"]]

\* The reconnect listener starts rejoin(), unless one is running or we left.
Reconnect ==
    /\ conn = "down"
    /\ conn' = "up"
    /\ tasks' = FlushTasks(tasks)
    /\ IF At("rejoin", "none") /\ ~left
       THEN StartRejoin
       ELSE /\ thread' = Flushed
            /\ UNCHANGED <<mediaReady, pending, remote, consuming, tiles, open, gen, excused>>
    /\ UNCHANGED <<store, left, bound, inbox, server, others, rest, drops, faults>>

-----------------------------------------------------------------------------
(* signaling and the SFU, for this connection *)

Reply(m) == inbox' = Append(inbox, m)
Answered(t) == thread' = [thread EXCEPT ![t].net = "answered"]

\* join-room: refused when the socket is in a room already, or room-service fails.
ServeJoin(t) ==
    /\ At(t, "enter") /\ thread[t].net = "sent"
    /\ \/ ~inRoom /\ inRoom' = TRUE /\ Reply([k |-> "joined"]) /\ UNCHANGED faults
       \/ /\ Reply([k |-> "join-error"])
          /\ IF inRoom THEN UNCHANGED faults ELSE Faulty
          /\ UNCHANGED inRoom
    /\ Answered(t)
    /\ UNCHANGED <<store, own, conn, wired, mine, others, rest, excused, drops>>

\* Mutant: a second pair of transports is made for the same peer.
ServeInitAgain(t) ==
    /\ At(t, "init") /\ thread[t].net = "sent"
    /\ \E ok \in BOOLEAN :
          /\ ok => inRoom
          /\ IF ~ok /\ inRoom THEN Faulty ELSE UNCHANGED faults
          /\ wired' = (wired \/ ok)
          /\ Reply([k |-> "thread", t |-> t, ok |-> ok, ps |-> {}])
    /\ Answered(t)
    /\ UNCHANGED <<store, own, conn, inRoom, mine, others, rest, excused, drops>>

\* The requests of SfuClient.init, taken as one: a second pair of transports of
\* the peer is refused.
ServeInit(t) ==
    /\ At(t, "init") /\ thread[t].net = "sent"
    /\ \E ok \in BOOLEAN :
          /\ ok => inRoom /\ ~wired
          /\ IF ~ok /\ inRoom /\ ~wired THEN Faulty ELSE UNCHANGED faults
          /\ wired' = (wired \/ ok)
          /\ Reply([k |-> "thread", t |-> t, ok |-> ok, ps |-> {}])
    /\ Answered(t)
    /\ UNCHANGED <<store, own, conn, inRoom, mine, others, rest, excused, drops>>

\* produce of microphone and camera, taken as one; a refusal is only logged.
ServeProduce(t) ==
    /\ At(t, "produce") /\ thread[t].net = "sent"
    /\ \E ok \in BOOLEAN :
          /\ ok => inRoom /\ wired
          /\ IF ~ok /\ inRoom /\ wired THEN Faulty ELSE UNCHANGED faults
          /\ mine' = IF ok THEN mine + 1 ELSE mine
          /\ Reply([k |-> "thread", t |-> t, ok |-> ok, ps |-> {}])
    /\ Answered(t)
    /\ UNCHANGED <<store, own, conn, inRoom, wired, others, rest, excused, drops>>

\* get-producers.
ServeList(t) ==
    /\ At(t, "list") /\ thread[t].net = "sent"
    /\ \E ok \in BOOLEAN :
          /\ ok => inRoom
          /\ IF ~ok /\ inRoom THEN Faulty ELSE UNCHANGED faults
          /\ Reply([k |-> "thread", t |-> t, ok |-> ok, ps |-> listed])
    /\ Answered(t)
    /\ UNCHANGED <<store, own, conn, server, others, rest, excused, drops>>

\* consume, and resume-consumer: the consumer of a closed producer is gone.
ServeTask(t) ==
    /\ t \in tasks /\ t.net = "sent"
    /\ LET can == inRoom /\ wired /\ t.p \in listed
           to == [t EXCEPT !.net = "answered"]
       IN \E ok \in BOOLEAN :
             /\ ok => can
             /\ IF ~ok /\ can THEN Faulty /\ excused' = excused \cup {t.p}
                ELSE UNCHANGED <<faults, excused>>
             /\ tasks' = (tasks \ {t}) \cup {to}
             /\ Reply([k |-> "task", t |-> to, ok |-> ok])
    /\ UNCHANGED <<store, left, bound, open, gen, mediaReady, pending, consuming, remote, tiles,
                   conn, thread, server, others, rest, drops>>

-----------------------------------------------------------------------------
(* The other peers *)

Tell(m) == inbox' = IF inRoom THEN Append(inbox, m) ELSE inbox

\* A peer produces: the SFU lists it before signaling tells the room.
Publish(p) ==
    /\ Owner[p] \in here /\ p \notin listed
    /\ listed' = listed \cup {p}
    /\ news' = news \cup {p}
    /\ UNCHANGED <<store, own, conn, inbox, thread, server, here, stopped, goodbyes,
                   rest, excused, drops, faults>>

Announce(p) ==
    /\ p \in news
    /\ news' = news \ {p}
    /\ Tell([k |-> "new", p |-> p])
    /\ UNCHANGED <<store, own, conn, thread, server, here, listed, stopped, goodbyes,
                   rest, excused, drops, faults>>

\* close-producer only tells the room: the SFU keeps the producer.
StopShare(p) ==
    /\ p \in listed \ (stopped \cup news)
    /\ stopped' = stopped \cup {p}
    /\ Tell([k |-> "closed", p |-> p])
    /\ UNCHANGED <<store, own, conn, thread, server, here, listed, news, goodbyes,
                   rest, excused, drops, faults>>

PeerLeaves(q) ==
    /\ q \in here
    /\ here' = here \ {q}
    /\ listed' = {p \in listed : Owner[p] # q}
    /\ goodbyes' = goodbyes \cup {q}
    /\ UNCHANGED <<store, own, conn, inbox, thread, server, stopped, news,
                   rest, excused, drops, faults>>

\* producer-closed of each producer and peer-left, which undoes what they undo.
AnnounceLeave(q) ==
    /\ q \in goodbyes
    /\ goodbyes' = goodbyes \ {q}
    /\ Tell([k |-> "left", q |-> q])
    /\ UNCHANGED <<store, own, conn, thread, server, here, listed, stopped, news,
                   rest, excused, drops, faults>>

-----------------------------------------------------------------------------
(* Messages to the session *)

Head1 == Head(inbox)
Heard(k) == conn = "up" /\ inbox # <<>> /\ Head1.k = k
Pop == inbox' = Tail(inbox)
Others == UNCHANGED <<page, others, row, over, drops, faults>>

\* Every thread that waits for it: the listeners are on the shared socket.
HearJoined ==
    /\ Heard("joined") /\ Pop
    /\ thread' = [t \in Threads |-> IF At(t, "enter") THEN [pc |-> "turn", net |-> "none"]
                                    ELSE thread[t]]
    /\ mediaReady' = (mediaReady /\ \A t \in Threads : ~At(t, "enter"))
    /\ UNCHANGED <<phase, left, bound, open, gen, pending, consuming, remote, tasks, tiles,
                   conn, server, byes, excused>>
    /\ Others

HearJoinError ==
    /\ Heard("join-error")
    /\ Throw({t \in Threads : At(t, "enter")}, Tail(inbox))
    /\ UNCHANGED <<left, gen, mediaReady, pending, consuming, remote, tiles>>
    /\ Others

HearThread(t) ==
    /\ Heard("thread") /\ Head1.t = t
    /\ CASE At(t, "init") /\ Head1.ok ->
              /\ open' = TRUE
              /\ Goto(t, "produce", "sent") /\ Pop
              /\ UNCHANGED <<phase, bound, conn, consuming, tasks, server, byes, excused>>
         [] At(t, "produce") ->
              /\ Goto(t, "list", "sent") /\ Pop
              /\ UNCHANGED <<phase, bound, conn, open, consuming, tasks, server, byes, excused>>
         [] At(t, "list") /\ Head1.ok ->
              /\ ConsumeAll(Head1.ps, t, tasks)
              /\ Goto(t, "consume", "none") /\ Pop
              /\ UNCHANGED <<phase, bound, conn, open, server, byes, excused>>
         [] ~Head1.ok /\ ~At(t, "produce") ->
              Throw({t}, Tail(inbox)) /\ UNCHANGED consuming
    /\ UNCHANGED <<left, gen, mediaReady, pending, remote, tiles>>
    /\ Others

\* Mutant: what comes before the media is ready is ignored.
HearNewWhenReady ==
    /\ Heard("new") /\ Pop
    /\ IF mediaReady THEN ConsumeAll({Head1.p}, "event", tasks)
       ELSE UNCHANGED <<consuming, tasks>>
    /\ UNCHANGED <<phase, left, bound, open, gen, mediaReady, pending, remote, tiles,
                   conn, thread, server, byes, excused>>
    /\ Others

\* onNewProducer: kept until the media is ready.
HearNew ==
    /\ Heard("new") /\ Pop
    /\ IF mediaReady
       THEN ConsumeAll({Head1.p}, "event", tasks) /\ UNCHANGED pending
       ELSE pending' = pending \cup {Head1.p} /\ UNCHANGED <<consuming, tasks>>
    /\ UNCHANGED <<phase, left, bound, open, gen, mediaReady, remote, tiles,
                   conn, thread, server, byes, excused>>
    /\ Others

Forget(ps) == remote' = remote \ ps /\ consuming' = consuming \ (ps \cap remote)

\* onProducerClosed: one that is still being consumed is not in the map.
HearClosed ==
    /\ Heard("closed") /\ Pop
    /\ Forget({Head1.p})
    /\ tiles' = tiles \ ({Head1.p} \cap remote)
    /\ UNCHANGED <<phase, left, bound, open, gen, mediaReady, pending, tasks,
                   conn, thread, server, byes, excused>>
    /\ Others

\* removePeer: the store drops every track of the peer.
HearLeft ==
    /\ Heard("left") /\ Pop
    /\ LET ps == {p \in Producers : Owner[p] = Head1.q}
       IN Forget(ps) /\ tiles' = tiles \ ps
    /\ UNCHANGED <<phase, left, bound, open, gen, mediaReady, pending, tasks,
                   conn, thread, server, byes, excused>>
    /\ Others

HearEnded ==
    /\ Heard("room-ended")
    /\ phase' = "ended"
    /\ Leave(Tail(inbox))
    /\ UNCHANGED <<gen, mediaReady, pending, consuming, remote, tiles, excused>>
    /\ Others

-----------------------------------------------------------------------------
(* startMedia, and the end of the threads *)

\* The TURN credentials came, or not.
StartInit(t) ==
    /\ At(t, "turn")
    /\ Goto(t, "init", Emitted)
    /\ UNCHANGED <<store, own, conn, inbox, server, others, rest, excused, drops, faults>>

\* Mutant: the requests of SfuClient.init are sent without a timer.
TimeoutExceptInit(t) ==
    /\ thread[t].net \in {"lost", "buffered"} /\ ~At(t, "init")
    /\ IF At(t, "produce")
       THEN /\ Goto(t, "list", Emitted)
            /\ UNCHANGED <<phase, open, bound, conn, inbox, tasks, server, byes, excused>>
       ELSE Throw({t}, inbox)
    /\ UNCHANGED <<page, left, gen, mediaReady, pending, consuming, remote, tiles,
                   others, row, over, drops, faults>>

\* A request of which no answer will come times out after 10 s.
Timeout(t) ==
    /\ thread[t].net \in {"lost", "buffered"}
    /\ IF At(t, "produce")
       THEN /\ Goto(t, "list", Emitted)
            /\ UNCHANGED <<phase, open, bound, conn, inbox, tasks, server, byes, excused>>
       ELSE Throw({t}, inbox)
    /\ UNCHANGED <<page, left, gen, mediaReady, pending, consuming, remote, tiles,
                   others, row, over, drops, faults>>

NoTask(t) == \A k \in tasks : k.by # t

\* The existing producers are done: from now on events are served at once, and
\* those that were queued are consumed.
MediaReady(t) ==
    /\ At(t, "consume") /\ NoTask(t)
    /\ mediaReady' = TRUE
    /\ pending' = {}
    /\ ConsumeAll(pending, t, tasks)
    /\ Goto(t, "drain", "none")
    /\ UNCHANGED <<store, left, bound, open, gen, remote, tiles, conn, inbox, server,
                   others, rest, excused, drops, faults>>

ThreadDone(t) ==
    /\ At(t, "drain") /\ NoTask(t)
    /\ Goto(t, IF t = "join" THEN "done" ELSE "none", "none")
    /\ phase' = IF t = "join" THEN "joined" ELSE phase
    /\ UNCHANGED <<page, own, conn, inbox, server, others, rest, excused, drops, faults>>

JoinFailed ==
    /\ At("join", "failing") /\ "fail" \notin byes
    /\ Goto("join", "failed", "none")
    /\ phase' = "error"
    /\ UNCHANGED <<page, own, conn, inbox, server, others, rest, excused, drops, faults>>

-----------------------------------------------------------------------------
(* consumeOne *)

\* It throws: its producer may be consumed again.
TaskFails(t) ==
    /\ tasks' = tasks \ {t}
    /\ consuming' = consuming \ {t.p}
    /\ UNCHANGED <<remote, tiles>>

HearTask(t) ==
    /\ Heard("task") /\ Head1.t = t /\ Pop
    /\ CASE Head1.ok /\ t.st = "asked" /\ open /\ t.g = gen ->
              /\ tasks' = (tasks \ {t}) \cup {[t EXCEPT !.st = "opening", !.net = "none"]}
              /\ UNCHANGED <<consuming, remote, tiles>>
         [] Head1.ok /\ t.st = "resuming" ->
              /\ tasks' = tasks \ {t}
              /\ remote' = remote \cup {t.p}
              /\ tiles' = tiles \cup {t.p}
              /\ UNCHANGED consuming
         [] ~Head1.ok \/ (t.st = "asked" /\ ~(open /\ t.g = gen)) -> TaskFails(t)
    /\ UNCHANGED <<phase, left, bound, open, gen, mediaReady, pending,
                   conn, thread, server, byes, excused>>
    /\ Others

\* Mutant: resume-consumer is not awaited.
OpenConsumerAndShow(t) ==
    /\ t \in tasks /\ t.st = "opening"
    /\ IF open /\ t.g = gen
       THEN /\ tasks' = tasks \ {t}
            /\ remote' = remote \cup {t.p}
            /\ tiles' = tiles \cup {t.p}
            /\ UNCHANGED consuming
       ELSE TaskFails(t)
    /\ UNCHANGED <<store, left, bound, open, gen, mediaReady, pending, conn, inbox,
                   thread, server, others, rest, excused, drops, faults>>

\* recvTransport.consume returns, unless its transport was closed; resume-consumer.
OpenConsumer(t) ==
    /\ t \in tasks /\ t.st = "opening"
    /\ IF open /\ t.g = gen
       THEN /\ tasks' = (tasks \ {t}) \cup {[t EXCEPT !.st = "resuming", !.net = Emitted]}
            /\ UNCHANGED <<consuming, remote, tiles>>
       ELSE TaskFails(t)
    /\ UNCHANGED <<store, left, bound, open, gen, mediaReady, pending, conn, inbox,
                   thread, server, others, rest, excused, drops, faults>>

TaskTimeout(t) ==
    /\ t \in tasks /\ t.net \in {"lost", "buffered"}
    /\ TaskFails(t)
    /\ UNCHANGED <<store, left, bound, open, gen, mediaReady, pending, conn, inbox,
                   thread, server, others, rest, excused, drops, faults>>

-----------------------------------------------------------------------------
Hear ==
    \/ HearJoined \/ HearJoinError \/ HearNew \/ HearClosed \/ HearLeft \/ HearEnded
    \/ \E t \in Threads : HearThread(t)
    \/ \E t \in tasks : HearTask(t)

ThreadStep(t) ==
    \/ ServeJoin(t) \/ ServeInit(t) \/ ServeProduce(t) \/ ServeList(t)
    \/ StartInit(t) \/ Timeout(t) \/ MediaReady(t) \/ ThreadDone(t)

JoinStep == RestJoin \/ Connect \/ Connected \/ ConnectFails \/ JoinFailed

TaskStep(t) == ServeTask(t) \/ OpenConsumer(t) \/ TaskTimeout(t)

Next ==
    \/ ClickJoin \/ ClickLeave \/ Unmount \/ EndMeeting
    \/ JoinStep \/ Hear \/ Drop \/ Reconnect
    \/ \E b \in byes : RestLeave(b)
    \/ \E t \in Threads : ThreadStep(t)
    \/ \E t \in tasks : TaskStep(t)
    \/ \E p \in Producers : Publish(p) \/ Announce(p) \/ StopShare(p)
    \/ \E q \in Peers : PeerLeaves(q) \/ AnnounceLeave(q)

Spec == Init /\ [][Next]_vars

\* Every request is answered or times out, every message and every promise is
\* delivered, and a lost connection comes back.
Progress ==
    \/ JoinStep \/ Hear \/ Reconnect
    \/ \E b \in byes : RestLeave(b)
    \/ \E t \in Threads : ThreadStep(t)
    \/ \E t \in tasks : TaskStep(t)

FairSpec == Spec /\ WF_vars(Progress)

-----------------------------------------------------------------------------
(* Properties *)

\* The session is in the meeting, and nothing is under way.
Quiet ==
    /\ phase = "joined" /\ conn = "up" /\ inRoom
    /\ At("join", "done") /\ At("rejoin", "none")
    /\ inbox = <<>> /\ tasks = {} /\ news = {} /\ goodbyes = {}

\* Whatever is shown can be taken off again: a track in the store is in the
\* session's map, where producer-closed and peer-left look for it, through every
\* overlap of join(), rejoin() and the consumes that one of them abandoned.
TilesAreRemovable == tiles \subseteq remote

\* A producer is not overlooked, whether it came before the listing, between the
\* listing and mediaReady, or afterwards: once all is quiet it is shown, unless
\* the server failed the session or its owner stopped sharing it.
NothingMissed == Quiet => listed \ excused \subseteq tiles \cup stopped

\* Nobody who left is still on the screen, however far his consume had come.
NoGhostOfLeaver == Quiet => tiles \subseteq listed

\* The others never get the microphone twice, though join() and rejoin() may
\* both go through startMedia on one connection.
OneOfMe == mine <= 1

\* "Joining..." ends: in the meeting, in an error, or with the page.
JoinSettles == []<>(phase # "joining")

-----------------------------------------------------------------------------
(* What the code says and does not keep *)

\* FRONTEND/web/src/pages/RoomPage.tsx:55, "leaving the page (Back button) leaves
\* the meeting": when all is over, the socket is closed and the row as well.
LeavingLeaves ==
    ~page /\ thread["join"].pc \in Idle /\ At("rejoin", "none") /\ byes = {}
       => conn = "off" /\ ~row
=============================================================================
