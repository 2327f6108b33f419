--------------------------- MODULE SegmentCapture ---------------------------
(***************************************************************************)
(* The SFU's recording manager for ONE recording of a room: the producers  *)
(* of its peers, the debounce timers, the queue on which all work of the   *)
(* recording runs one by one, the segments with their ffmpeg process and   *)
(* RTP ports, and the manifest.                                            *)
(*                                                                         *)
(* The task at the head of the queue is the one that runs, cut at its      *)
(* awaits; step says where it stands.  Producers, timers, ffmpeg and the   *)
(* stop of the recording go on meanwhile.  mediasoup and ffmpeg fail where *)
(* the code has a catch or a listener for it.                              *)
(***************************************************************************)
EXTENDS Integers, Sequences, FiniteSets

CONSTANTS
    Peers,
    NoPeer,       \* the peer of a task that is about none
    Producers,
    Owner,        \* the peer of each producer
    Media,        \* "camera", "mic" or "screen" for each producer
    NumPorts,     \* even ports of the RTP range (101 by default)
    MaxCrashes,   \* MAX_CRASHES (3 in the code)
    NumSegs,      \* bound: segments begun
    MaxFaults     \* bound: ffmpeg processes that die and calls that throw

ASSUME ProducersAssumption ==
    /\ NoPeer \notin Peers /\ IsFiniteSet(Peers)
    /\ Owner \in [Producers -> Peers]
    /\ Media \in [Producers -> {"camera", "mic", "screen"}]
ASSUME BoundsAssumption ==
    /\ NumPorts \in Nat /\ MaxCrashes \in Nat
    /\ NumSegs \in Nat /\ MaxFaults \in Nat

VARIABLES
    phase,     \* "none", "live" (in recordings), "stopping", "ended"
    here,      \* peers in the room
    prod,      \* "none", "open", "closed"; an id is never used again
    timer,     \* peers whose debounce timer runs
    queue,     \* rec.queue
    step,      \* where the task at its head stands
    source,    \* the source reconcile works on
    snap,      \* syncPeer's camera and screen
    cur,       \* the segment the task opens or closes
    left,      \* producers startSegment has not set up yet
    leaving,   \* notifyPeerLeft has synced these and will count the peers
    active,    \* rec.active: the segment of each key, 0 for none
    crashes,   \* rec.crashes
    count,     \* rec.nextIndex
    key,       \* key of each segment
    tracks,    \* its producerIds
    status,    \* "none", "starting", "active", "closing", "finished", "failed"
    ports,     \* the ports of its parts, and those that other recordings hold
    used,      \* ports.ts: used
    ff,        \* its ffmpeg: "none", "on", "exited", "killed" (by a signal, so that
               \* exitCode stays null; told apart where the code asks for it)
    finished,  \* times it was pushed to rec.finished
    manifest,  \* times the manifest lists it
    gaveUp,    \* history: keys whose last segment could not start, crashed too
               \* often, or died before the manager would hear of it
    faults

roomVars == <<here, prod>>
taskVars == <<step, source, snap, cur, left>>
segVars == <<count, key, tracks, status, ports, used, ff, finished>>
vars == <<phase, roomVars, timer, queue, taskVars, leaving, active, crashes,
          segVars, manifest, gaveUp, faults>>

Sources == {"camera", "screen"}
Keys == Peers \X Sources
NoKey == <<NoPeer, "camera">>
Segs == 1..NumSegs
Ports == 1..NumPorts

\* The pool of ports is the process's; 0 stands for the recordings of other rooms.
Holders == {0} \cup Segs

KeyOf(p) == <<Owner[p], IF Media[p] = "screen" THEN "screen" ELSE "camera">>

\* syncPeer: the producers that are open right now.
Live(k) == {p \in Producers : KeyOf(p) = k /\ k[1] \in here /\ prod[p] = "open"}

Tasks == [kind : {"sync", "left", "exit", "stop"}, peer : Peers \cup {NoPeer}, source : Sources]
Task(kind, k) == [kind |-> kind, peer |-> k[1], source |-> k[2]]

TypeOK ==
    /\ phase \in {"none", "live", "stopping", "ended"}
    /\ here \subseteq Peers
    /\ prod \in [Producers -> {"none", "open", "closed"}]
    /\ timer \subseteq Peers
    /\ queue \in Seq(Tasks)
    /\ step \in {"idle", "sync", "match", "close", "drop", "open", "parts", "part", "boot",
                 "resume", "stop"}
    /\ source \in Sources
    /\ snap \in [Sources -> SUBSET Producers]
    /\ cur \in 0..NumSegs
    /\ left \subseteq Producers
    /\ leaving \subseteq Peers
    /\ active \in [Keys -> 0..NumSegs]
    /\ crashes \in [Keys -> Nat]
    /\ count \in 0..NumSegs
    /\ key \in [Segs -> Keys \cup {NoKey}]
    /\ tracks \in [Segs -> SUBSET Producers]
    /\ status \in [Segs -> {"none", "starting", "active", "closing", "finished", "failed"}]
    /\ ports \in [Holders -> SUBSET Ports]
    /\ used \subseteq Ports
    /\ ff \in [Segs -> {"none", "on", "exited", "killed"}]
    /\ finished \in [Segs -> 0..1]
    /\ manifest \in [Segs -> 0..1]
    /\ gaveUp \subseteq Keys
    /\ faults \in 0..MaxFaults

Init ==
    /\ phase = "none"
    /\ here = {} /\ prod = [p \in Producers |-> "none"]
    /\ timer = {} /\ queue = <<>>
    /\ step = "idle" /\ source = "camera" /\ snap = [s \in Sources |-> {}]
    /\ cur = 0 /\ left = {} /\ leaving = {}
    /\ active = [k \in Keys |-> 0] /\ crashes = [k \in Keys |-> 0]
    /\ count = 0
    /\ key = [i \in Segs |-> NoKey]
    /\ tracks = [i \in Segs |-> {}]
    /\ status = [i \in Segs |-> "none"]
    /\ used \in SUBSET Ports
    /\ ports = [i \in Holders |-> IF i = 0 THEN used ELSE {}]
    /\ ff = [i \in Segs |-> "none"]
    /\ finished = [i \in Segs |-> 0] /\ manifest = [i \in Segs |-> 0]
    /\ gaveUp = {} /\ faults = 0

Fault == faults < MaxFaults /\ faults' = faults + 1

-----------------------------------------------------------------------------
(* The room, and what it calls in the manager *)

\* Mutant: a change is ignored while a task runs.
NotifyIdle(q) == timer' = IF phase = "live" /\ queue = <<>> THEN timer \cup {q} ELSE timer

\* notifyProducersChanged: a recorded room (re)starts the peer's timer.
Notify(q) == timer' = IF phase = "live" THEN timer \cup {q} ELSE timer

\* Bound: a peer joins once, to produce something; a browser that comes back is
\* another socket, and so another peer.
Join(q) ==
    /\ q \notin here
    /\ \A p \in Producers : Owner[p] = q => prod[p] = "none"
    /\ here' = here \cup {q}
    /\ UNCHANGED <<phase, prod, timer, queue, taskVars, leaving, active, crashes,
                   segVars, manifest, gaveUp, faults>>

\* Closing a transport closes what it carries.
CloseAll(q) == [p \in Producers |->
                  IF Owner[p] = q /\ prod[p] = "open" THEN "closed" ELSE prod[p]]

Produce(p) ==
    /\ Owner[p] \in here /\ prod[p] = "none"
    /\ prod' = [prod EXCEPT ![p] = "open"]
    /\ Notify(Owner[p])
    /\ UNCHANGED <<phase, here, queue, taskVars, leaving, active, crashes, segVars,
                   manifest, gaveUp, faults>>

\* The DTLS of a peer's send transport fails: it is closed with its producers, and
\* the peer stays.  Nothing closes a single producer.
CloseTransport(q) ==
    /\ \E p \in Producers : Owner[p] = q /\ prod[p] = "open"
    /\ prod' = CloseAll(q)
    /\ Notify(q)
    /\ UNCHANGED <<phase, here, queue, taskVars, leaving, active, crashes, segVars,
                   manifest, gaveUp, faults>>

\* Bound: one leave of a peer is in the queue.
CanLeave(q) ==
    q \in here /\ \A n \in 1..Len(queue) : queue[n].kind # "left" \/ queue[n].peer # q

\* removePeer closes the peer's producers, each of which sets the timer;
\* notifyPeerLeft cancels it and syncs at once.
\* Mutant: the timer is cancelled and the sync left to it.
LeaveUnsynced(q) ==
    /\ CanLeave(q)
    /\ here' = here \ {q}
    /\ prod' = CloseAll(q)
    /\ timer' = timer \ {q}
    /\ UNCHANGED <<phase, queue, taskVars, leaving, active, crashes, segVars, manifest,
                   gaveUp, faults>>

Leave(q) ==
    /\ CanLeave(q)
    /\ here' = here \ {q}
    /\ prod' = CloseAll(q)
    /\ timer' = timer \ {q}
    /\ queue' = IF phase = "live" THEN Append(queue, Task("left", <<q, "camera">>)) ELSE queue
    /\ UNCHANGED <<phase, taskVars, leaving, active, crashes, segVars, manifest, gaveUp,
                   faults>>

TimerFires(q) ==
    /\ q \in timer
    /\ timer' = timer \ {q}
    /\ queue' = Append(queue, Task("sync", <<q, "camera">>))
    /\ UNCHANGED <<phase, roomVars, taskVars, leaving, active, crashes, segVars, manifest,
                   gaveUp, faults>>

\* One sync for each peer of the room, in any order.
StartRecording ==
    /\ phase = "none"
    /\ phase' = "live"
    /\ \E q \in [1..Cardinality(here) -> here] :
          /\ \A m, n \in DOMAIN q : m # n => q[m] # q[n]
          /\ queue' = [n \in DOMAIN q |-> Task("sync", <<q[n], "camera">>)]
    /\ UNCHANGED <<roomVars, timer, taskVars, leaving, active, crashes, segVars, manifest,
                   gaveUp, faults>>

\* stopRecording STEP 2-4.
Stop ==
    /\ phase = "live"
    /\ phase' = "stopping"
    /\ timer' = {}
    /\ queue' = Append(queue, Task("stop", NoKey))

StopRequested ==
    /\ Stop
    /\ UNCHANGED <<roomVars, taskVars, leaving, active, crashes, segVars, manifest, gaveUp,
                   faults>>

\* notifyPeerLeft STEP 3: the peers are counted when the sync is done.
LeaveChecked(q) ==
    /\ q \in leaving
    /\ leaving' = leaving \ {q}
    /\ IF here = {} /\ phase = "live" THEN Stop ELSE UNCHANGED <<phase, timer, queue>>
    /\ UNCHANGED <<roomVars, taskVars, active, crashes, segVars, manifest, gaveUp, faults>>

-----------------------------------------------------------------------------
(* The task at the head of the queue *)

Running(kinds) == queue # <<>> /\ Head(queue).kind \in kinds
At(s) == queue # <<>> /\ step = s
K == <<Head(queue).peer, source>>

Done ==
    /\ queue' = Tail(queue)
    /\ step' = "idle"
    /\ leaving' = IF Head(queue).kind = "left" THEN leaving \cup {Head(queue).peer} ELSE leaving

\* reconcile is called for the camera segment and then for the screen.
NextSource ==
    /\ cur' = 0 /\ left' = {}
    /\ IF source = "camera"
       THEN source' = "screen" /\ step' = "match" /\ UNCHANGED <<queue, leaving, snap>>
       ELSE source' = "camera" /\ snap' = [s \in Sources |-> {}] /\ Done

SyncPeer ==
    /\ \/ At("idle") /\ Running({"sync", "left"})
       \/ At("sync")
    /\ source' = "camera"
    /\ IF phase = "live"
       THEN /\ snap' = [s \in Sources |-> Live(<<Head(queue).peer, s>>)]
            /\ step' = "match"
            /\ UNCHANGED <<queue, leaving>>
       ELSE Done /\ UNCHANGED snap
    /\ UNCHANGED <<phase, roomVars, timer, cur, left, active, crashes, segVars, manifest,
                   gaveUp, faults>>

\* reconcile STEP 2.
Unchanged ==
    /\ At("match") /\ active[K] # 0 /\ tracks[active[K]] = snap[source]
    /\ NextSource
    /\ UNCHANGED <<phase, roomVars, timer, active, crashes, segVars,
                   manifest, gaveUp, faults>>

\* endSegment: out of the map, and SIGINT.
End(k, next) ==
    /\ cur' = active[k]
    /\ active' = [active EXCEPT ![k] = 0]
    /\ status' = [status EXCEPT ![active[k]] = "closing"]
    /\ step' = next
    /\ UNCHANGED <<phase, roomVars, timer, queue, source, snap, left, leaving, crashes,
                   count, key, tracks, ports, used, ff, finished, manifest, gaveUp, faults>>

\* reconcile STEP 3.
EndChanged ==
    /\ At("match") /\ active[K] # 0 /\ tracks[active[K]] # snap[source]
    /\ End(K, "close")

\* The task of onUnexpectedExit: close the segment, sync the peer.
EndCrashed ==
    /\ At("idle") /\ Running({"exit"})
    /\ LET k == <<Head(queue).peer, Head(queue).source>> IN
       IF active[k] # 0
       THEN End(k, "drop")
       ELSE /\ step' = "sync"
            /\ UNCHANGED <<phase, roomVars, timer, queue, source, snap, cur, left, leaving,
                           active, crashes, segVars, manifest, gaveUp, faults>>

FreePorts(i) ==
    /\ used' = used \ ports[i]
    /\ ports' = [ports EXCEPT ![i] = {}]

\* ffmpeg is gone: stop() returns, endSegment STEP 3.  What the segment recorded
\* is in its manifest entry and matters to nobody here.
Finish(i) ==
    /\ status[i] = "closing" /\ ff[i] # "on"
    /\ FreePorts(i)
    /\ status' = [status EXCEPT ![i] = "finished"]
    /\ finished' = [finished EXCEPT ![i] = @ + 1]
    /\ tracks' = [tracks EXCEPT ![i] = {}]
    /\ key' = [key EXCEPT ![i] = NoKey]

Ended ==
    /\ At("close") \/ At("drop")
    /\ Finish(cur)
    /\ step' = IF step = "drop" THEN "sync" ELSE "open"
    /\ cur' = 0
    /\ UNCHANGED <<phase, roomVars, timer, queue, source, snap, left, leaving, active,
                   crashes, count, ff, manifest, gaveUp, faults>>

\* reconcile goes on with no segment for the key.
Free == At("open") \/ (At("match") /\ active[K] = 0)

\* reconcile STEP 4, 5.
NoSegment ==
    /\ Free /\ (snap[source] = {} \/ crashes[K] >= MaxCrashes)
    /\ gaveUp' = IF snap[source] = {} THEN gaveUp \ {K} ELSE gaveUp \cup {K}
    /\ NextSource
    /\ UNCHANGED <<phase, roomVars, timer, active, crashes, segVars,
                   manifest, faults>>

\* reconcile STEP 6.
Begin ==
    /\ Free /\ snap[source] # {} /\ crashes[K] < MaxCrashes /\ count < NumSegs
    /\ count' = count + 1
    /\ cur' = count + 1
    /\ key' = [key EXCEPT ![count + 1] = K]
    /\ tracks' = [tracks EXCEPT ![count + 1] = snap[source]]
    /\ status' = [status EXCEPT ![count + 1] = "starting"]
    /\ left' = snap[source]
    /\ step' = "parts"
    /\ UNCHANGED <<phase, roomVars, timer, queue, source, snap, leaving, active, crashes,
                   ports, used, ff, finished, manifest, gaveUp, faults>>

-----------------------------------------------------------------------------
(* startSegment *)

\* Mutant: a part that fails keeps its port.
SetupFailsKeepsPorts ==
    /\ status' = [status EXCEPT ![cur] = "failed"]
    /\ ports' = [ports EXCEPT ![cur] = {}]
    /\ gaveUp' = gaveUp \cup {K}
    /\ NextSource
    /\ UNCHANGED <<phase, roomVars, timer, active, crashes, count, key,
                   tracks, used, ff, finished, manifest>>

\* Both catch blocks and the one in reconcile: SIGKILL, ports back, no retry.
SetupFails ==
    /\ status' = [status EXCEPT ![cur] = "failed"]
    /\ FreePorts(cur)
    /\ gaveUp' = gaveUp \cup {K}
    /\ NextSource
    /\ UNCHANGED <<phase, roomVars, timer, active, crashes, count, key,
                   tracks, ff, finished, manifest>>

\* allocPort for the next producer; its transport and consumer are awaited.
TakePort ==
    /\ At("parts") /\ left # {}
    /\ \E port \in Ports \ used :
          /\ \A other \in Ports \ used : port <= other
          /\ used' = used \cup {port}
          /\ ports' = [ports EXCEPT ![cur] = @ \cup {port}]
    /\ \E p \in left : left' = left \ {p}
    /\ step' = "part"
    /\ UNCHANGED <<phase, roomVars, timer, queue, source, snap, cur, leaving, active,
                   crashes, count, key, tracks, status, ff, finished, manifest, gaveUp,
                   faults>>

NoPort ==
    /\ At("parts") /\ left # {} /\ Ports \subseteq used
    /\ SetupFails
    /\ UNCHANGED faults

PartReady ==
    /\ At("part")
    /\ step' = "parts"
    /\ UNCHANGED <<phase, roomVars, timer, queue, source, snap, cur, left, leaving, active,
                   crashes, segVars, manifest, gaveUp, faults>>

\* The SDP is written, ffmpeg started.
Spawn ==
    /\ At("parts") /\ left = {}
    /\ ff' = [ff EXCEPT ![cur] = "on"]
    /\ step' = "boot"
    /\ UNCHANGED <<phase, roomVars, timer, queue, source, snap, cur, left, leaving, active,
                   crashes, count, key, tracks, status, ports, used, finished, manifest,
                   gaveUp, faults>>

\* consume and resume reject a producer that has closed; they and the writing of
\* the SDP may fail otherwise.
SetupThrows ==
    /\ At("part") \/ (At("parts") /\ left = {}) \/ At("resume")
    /\ \/ (\E p \in tracks[cur] : prod[p] = "closed") /\ step # "parts" /\ UNCHANGED faults
       \/ Fault
    /\ SetupFails

\* 800 ms later.
BootCheck ==
    /\ At("boot")
    /\ IF ff[cur] = "exited"
       THEN SetupFails /\ UNCHANGED faults
       ELSE /\ step' = "resume"
            /\ UNCHANGED <<phase, roomVars, timer, queue, source, snap, cur, left, leaving,
                           active, crashes, segVars, manifest, gaveUp, faults>>

Resumed ==
    /\ At("resume")
    /\ status' = [status EXCEPT ![cur] = "active"]
    /\ active' = [active EXCEPT ![K] = cur]
    /\ gaveUp' = IF ff[cur] = "on" THEN gaveUp \ {K} ELSE gaveUp \cup {K}
    /\ NextSource
    /\ UNCHANGED <<phase, roomVars, timer, crashes, count, key, tracks, ports, used, ff,
                   finished, manifest, faults>>

-----------------------------------------------------------------------------
(* The last task *)

EndAll ==
    /\ At("idle") /\ Running({"stop"})
    /\ status' = [i \in Segs |-> IF status[i] = "active" THEN "closing" ELSE status[i]]
    /\ active' = [k \in Keys |-> 0]
    /\ step' = "stop"
    /\ UNCHANGED <<phase, roomVars, timer, queue, source, snap, cur, left, leaving, crashes,
                   count, key, tracks, ports, used, ff, finished, manifest, gaveUp, faults>>

EndedOne(i) ==
    /\ At("stop") /\ Finish(i)
    /\ UNCHANGED <<phase, roomVars, timer, queue, taskVars, leaving, active, crashes, count,
                   ff, manifest, gaveUp, faults>>

\* Mutant: every segment that was begun is listed.
BuildManifestOfAll ==
    /\ At("stop") /\ \A i \in Segs : status[i] # "closing"
    /\ manifest' = [i \in Segs |-> IF i <= count THEN 1 ELSE 0]
    /\ phase' = "ended"
    /\ Done
    /\ UNCHANGED <<roomVars, timer, source, snap, cur, left, active, crashes, segVars,
                   gaveUp, faults>>

BuildManifest ==
    /\ At("stop") /\ \A i \in Segs : status[i] # "closing"
    /\ manifest' = finished
    /\ phase' = "ended"
    /\ Done
    /\ UNCHANGED <<roomVars, timer, source, snap, cur, left, active, crashes, segVars,
                   gaveUp, faults>>

-----------------------------------------------------------------------------
(* ffmpeg *)

\* Mutant: SIGINT is all it gets, and a hanging process does not answer it.
FfStopsUnlessHung(i) ==
    /\ status[i] \in {"closing", "failed"} /\ ff[i] = "on" /\ Fault
    /\ ff' = [ff EXCEPT ![i] = "killed"]
    /\ UNCHANGED <<phase, roomVars, timer, queue, taskVars, leaving, active, crashes, count,
                   key, tracks, status, ports, used, finished, manifest, gaveUp>>

\* It ends on SIGINT, or after 10 s on SIGKILL; nobody is told.
FfStops(i) ==
    /\ status[i] = "closing" /\ ff[i] = "on"
    /\ ff' = [ff EXCEPT ![i] = "exited"]
    /\ UNCHANGED <<phase, roomVars, timer, queue, taskVars, leaving, active, crashes, count,
                   key, tracks, status, ports, used, finished, manifest, gaveUp, faults>>

\* It dies by itself, or killed by the catch block of startSegment:
\* onUnexpectedExit counts it against the segment that is active for the key.
FfDies(i) ==
    /\ ff[i] = "on"
    /\ \/ status[i] = "failed" /\ UNCHANGED faults
       \/ status[i] \in {"starting", "active"} /\ Fault
    /\ \/ ff' = [ff EXCEPT ![i] = "exited"]
       \/ status[i] = "starting" /\ ff' = [ff EXCEPT ![i] = "killed"]
    /\ IF phase = "live" /\ active[key[i]] # 0
       THEN /\ crashes' = [crashes EXCEPT ![key[i]] = @ + 1]
            /\ queue' = Append(queue, Task("exit", key[i]))
       ELSE UNCHANGED <<crashes, queue>>
    /\ UNCHANGED <<phase, roomVars, timer, taskVars, leaving, active, count, key, tracks,
                   status, ports, used, finished, manifest, gaveUp>>

-----------------------------------------------------------------------------
StartStep ==
    \/ TakePort \/ NoPort \/ PartReady \/ Spawn \/ SetupThrows \/ BootCheck \/ Resumed

TaskStep ==
    \/ SyncPeer \/ Unchanged \/ EndChanged \/ EndCrashed \/ Ended \/ NoSegment \/ Begin
    \/ StartStep
    \/ EndAll \/ (\E i \in Segs : EndedOne(i)) \/ BuildManifest

Next ==
    \/ \E q \in Peers :
          Join(q) \/ CloseTransport(q) \/ Leave(q) \/ TimerFires(q) \/ LeaveChecked(q)
    \/ \E p \in Producers : Produce(p)
    \/ StartRecording \/ StopRequested
    \/ TaskStep
    \/ \E i \in Segs : FfStops(i) \/ FfDies(i)

Spec == Init /\ [][Next]_vars

\* Node runs the task's continuations and the timers, and a process that was
\* sent SIGKILL is gone at some point.
Fairness ==
    /\ WF_vars(TaskStep)
    /\ \A q \in Peers : WF_vars(TimerFires(q))
    /\ \A i \in Segs : WF_vars(FfStops(i))

FairSpec == Spec /\ Fairness

-----------------------------------------------------------------------------
\* ports.ts, closeAll: the ports in use are those of the segments that are being
\* started, run or are being closed and of other rooms, no port is in two of them,
\* and this recording has none left when the manifest is built.
PortsBalance ==
    /\ used = UNION {ports[i] : i \in Holders}
    /\ \A i, j \in Holders : i # j => ports[i] \cap ports[j] = {}
    /\ phase = "ended" => used = ports[0]

\* syncPeer, notifyProducersChanged: once no timer runs for a peer and no task is
\* queued for it, its running segments record exactly its open producers, by an
\* ffmpeg that lives, except where starting one has failed or was given up.
Quiet(q) == q \notin timer /\ \A n \in 1..Len(queue) : queue[n].peer # q

SyncedWhenQuiet ==
    phase = "live" =>
        \A k \in Keys \ gaveUp : Quiet(k[1]) =>
            IF Live(k) = {} THEN active[k] = 0
            ELSE active[k] # 0 /\ tracks[active[k]] = Live(k) /\ ff[active[k]] = "on"

\* "All work for this recording runs one by one", manifest.ts: the recording is
\* what SegmentLog promises, however many tasks, timers, crashes and closing
\* producers meet.
Log == INSTANCE SegmentLog WITH
    Segments <- Segs,
    Tracks <- Producers,
    state <- [i \in Segs |->
                CASE status[i] \in {"active", "closing"} -> "open"
                  [] status[i] = "finished" -> "closed"
                  [] OTHER -> "none"],
    tracks <- [i \in Segs |->
                 IF status[i] \in {"active", "closing"} THEN tracks[i] ELSE {}],
    sealed <- phase = "ended",
    log <- manifest

LogIsKept == Log!Spec

\* stopRecording: the stop ends, whatever the queue holds before it and however
\* ffmpeg takes the signal.
StopEnds == []<>(phase # "stopping")

\* syncPeer: a producer that stays open while the recording lives gets into a
\* segment, unless its key was given up.
Recorded(p) == active[KeyOf(p)] # 0 /\ p \in tracks[active[KeyOf(p)]]

TracksAreRecorded ==
    \A p \in Producers :
        []<>(phase # "live" \/ prod[p] # "open" \/ Recorded(p) \/ KeyOf(p) \in gaveUp)
=============================================================================
