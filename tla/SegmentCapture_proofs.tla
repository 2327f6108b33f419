------------------------- MODULE SegmentCapture_proofs -------------------------
(***************************************************************************)
(* Safety of SegmentCapture for any peers, producers, ports, segments and   *)
(* failures, and that it implements SegmentLog.                             *)
(***************************************************************************)
EXTENDS SegmentCapture, FiniteSetTheorems, SequenceTheorems, TLAPS

USE DEF roomVars, taskVars, segVars

\* Where a task stands in startSegment.
Setup == {"parts", "part", "boot", "resume"}

\* The tasks of a peer come before the one that stops the recording; the one at
\* the head is the one that runs.
QueueInv ==
    /\ phase \in {"none", "ended"} => queue = <<>>
    /\ timer # {} => phase = "live"
    /\ \A n \in 1..Len(queue) :
          IF queue[n].kind = "stop" THEN n = Len(queue) /\ phase = "stopping"
          ELSE queue[n].peer \in Peers
    /\ queue = <<>> => step = "idle"
    /\ step = "stop" => Head(queue).kind = "stop"
    /\ step \notin {"idle", "stop"} => Head(queue).kind # "stop"

\* What syncPeer read is of the task's peer.
SnapInv ==
    \A s \in Sources :
        IF step \in {"idle", "sync", "drop", "stop"} THEN snap[s] = {}
        ELSE \A p \in snap[s] : KeyOf(p) = <<Head(queue).peer, s>>

\* A segment that is being started or closed is the one of the task that runs;
\* the active ones are those of the map.
Used == {"starting", "active", "closing"}
SegInv ==
    /\ \A i \in Segs : i > count <=> status[i] = "none"
    /\ step \in Setup => cur \in Segs /\ status[cur] = "starting" /\ key[cur] = K
    /\ step \in Setup \cup {"open"} => active[K] = 0
    /\ \A i \in Segs : status[i] = "starting" => i = cur /\ step \in Setup
    /\ step \in {"close", "drop"} => cur \in Segs /\ status[cur] = "closing"
    /\ step = "close" => active[K] = 0
    /\ \A i \in Segs : status[i] = "closing" =>
          step = "stop" \/ (i = cur /\ step \in {"close", "drop"})
    /\ \A k \in Keys : active[k] # 0 => status[active[k]] = "active" /\ key[active[k]] = k
    /\ \A i \in Segs : status[i] = "active" => active[key[i]] = i
    /\ step = "stop" \/ phase = "ended" => \A k \in Keys : active[k] = 0

\* What a segment is made of.
HoldInv ==
    /\ \A i \in Segs : status[i] \in Used \cup {"failed"} => key[i] \in Keys
    /\ \A i \in Segs : status[i] \in Used =>
          tracks[i] # {} /\ \A p \in tracks[i] : KeyOf(p) = key[i]
    /\ \A i \in Segs : ports[i] # {} => status[i] \in Used
    /\ \A i \in Segs : finished[i] = IF status[i] = "finished" THEN 1 ELSE 0
    /\ \A i \in Segs : manifest[i] = IF phase = "ended" THEN finished[i] ELSE 0

PortInv ==
    /\ used = UNION {ports[i] : i \in Holders}
    /\ \A i, j \in Holders : i # j => ports[i] \cap ports[j] = {}

Inv == TypeOK /\ QueueInv /\ SnapInv /\ SegInv /\ HoldInv /\ PortInv

RoomTyped ==
    /\ here \subseteq Peers
    /\ prod \in [Producers -> {"none", "open", "closed"}]
    /\ leaving \subseteq Peers
    /\ crashes \in [Keys -> Nat]
    /\ gaveUp \subseteq Keys
    /\ faults \in 0..MaxFaults

TaskTyped ==
    /\ phase \in {"none", "live", "stopping", "ended"}
    /\ timer \subseteq Peers
    /\ queue \in Seq(Tasks)
    /\ step \in {"idle", "sync", "match", "close", "drop", "open", "parts", "part", "boot",
                 "resume", "stop"}
    /\ source \in Sources
    /\ snap \in [Sources -> SUBSET Producers]
    /\ cur \in 0..NumSegs
    /\ left \subseteq Producers

SegTyped ==
    /\ active \in [Keys -> 0..NumSegs]
    /\ count \in 0..NumSegs
    /\ key \in [Segs -> Keys \cup {NoKey}]
    /\ tracks \in [Segs -> SUBSET Producers]
    /\ status \in [Segs -> {"none", "starting", "active", "closing", "finished", "failed"}]
    /\ ports \in [Holders -> SUBSET Ports]
    /\ used \subseteq Ports
    /\ ff \in [Segs -> {"none", "on", "exited", "killed"}]
    /\ finished \in [Segs -> 0..1]
    /\ manifest \in [Segs -> 0..1]

LEMMA TypeParts == TypeOK <=> RoomTyped /\ TaskTyped /\ SegTyped
  BY DEF TypeOK, RoomTyped, TaskTyped, SegTyped

LEMMA TypePartsNext == TypeOK' <=> RoomTyped' /\ TaskTyped' /\ SegTyped'
  BY DEF TypeOK, RoomTyped, TaskTyped, SegTyped

-----------------------------------------------------------------------------
(* The queue *)

LEMMA TaskTypes ==
  /\ \A q \in Peers : LET x == Task("sync", <<q, "camera">>) IN
        x \in Tasks /\ x.kind = "sync" /\ x.peer = q
  /\ \A q \in Peers : LET x == Task("left", <<q, "camera">>) IN
        x \in Tasks /\ x.kind = "left" /\ x.peer = q
  /\ Task("stop", NoKey) \in Tasks
  /\ Task("stop", NoKey).kind = "stop"
  /\ \A k \in Keys : Task("exit", k) \in Tasks /\ Task("exit", k).kind = "exit"
                     /\ Task("exit", k).peer \in Peers
  BY DEF Task, Tasks, Sources, NoKey, Keys

\* The task that runs.
LEMMA HeadFacts ==
  ASSUME TypeOK, QueueInv, queue # <<>>
  PROVE  /\ Len(queue) \in Nat /\ Len(queue) >= 1 /\ Head(queue) = queue[1]
         /\ Head(queue) \in Tasks
         /\ Head(queue).kind # "stop" => Head(queue).peer \in Peers
         /\ phase \in {"live", "stopping"}
<1>1. queue \in Seq(Tasks) /\ phase \in {"none", "live", "stopping", "ended"}
  BY DEF TypeOK
<1>2. Len(queue) \in Nat /\ Len(queue) >= 1 /\ Head(queue) = queue[1] /\ Head(queue) \in Tasks
  BY <1>1, HeadTailProperties, LenProperties, EmptySeq
<1> QED
  BY <1>1, <1>2 DEF QueueInv

LEMMA KeyFacts ==
  ASSUME TypeOK, QueueInv, queue # <<>>, Head(queue).kind # "stop"
  PROVE  K \in Keys
  BY HeadFacts DEF K, Keys, TypeOK

\* A task is appended; the stop only when the recording stops.
LEMMA QueueAppend ==
  ASSUME TypeOK, QueueInv, NEW x \in Tasks, queue' = Append(queue, x), step' = step,
         phase = "live",
         IF x.kind = "stop" THEN phase' = "stopping" /\ timer' = {}
         ELSE x.peer \in Peers /\ phase' = "live"
  PROVE  QueueInv' /\ queue' \in Seq(Tasks) /\ (queue # <<>> => Head(queue') = Head(queue))
<1>1. queue \in Seq(Tasks) /\ Len(queue) \in Nat
  BY LenProperties DEF TypeOK
<1>2. /\ queue' \in Seq(Tasks) /\ Len(queue') = Len(queue) + 1 /\ queue' # <<>>
      /\ \A n \in 1..Len(queue) : queue'[n] = queue[n]
      /\ queue'[Len(queue) + 1] = x
  BY <1>1, AppendProperties, EmptySeq
<1>3. queue # <<>> => Head(queue') = Head(queue)
  BY <1>1, <1>2, HeadFacts, HeadTailProperties
<1>4. \A n \in 1..Len(queue) : queue[n].kind # "stop" /\ queue[n].peer \in Peers
  BY DEF QueueInv
<1>5. \A n \in 1..Len(queue') : n \in 1..Len(queue) \/ n = Len(queue) + 1
  BY <1>1, <1>2
<1>6. \A n \in 1..Len(queue') :
         IF queue'[n].kind = "stop" THEN n = Len(queue') /\ phase' = "stopping"
         ELSE queue'[n].peer \in Peers
  BY <1>1, <1>2, <1>4, <1>5
<1>7. queue = <<>> => step = "idle"
  BY DEF QueueInv
<1>8. /\ step' = "stop" => Head(queue').kind = "stop"
      /\ step' \notin {"idle", "stop"} => Head(queue').kind # "stop"
  BY <1>3, <1>7 DEF QueueInv
<1>9. timer' # {} => phase' = "live"
  OBVIOUS
<1> QED
  BY <1>2, <1>3, <1>6, <1>8, <1>9 DEF QueueInv

\* The task is done.
LEMMA QueueDone ==
  ASSUME TypeOK, QueueInv, Done, queue # <<>>, timer' = timer,
         phase' = phase \/ (Head(queue).kind = "stop" /\ phase' = "ended")
  PROVE  QueueInv' /\ queue' \in Seq(Tasks) /\ step' = "idle" /\ leaving' \subseteq Peers
<1>1. queue \in Seq(Tasks) /\ leaving \subseteq Peers /\ queue' = Tail(queue) /\ step' = "idle"
  BY DEF TypeOK, Done
<1>2. /\ queue' \in Seq(Tasks) /\ Len(queue') = Len(queue) - 1
      /\ \A n \in 1..Len(queue') : queue'[n] = queue[n + 1]
  BY <1>1, HeadTailProperties
<1>3. leaving' \subseteq Peers
  BY <1>1, HeadFacts DEF Done
<1>4. \A n \in 1..Len(queue') : n + 1 \in 1..Len(queue)
  <2>1. Len(queue) \in Nat
    BY <1>1, LenProperties
  <2> QED
    BY <1>2, <2>1
<1>5. CASE Head(queue).kind # "stop"
  <2>1. phase' = phase
    BY <1>5
  <2>2. \A n \in 1..Len(queue') :
           IF queue'[n].kind = "stop" THEN n = Len(queue') /\ phase' = "stopping"
           ELSE queue'[n].peer \in Peers
    BY <1>2, <1>4, <2>1, HeadFacts DEF QueueInv
  <2>3. QueueInv'
    BY <1>1, <2>1, <2>2, HeadFacts DEF QueueInv
  <2> QED
    BY <1>1, <1>2, <1>3, <2>3
<1>6. CASE Head(queue).kind = "stop"
  <2>1. Len(queue) = 1 /\ phase = "stopping" /\ timer = {}
    <3>1. 1 \in 1..Len(queue) /\ queue[1].kind = "stop"
      BY <1>6, HeadFacts
    <3> QED
      BY <3>1 DEF QueueInv
  <2>2. queue' = <<>>
    BY <1>2, <2>1, EmptySeq
  <2>3. 1..Len(queue') = {}
    BY <1>2, <2>1
  <2>4. QueueInv'
    BY <1>1, <2>1, <2>2, <2>3 DEF QueueInv
  <2> QED
    BY <1>1, <1>2, <1>3, <2>4
<1> QED
  BY <1>5, <1>6

-----------------------------------------------------------------------------
(* Steps that leave the segments to themselves *)

LEMMA Frame ==
  ASSUME SnapInv, SegInv, HoldInv, PortInv, QueueInv,
         UNCHANGED <<step, source, snap, cur, active, count, key, tracks, status, ports, used,
                     finished, manifest>>,
         phase' = "ended" <=> phase = "ended",
         queue # <<>> => Head(queue') = Head(queue)
  PROVE  SnapInv' /\ SegInv' /\ HoldInv' /\ PortInv'
<1>1. step # "idle" => Head(queue') = Head(queue) /\ K' = K
  BY DEF QueueInv, K
<1>2. SnapInv'
  BY <1>1 DEF SnapInv
<1>3. SegInv'
  BY <1>1 DEF SegInv, Setup
<1>4. HoldInv'
  BY DEF HoldInv
<1>5. PortInv'
  BY DEF PortInv
<1> QED
  BY <1>2, <1>3, <1>4, <1>5

LEMMA QueueFrame ==
  ASSUME QueueInv, UNCHANGED <<queue, step, phase>>, timer' = timer \/ phase = "live"
  PROVE  QueueInv'
  BY DEF QueueInv

\* A step of the room.
LEMMA RoomNext ==
  ASSUME Inv,
         \/ \E q \in Peers : Join(q) \/ CloseTransport(q)
         \/ \E p \in Producers : Produce(p)
  PROVE  Inv'
<1> USE DEF Inv
<1>1. /\ UNCHANGED <<phase, queue, taskVars, leaving, active, crashes, segVars, manifest, gaveUp,
                     faults>>
      /\ here' \subseteq Peers
      /\ prod' \in [Producers -> {"none", "open", "closed"}]
      /\ timer' = timer \/ (phase = "live" /\ timer' \subseteq Peers)
  <2>1. ASSUME NEW q \in Peers, Join(q)
        PROVE  prod' = prod /\ timer' = timer /\ here' \subseteq Peers
    BY <2>1 DEF Join, TypeOK
  <2>5. ASSUME NEW q \in Peers, CloseTransport(q)
        PROVE  /\ here' = here /\ prod' \in [Producers -> {"none", "open", "closed"}]
               /\ timer' = timer \/ (phase = "live" /\ timer' = timer \cup {q})
    BY <2>5 DEF CloseTransport, CloseAll, Notify, TypeOK
  <2>2. ASSUME NEW p \in Producers, Produce(p)
        PROVE  /\ here' = here /\ prod' \in [Producers -> {"none", "open", "closed"}]
               /\ timer' = timer \/ (phase = "live" /\ timer' = timer \cup {Owner[p]})
    BY <2>2 DEF Produce, Notify, TypeOK
  <2>3. \A p \in Producers : Owner[p] \in Peers
    BY ProducersAssumption
  <2>4. /\ timer \subseteq Peers /\ here \subseteq Peers
        /\ prod \in [Producers -> {"none", "open", "closed"}]
        /\ UNCHANGED <<phase, queue, taskVars, leaving, active, crashes, segVars, manifest,
                       gaveUp, faults>>
    BY DEF Join, Produce, CloseTransport, TypeOK
  <2> QED
    BY <2>1, <2>2, <2>3, <2>4, <2>5
<1>2. TypeOK'
  BY <1>1 DEF TypeOK
<1>3. QueueInv'
  BY <1>1, QueueFrame
<1> QED
  BY <1>1, <1>2, <1>3, Frame

\* A task is queued from outside.
LEMMA LeaveNext ==
  ASSUME Inv, NEW q \in Peers, Leave(q) \/ TimerFires(q)
  PROVE  Inv'
<1> USE DEF Inv
<1>1. /\ UNCHANGED <<phase, taskVars, leaving, active, crashes, segVars, manifest, gaveUp, faults>>
      /\ here' \subseteq Peers /\ timer' \subseteq timer
      /\ prod' \in [Producers -> {"none", "open", "closed"}]
  BY DEF Leave, CloseAll, TimerFires, TypeOK
<1>2. \/ queue' = queue
      \/ phase = "live" /\ \E x \in Tasks : /\ queue' = Append(queue, x) /\ x.kind # "stop"
                                            /\ x.peer = q
  <2>1. CASE Leave(q)
    BY <2>1, TaskTypes DEF Leave
  <2>2. CASE TimerFires(q)
    BY <2>2, TaskTypes DEF TimerFires, QueueInv
  <2> QED
    BY <2>1, <2>2
<1>3. QueueInv' /\ queue' \in Seq(Tasks) /\ (queue # <<>> => Head(queue') = Head(queue))
  <2>1. CASE queue' = queue
    BY <1>1, <2>1 DEF QueueInv, TypeOK
  <2>2. ASSUME phase = "live", NEW x \in Tasks, queue' = Append(queue, x), x.kind # "stop",
               x.peer = q
        PROVE  QueueInv' /\ queue' \in Seq(Tasks) /\ (queue # <<>> => Head(queue') = Head(queue))
    BY <1>1, <2>2, QueueAppend
  <2> QED
    BY <1>2, <2>1, <2>2
<1>4. TypeOK'
  BY <1>1, <1>3 DEF TypeOK
<1> QED
  BY <1>1, <1>3, <1>4, Frame

LEMMA StopNext ==
  ASSUME Inv,
         \/ StopRequested
         \/ \E q \in Peers : LeaveChecked(q)
  PROVE  Inv'
<1> USE DEF Inv
<1>1. /\ UNCHANGED <<roomVars, taskVars, active, crashes, segVars, manifest, gaveUp, faults>>
      /\ leaving' \subseteq Peers
      /\ Stop \/ UNCHANGED <<phase, timer, queue>>
  BY DEF StopRequested, LeaveChecked, TypeOK
<1>2. CASE Stop
  <2>1. /\ phase = "live" /\ phase' = "stopping" /\ timer' = {}
        /\ queue' = Append(queue, Task("stop", NoKey))
    BY <1>2 DEF Stop
  <2>2. QueueInv' /\ queue' \in Seq(Tasks) /\ (queue # <<>> => Head(queue') = Head(queue))
    BY <1>1, <2>1, QueueAppend, TaskTypes
  <2>3. TypeOK'
    BY <1>1, <2>1, <2>2 DEF TypeOK
  <2> QED
    BY <1>1, <2>1, <2>2, <2>3, Frame
<1>3. CASE UNCHANGED <<phase, timer, queue>>
  <2>1. QueueInv'
    BY <1>1, <1>3, QueueFrame
  <2>2. TypeOK'
    BY <1>1, <1>3 DEF TypeOK
  <2> QED
    BY <1>1, <1>3, <2>1, <2>2, Frame
<1> QED
  BY <1>1, <1>2, <1>3

LEMMA StartNext ==
  ASSUME Inv, StartRecording
  PROVE  Inv'
<1> USE DEF Inv
<1>1. /\ phase = "none" /\ phase' = "live" /\ queue = <<>> /\ step = "idle" /\ timer = {}
      /\ UNCHANGED <<roomVars, timer, taskVars, leaving, active, crashes, segVars, manifest,
                     gaveUp, faults>>
  BY DEF StartRecording, QueueInv
<1>2. Cardinality(here) \in Nat
  BY FS_Subset, FS_CardinalityType, ProducersAssumption DEF TypeOK
<1>3. PICK q \in [1..Cardinality(here) -> here] :
         queue' = [n \in DOMAIN q |-> Task("sync", <<q[n], "camera">>)]
  BY DEF StartRecording
<1>4. \A n \in 1..Cardinality(here) : /\ Task("sync", <<q[n], "camera">>) \in Tasks
                                      /\ Task("sync", <<q[n], "camera">>).kind = "sync"
                                      /\ Task("sync", <<q[n], "camera">>).peer \in Peers
  BY TaskTypes DEF TypeOK
<1>5. queue' \in [1..Cardinality(here) -> Tasks]
  BY <1>3, <1>4
<1>6. queue' \in Seq(Tasks) /\ Len(queue') = Cardinality(here)
  BY <1>2, <1>5
<1>7. \A n \in 1..Len(queue') : queue'[n].kind = "sync" /\ queue'[n].peer \in Peers
  BY <1>3, <1>4, <1>6
<1>8. QueueInv'
  BY <1>1, <1>7 DEF QueueInv
<1>9. TypeOK'
  BY <1>1, <1>6 DEF TypeOK
<1> QED
  BY <1>1, <1>8, <1>9, Frame

\* A step of an ffmpeg process.
LEMMA FfNext ==
  ASSUME Inv, NEW i \in Segs, FfStops(i) \/ FfDies(i)
  PROVE  Inv'
<1> USE DEF Inv
<1>1. /\ UNCHANGED <<phase, roomVars, timer, taskVars, leaving, active, count, key, tracks,
                     status, ports, used, finished, manifest, gaveUp>>
      /\ ff' \in [Segs -> {"none", "on", "exited", "killed"}]
  BY DEF FfStops, FfDies, TypeOK
<1>2. faults' \in 0..MaxFaults
  BY BoundsAssumption DEF FfStops, FfDies, Fault, TypeOK
<1>3. \/ UNCHANGED <<crashes, queue>>
      \/ /\ phase = "live" /\ key[i] \in Keys
         /\ crashes' = [crashes EXCEPT ![key[i]] = @ + 1]
         /\ queue' = Append(queue, Task("exit", key[i]))
  <2>1. FfDies(i) => key[i] \in Keys
    BY DEF FfDies, HoldInv, Used
  <2> QED
    BY <2>1 DEF FfStops, FfDies
<1>4. /\ QueueInv' /\ queue' \in Seq(Tasks) /\ (queue # <<>> => Head(queue') = Head(queue))
      /\ crashes' \in [Keys -> Nat]
  <2>1. CASE UNCHANGED <<crashes, queue>>
    BY <1>1, <2>1, QueueFrame DEF TypeOK
  <2>2. CASE /\ phase = "live" /\ key[i] \in Keys
             /\ crashes' = [crashes EXCEPT ![key[i]] = @ + 1]
             /\ queue' = Append(queue, Task("exit", key[i]))
    <3>1. crashes' \in [Keys -> Nat]
      BY <2>2 DEF TypeOK
    <3> QED
      BY <1>1, <2>2, <3>1, QueueAppend, TaskTypes
  <2> QED
    BY <1>3, <2>1, <2>2
<1>5. TypeOK'
  BY <1>1, <1>2, <1>4 DEF TypeOK
<1> QED
  BY <1>1, <1>4, <1>5, Frame

-----------------------------------------------------------------------------
(* The task that runs *)

LEMMA TaskFacts ==
  ASSUME Inv, queue # <<>>
  PROVE  /\ phase \in {"live", "stopping"}
         /\ step \notin {"idle", "stop"} => K \in Keys /\ Head(queue).peer \in Peers
         /\ snap[source] \subseteq Producers
         /\ step \in {"match", "open"} => \A p \in snap[source] : KeyOf(p) = K
  BY HeadFacts, KeyFacts DEF Inv, QueueInv, SnapInv, TypeOK, K, Sources

LEMMA NextSourceFacts ==
  ASSUME Inv, NextSource, queue # <<>>, step \notin {"idle", "sync", "drop", "stop"},
         UNCHANGED <<phase, timer>>
  PROVE  /\ TaskTyped' /\ leaving' \subseteq Peers /\ QueueInv' /\ SnapInv'
         /\ step' \in {"match", "idle"}
<1> USE DEF Inv
<1>1. TaskTyped /\ leaving \subseteq Peers
  BY DEF TypeOK, TaskTyped
<1>2. cur' = 0 /\ 0 \in 0..NumSegs /\ left' = {}
  BY BoundsAssumption DEF NextSource
<1>3. CASE source = "camera"
  <2>1. source' = "screen" /\ step' = "match" /\ UNCHANGED <<queue, leaving, snap>>
    BY <1>3 DEF NextSource
  <2>2. QueueInv'
    BY <2>1 DEF QueueInv
  <2>3. SnapInv'
    BY <2>1 DEF SnapInv
  <2>4. TaskTyped'
    BY <1>1, <1>2, <2>1 DEF TaskTyped, Sources
  <2> QED
    BY <1>1, <2>1, <2>2, <2>3, <2>4
<1>4. CASE source # "camera"
  <2>1. source' = "camera" /\ snap' = [s \in Sources |-> {}] /\ Done
    BY <1>4 DEF NextSource
  <2>2. QueueInv' /\ queue' \in Seq(Tasks) /\ step' = "idle" /\ leaving' \subseteq Peers
    BY <2>1, QueueDone
  <2>3. SnapInv'
    BY <2>1, <2>2 DEF SnapInv
  <2>4. snap' \in [Sources -> SUBSET Producers]
    BY <2>1
  <2>5. TaskTyped'
    BY <1>1, <1>2, <2>1, <2>2, <2>4 DEF TaskTyped, Sources
  <2> QED
    BY <2>2, <2>3, <2>5
<1> QED
  BY <1>3, <1>4

\* Between two segments the map and the statuses agree.
Settled ==
    /\ \A i \in Segs : i > count <=> status[i] = "none"
    /\ \A i \in Segs : status[i] \notin {"starting", "closing"}
    /\ \A k \in Keys : active[k] # 0 => status[active[k]] = "active" /\ key[active[k]] = k
    /\ \A i \in Segs : status[i] = "active" => active[key[i]] = i

LEMMA SettledIs ==
  ASSUME Inv, step \in {"match", "open", "idle", "sync"}
  PROVE  Settled
  BY DEF Inv, SegInv, Settled, Setup

LEMMA SettledNext ==
  ASSUME Settled', step' \in {"match", "idle", "sync"}, phase' # "ended"
  PROVE  SegInv'
  BY DEF SegInv, Settled, Setup

LEMMA SameSegments ==
  ASSUME Inv, Settled, UNCHANGED <<phase, active, segVars, manifest>>
  PROVE  Settled' /\ HoldInv' /\ PortInv' /\ SegTyped'
  BY DEF Inv, Settled, HoldInv, PortInv, TypeOK, SegTyped

\* A segment gives its ports back.
LEMMA PortsFreed ==
  ASSUME TypeOK, PortInv, NEW i \in Segs, FreePorts(i)
  PROVE  /\ PortInv' /\ used' \subseteq Ports /\ ports' \in [Holders -> SUBSET Ports]
         /\ \A j \in Holders : ports'[j] = IF j = i THEN {} ELSE ports[j]
<1>1. /\ ports \in [Holders -> SUBSET Ports] /\ used \subseteq Ports
      /\ used' = used \ ports[i] /\ ports' = [ports EXCEPT ![i] = {}]
  BY DEF TypeOK, FreePorts
<1>2. \A j \in Holders : ports'[j] = IF j = i THEN {} ELSE ports[j]
  BY <1>1
<1>4. i \in Holders
  BY DEF Holders
<1>3. used' = UNION {ports'[j] : j \in Holders}
  BY <1>1, <1>2, <1>4 DEF PortInv
<1> QED
  BY <1>1, <1>2, <1>3 DEF PortInv

LEMMA SyncNext ==
  ASSUME Inv, SyncPeer
  PROVE  Inv'
<1>1. /\ queue # <<>> /\ step \in {"idle", "sync"} /\ Head(queue).kind # "stop"
      /\ UNCHANGED <<phase, roomVars, timer, cur, left, active, crashes, segVars, manifest,
                     gaveUp, faults>>
      /\ source' = "camera"
  BY DEF SyncPeer, At, Running, Inv, QueueInv
<1>2. Settled' /\ HoldInv' /\ PortInv' /\ SegTyped'
  BY <1>1, SettledIs, SameSegments
<1>3. phase' # "ended"
  BY <1>1, TaskFacts
<1>4. CASE phase = "live"
  <2>1. /\ snap' = [s \in Sources |-> Live(<<Head(queue).peer, s>>)] /\ step' = "match"
        /\ UNCHANGED <<queue, leaving>>
    BY <1>4 DEF SyncPeer
  <2>2. snap' \in [Sources -> SUBSET Producers]
    BY <2>1 DEF Live
  <2>3. SnapInv'
    BY <2>1 DEF SnapInv, Live
  <2>4. QueueInv'
    BY <1>1, <2>1 DEF Inv, QueueInv
  <2>5. TypeOK'
    BY <1>1, <1>2, <2>1, <2>2, TypeParts, TypePartsNext
       DEF Inv, RoomTyped, TaskTyped, Sources
  <2> QED
    BY <1>2, <1>3, <2>1, <2>3, <2>4, <2>5, SettledNext DEF Inv
<1>5. CASE phase # "live"
  <2>1. Done /\ UNCHANGED snap
    BY <1>5 DEF SyncPeer
  <2>2. QueueInv' /\ queue' \in Seq(Tasks) /\ step' = "idle" /\ leaving' \subseteq Peers
    BY <1>1, <2>1, QueueDone DEF Inv
  <2>3. SnapInv'
    BY <1>1, <2>1, <2>2 DEF Inv, SnapInv
  <2>4. TypeOK'
    BY <1>1, <1>2, <2>1, <2>2, TypeParts, TypePartsNext
       DEF Inv, RoomTyped, TaskTyped, Sources
  <2> QED
    BY <1>2, <1>3, <2>2, <2>3, <2>4, SettledNext DEF Inv
<1> QED
  BY <1>4, <1>5

LEMMA NothingNext ==
  ASSUME Inv, Unchanged \/ NoSegment
  PROVE  Inv'
<1>1. /\ queue # <<>> /\ step \in {"match", "open"} /\ NextSource
      /\ UNCHANGED <<phase, roomVars, timer, active, crashes, segVars, manifest, faults>>
      /\ gaveUp' \in {gaveUp, gaveUp \ {K}, gaveUp \cup {K}}
  BY DEF Unchanged, NoSegment, Free, At
<1>2. Settled' /\ HoldInv' /\ PortInv' /\ SegTyped'
  BY <1>1, SettledIs, SameSegments
<1>3. K \in Keys /\ phase' # "ended"
  BY <1>1, TaskFacts
<1>4. /\ TaskTyped' /\ leaving' \subseteq Peers /\ QueueInv' /\ SnapInv'
      /\ step' \in {"match", "idle"}
  BY <1>1, NextSourceFacts
<1>5. RoomTyped'
  BY <1>1, <1>3, <1>4, TypeParts DEF Inv, RoomTyped
<1> QED
  BY <1>2, <1>3, <1>4, <1>5, TypePartsNext, SettledNext DEF Inv

-----------------------------------------------------------------------------
(* startSegment *)

\* The one segment that is being set up.
LEMMA SetupFacts ==
  ASSUME Inv, queue # <<>>, step \in Setup
  PROVE  /\ cur \in Segs /\ status[cur] = "starting" /\ key[cur] = K /\ K \in Keys
         /\ active[K] = 0
         /\ \A i \in Segs : status[i] # "closing" /\ (status[i] = "starting" => i = cur)
         /\ \A k \in Keys : active[k] # cur
         /\ phase \in {"live", "stopping"}
<1>1. K \in Keys /\ phase \in {"live", "stopping"}
  BY TaskFacts DEF Setup
<1>2. /\ cur \in Segs /\ status[cur] = "starting" /\ key[cur] = K /\ active[K] = 0
      /\ \A i \in Segs : status[i] # "closing" /\ (status[i] = "starting" => i = cur)
  BY DEF Inv, SegInv, Setup
<1>3. \A k \in Keys : active[k] # cur
  BY <1>2 DEF Inv, SegInv, Segs
<1> QED
  BY <1>1, <1>2, <1>3

LEMMA FailNext ==
  ASSUME Inv, queue # <<>>, step \in Setup, SetupFails, faults' \in 0..MaxFaults
  PROVE  Inv'
<1>1. /\ status' = [status EXCEPT ![cur] = "failed"] /\ FreePorts(cur) /\ NextSource
      /\ gaveUp' = gaveUp \cup {K}
      /\ UNCHANGED <<phase, roomVars, timer, active, crashes, count, key, tracks, ff, finished,
                     manifest>>
  BY DEF SetupFails
<1>2. /\ cur \in Segs /\ status[cur] = "starting" /\ key[cur] = K /\ K \in Keys
      /\ \A i \in Segs : status[i] # "closing" /\ (status[i] = "starting" => i = cur)
      /\ \A k \in Keys : active[k] # cur
      /\ phase' # "ended"
  BY <1>1, SetupFacts
<1>3. /\ status' \in [Segs -> {"none", "starting", "active", "closing", "finished", "failed"}]
      /\ \A i \in Segs : status'[i] = IF i = cur THEN "failed" ELSE status[i]
  BY <1>1, <1>2 DEF Inv, TypeOK
<1>4. /\ PortInv' /\ used' \subseteq Ports /\ ports' \in [Holders -> SUBSET Ports]
      /\ \A j \in Holders : ports'[j] = IF j = cur THEN {} ELSE ports[j]
  BY <1>1, <1>2, PortsFreed DEF Inv
<1>5. Settled'
  <2>1. \A k \in Keys : active[k] \in 0..NumSegs
    BY DEF Inv, TypeOK
  <2>2. \A i \in Segs : status'[i] \notin {"starting", "closing"}
    BY <1>2, <1>3
  <2>3. \A i \in Segs : i > count <=> status'[i] = "none"
    BY <1>2, <1>3 DEF Inv, SegInv
  <2>4. \A k \in Keys : active[k] # 0 => status'[active[k]] = "active" /\ key[active[k]] = k
    <3>1. \A k \in Keys : active[k] # 0 => active[k] \in Segs
      BY <2>1 DEF Segs
    <3> QED
      BY <1>2, <1>3, <3>1 DEF Inv, SegInv
  <2>5. \A i \in Segs : status'[i] = "active" => active[key[i]] = i
    BY <1>3 DEF Inv, SegInv
  <2> QED
    BY <1>1, <2>2, <2>3, <2>4, <2>5 DEF Settled
<1>6. HoldInv'
  <2>1. \A i \in Segs : status'[i] \in Used => status[i] \in Used /\ i # cur
    BY <1>3 DEF Used
  <2>2. \A i \in Segs : status'[i] \in Used \cup {"failed"} => status[i] \in Used \cup {"failed"}
    BY <1>2, <1>3 DEF Used
  <2>3. \A i \in Segs : ports'[i] # {} => status'[i] \in Used
    BY <1>3, <1>4 DEF Inv, HoldInv, Holders
  <2>4. \A i \in Segs : (status'[i] = "finished") <=> (status[i] = "finished")
    BY <1>2, <1>3
  <2> QED
    BY <1>1, <1>2, <2>1, <2>2, <2>3, <2>4 DEF Inv, HoldInv, Used
<1>7. /\ TaskTyped' /\ leaving' \subseteq Peers /\ QueueInv' /\ SnapInv'
      /\ step' \in {"match", "idle"}
  BY <1>1, NextSourceFacts DEF Setup
<1>8. RoomTyped' /\ SegTyped'
  BY <1>1, <1>2, <1>3, <1>4, <1>7 DEF Inv, TypeOK, RoomTyped, SegTyped
<1> QED
  BY <1>2, <1>4, <1>5, <1>6, <1>7, <1>8, TypePartsNext, SettledNext DEF Inv

\* A step that only moves on within startSegment.
LEMMA SetupFrame ==
  ASSUME Inv, queue # <<>>, step \in Setup, step' \in Setup, left' \subseteq left,
         UNCHANGED <<phase, roomVars, timer, queue, source, snap, cur, leaving, active, crashes,
                     count, key, tracks, status, finished, manifest, gaveUp, faults>>,
         ff' \in [Segs -> {"none", "on", "exited", "killed"}],
         PortInv', used' \subseteq Ports, ports' \in [Holders -> SUBSET Ports],
         \A j \in Holders : j # cur => ports'[j] = ports[j]
  PROVE  Inv'
<1>1. SegInv'
  BY DEF Inv, SegInv, Setup, K
<1>2. QueueInv'
  BY DEF Inv, QueueInv, Setup
<1>3. SnapInv'
  BY DEF Inv, SnapInv, Setup
<1>4. HoldInv'
  <2>1. \A i \in Segs : ports'[i] # {} => status[i] \in Used
    BY SetupFacts DEF Inv, HoldInv, Used, Holders
  <2> QED
    BY <2>1 DEF Inv, HoldInv
<1>5. TypeOK'
  BY DEF Inv, TypeOK, Setup
<1> QED
  BY <1>1, <1>2, <1>3, <1>4, <1>5 DEF Inv

LEMMA SetupNext ==
  ASSUME Inv, TakePort \/ PartReady \/ Spawn
  PROVE  Inv'
<1>1. CASE TakePort
  <2>1. /\ queue # <<>> /\ step = "parts" /\ step' = "part"
        /\ UNCHANGED <<phase, roomVars, timer, queue, source, snap, cur, leaving, active,
                       crashes, count, key, tracks, status, ff, finished, manifest, gaveUp,
                       faults>>
        /\ left' \subseteq left
    BY <1>1 DEF TakePort, At
  <2>2. PICK port \in Ports \ used : /\ used' = used \cup {port}
                                     /\ ports' = [ports EXCEPT ![cur] = @ \cup {port}]
    BY <1>1 DEF TakePort
  <2>3. cur \in Segs
    BY <2>1, SetupFacts DEF Setup
  <2>4. ports \in [Holders -> SUBSET Ports] /\ used \subseteq Ports
    BY DEF Inv, TypeOK
  <2>5. \A j \in Holders : ports'[j] = IF j = cur THEN ports[j] \cup {port} ELSE ports[j]
    BY <2>2, <2>3, <2>4
  <2>10. cur \in Holders
    BY <2>3 DEF Holders
  <2>6. used' = UNION {ports'[j] : j \in Holders}
    BY <2>2, <2>3, <2>5, <2>10 DEF Inv, PortInv
  <2>7. \A j \in Holders : port \notin ports[j]
    BY <2>2 DEF Inv, PortInv
  <2>8. PortInv'
    BY <2>5, <2>6, <2>7 DEF Inv, PortInv
  <2>9. ports' \in [Holders -> SUBSET Ports] /\ used' \subseteq Ports
    BY <2>2, <2>3, <2>4
  <2> QED
    BY <2>1, <2>5, <2>8, <2>9, SetupFrame DEF Setup, Inv, TypeOK
<1>2. CASE PartReady \/ Spawn
  <2>1. /\ queue # <<>> /\ step \in {"parts", "part"} /\ step' \in {"parts", "boot"}
        /\ UNCHANGED <<phase, roomVars, timer, queue, source, snap, cur, left, leaving, active,
                       crashes, count, key, tracks, status, ports, used, finished, manifest,
                       gaveUp, faults>>
        /\ ff' \in [Segs -> {"none", "on", "exited", "killed"}]
    BY <1>2 DEF PartReady, Spawn, At, Inv, TypeOK
  <2>2. PortInv' /\ used' \subseteq Ports /\ ports' \in [Holders -> SUBSET Ports]
    BY <2>1 DEF Inv, PortInv, TypeOK
  <2> QED
    BY <2>1, <2>2, SetupFrame DEF Setup
<1> QED
  BY <1>1, <1>2

LEMMA SetupEnds ==
  ASSUME Inv, NoPort \/ SetupThrows \/ BootCheck
  PROVE  Inv'
<1>1. CASE SetupFails
  <2>1. queue # <<>> /\ step \in Setup
    BY DEF NoPort, SetupThrows, BootCheck, At, Setup
  <2>2. faults' \in 0..MaxFaults
    BY BoundsAssumption DEF NoPort, SetupThrows, BootCheck, Fault, Inv, TypeOK
  <2> QED
    BY <1>1, <2>1, <2>2, FailNext
<1>2. CASE ~SetupFails
  <2>1. /\ queue # <<>> /\ step = "boot" /\ step' = "resume"
        /\ UNCHANGED <<phase, roomVars, timer, queue, source, snap, cur, left, leaving,
                       active, crashes, segVars, manifest, gaveUp, faults>>
    BY <1>2 DEF NoPort, SetupThrows, BootCheck, At
  <2>2. /\ PortInv' /\ used' \subseteq Ports /\ ports' \in [Holders -> SUBSET Ports]
        /\ ff' \in [Segs -> {"none", "on", "exited", "killed"}]
    BY <2>1 DEF Inv, PortInv, TypeOK
  <2> QED
    BY <2>1, <2>2, SetupFrame DEF Setup
<1> QED
  BY <1>1, <1>2

LEMMA ResumedNext ==
  ASSUME Inv, Resumed
  PROVE  Inv'
<1>1. /\ queue # <<>> /\ step \in Setup /\ NextSource
      /\ status' = [status EXCEPT ![cur] = "active"]
      /\ active' = [active EXCEPT ![K] = cur]
      /\ gaveUp' \in {gaveUp \ {K}, gaveUp \cup {K}}
      /\ UNCHANGED <<phase, roomVars, timer, crashes, count, key, tracks, ports, used, ff,
                     finished, manifest, faults>>
  BY DEF Resumed, At, Setup
<1>2. /\ cur \in Segs /\ status[cur] = "starting" /\ key[cur] = K /\ K \in Keys
      /\ \A i \in Segs : status[i] # "closing" /\ (status[i] = "starting" => i = cur)
      /\ \A k \in Keys : active[k] # cur
      /\ active[K] = 0
      /\ phase' # "ended"
  BY <1>1, SetupFacts
<1>3. /\ status' \in [Segs -> {"none", "starting", "active", "closing", "finished", "failed"}]
      /\ \A i \in Segs : status'[i] = IF i = cur THEN "active" ELSE status[i]
  BY <1>1, <1>2 DEF Inv, TypeOK
<1>4. /\ active' \in [Keys -> 0..NumSegs]
      /\ \A k \in Keys : active'[k] = IF k = K THEN cur ELSE active[k]
  BY <1>1, <1>2 DEF Inv, TypeOK
<1>5. Settled'
  <2>1. \A i \in Segs : status'[i] \notin {"starting", "closing"}
    BY <1>2, <1>3
  <2>2. \A i \in Segs : i > count <=> status'[i] = "none"
    BY <1>2, <1>3 DEF Inv, SegInv
  <2>3. \A k \in Keys : active[k] # 0 => active[k] \in Segs
    BY DEF Inv, TypeOK, Segs
  <2>4. \A k \in Keys : active'[k] # 0 => status'[active'[k]] = "active" /\ key[active'[k]] = k
    BY <1>2, <1>3, <1>4, <2>3 DEF Inv, SegInv
  <2>5. \A i \in Segs : status[i] = "active" => key[i] \in Keys /\ key[i] # K /\ active[key[i]] = i
    <3>1. \A i \in Segs : status[i] = "active" => key[i] \in Keys /\ active[key[i]] = i /\ i # 0
      BY DEF Inv, SegInv, HoldInv, Used, Segs
    <3> QED
      BY <1>2, <3>1
  <2>6. \A i \in Segs : status'[i] = "active" => active'[key[i]] = i
    BY <1>2, <1>3, <1>4, <2>5
  <2> QED
    BY <1>1, <2>1, <2>2, <2>4, <2>6 DEF Settled
<1>6. HoldInv'
  <2>1. \A i \in Segs : status'[i] \in Used <=> status[i] \in Used
    BY <1>2, <1>3 DEF Used
  <2>2. \A i \in Segs : status'[i] = "failed" => status[i] = "failed"
    BY <1>2, <1>3
  <2>3. \A i \in Segs : (status'[i] = "finished") <=> (status[i] = "finished")
    BY <1>2, <1>3
  <2> QED
    BY <1>1, <1>2, <2>1, <2>2, <2>3 DEF Inv, HoldInv
<1>7. PortInv'
  BY <1>1 DEF Inv, PortInv
<1>8. /\ TaskTyped' /\ leaving' \subseteq Peers /\ QueueInv' /\ SnapInv'
      /\ step' \in {"match", "idle"}
  BY <1>1, NextSourceFacts DEF Setup
<1>9. RoomTyped' /\ SegTyped'
  BY <1>1, <1>2, <1>3, <1>4, <1>8 DEF Inv, TypeOK, RoomTyped, SegTyped
<1> QED
  BY <1>2, <1>5, <1>6, <1>7, <1>8, <1>9, TypePartsNext, SettledNext DEF Inv

LEMMA BeginNext ==
  ASSUME Inv, Begin
  PROVE  Inv'
<1>1. /\ queue # <<>> /\ step \in {"match", "open"} /\ active[K] = 0
      /\ snap[source] # {} /\ count < NumSegs /\ step' = "parts"
      /\ count' = count + 1 /\ cur' = count + 1
      /\ key' = [key EXCEPT ![count + 1] = K]
      /\ tracks' = [tracks EXCEPT ![count + 1] = snap[source]]
      /\ status' = [status EXCEPT ![count + 1] = "starting"]
      /\ left' = snap[source]
      /\ UNCHANGED <<phase, roomVars, timer, queue, source, snap, leaving, active, crashes,
                     ports, used, ff, finished, manifest, gaveUp, faults>>
  BY DEF Begin, Free, At, Inv, SegInv
<1>2. /\ K \in Keys /\ snap[source] \subseteq Producers /\ phase \in {"live", "stopping"}
      /\ \A p \in snap[source] : KeyOf(p) = K
      /\ K' = K
  BY <1>1, TaskFacts DEF K
<1>3. count + 1 \in Segs /\ count + 1 \in 0..NumSegs /\ count \in Nat
  BY <1>1, BoundsAssumption DEF Inv, TypeOK, Segs
<1>4. status[count + 1] = "none"
  BY <1>3 DEF Inv, SegInv
<1>5. /\ \A i \in Segs : status'[i] = IF i = count + 1 THEN "starting" ELSE status[i]
      /\ \A i \in Segs : key'[i] = IF i = count + 1 THEN K ELSE key[i]
      /\ \A i \in Segs : tracks'[i] = IF i = count + 1 THEN snap[source] ELSE tracks[i]
      /\ status' \in [Segs -> {"none", "starting", "active", "closing", "finished", "failed"}]
      /\ key' \in [Segs -> Keys \cup {NoKey}]
      /\ tracks' \in [Segs -> SUBSET Producers]
  BY <1>1, <1>2, <1>3 DEF Inv, TypeOK
<1>6. Settled
  BY <1>1, SettledIs
<1>7. SegInv'
  <2>1. \A i \in Segs : i > count' <=> status'[i] = "none"
    BY <1>1, <1>3, <1>5, <1>6 DEF Settled, Segs
  <2>2. cur' \in Segs /\ status'[cur'] = "starting" /\ key'[cur'] = K' /\ active'[K'] = 0
    BY <1>1, <1>2, <1>3, <1>5
  <2>3. \A i \in Segs : (status'[i] = "starting" => i = cur') /\ status'[i] # "closing"
    BY <1>1, <1>5, <1>6 DEF Settled
  <2>4. \A k \in Keys : active[k] # 0 => active[k] \in Segs /\ active[k] # count + 1
    BY <1>4, <1>6 DEF Settled, Inv, TypeOK, Segs
  <2>5. \A k \in Keys : active'[k] # 0 => status'[active'[k]] = "active" /\ key'[active'[k]] = k
    BY <1>1, <1>5, <1>6, <2>4 DEF Settled
  <2>6. \A i \in Segs : status'[i] = "active" => active'[key'[i]] = i
    BY <1>1, <1>5, <1>6 DEF Settled
  <2> QED
    BY <1>1, <1>2, <2>1, <2>2, <2>3, <2>5, <2>6 DEF SegInv, Setup
<1>8. HoldInv'
  <2>1. \A i \in Segs : status'[i] \in Used \cup {"failed"} => key'[i] \in Keys
    BY <1>2, <1>5 DEF Inv, HoldInv
  <2>2. \A i \in Segs : status'[i] \in Used =>
           tracks'[i] # {} /\ \A p \in tracks'[i] : KeyOf(p) = key'[i]
    BY <1>1, <1>2, <1>5 DEF Inv, HoldInv
  <2>3. \A i \in Segs : ports'[i] # {} => status'[i] \in Used
    BY <1>1, <1>5 DEF Inv, HoldInv, Used
  <2>4. \A i \in Segs : (status'[i] = "finished") <=> (status[i] = "finished")
    BY <1>4, <1>5
  <2> QED
    BY <1>1, <2>1, <2>2, <2>3, <2>4 DEF Inv, HoldInv
<1>9. SnapInv' /\ PortInv' /\ QueueInv'
  <2>1. Head(queue).kind # "stop"
    BY <1>1 DEF Inv, QueueInv
  <2>2. SnapInv'
    BY <1>1 DEF Inv, SnapInv
  <2>3. PortInv'
    BY <1>1 DEF Inv, PortInv
  <2>4. QueueInv'
    BY <1>1, <2>1 DEF Inv, QueueInv
  <2> QED
    BY <2>2, <2>3, <2>4
<1>10. TypeOK'
  BY <1>1, <1>2, <1>3, <1>5 DEF Inv, TypeOK
<1> QED
  BY <1>7, <1>8, <1>9, <1>10 DEF Inv

-----------------------------------------------------------------------------
(* endSegment *)

LEMMA EndNext ==
  ASSUME Inv, EndChanged \/ EndCrashed
  PROVE  Inv'
<1>1. PICK k \in Keys :
        \/ /\ End(k, step') /\ active[k] # 0
           /\ \/ step = "match" /\ step' = "close" /\ k = K
              \/ step = "idle" /\ step' = "drop" /\ Head(queue).kind # "stop"
        \/ /\ step = "idle" /\ step' = "sync" /\ Head(queue).kind # "stop"
           /\ UNCHANGED <<phase, roomVars, timer, queue, source, snap, cur, left, leaving,
                          active, crashes, segVars, manifest, gaveUp, faults>>
  <2>1. CASE EndChanged
    <3>1. queue # <<>> /\ step = "match" /\ K \in Keys
      BY <2>1, TaskFacts DEF EndChanged, At
    <3>2. End(K, "close") /\ active[K] # 0
      BY <2>1 DEF EndChanged
    <3>3. End(K, step') /\ step' = "close"
      BY <3>2 DEF End
    <3> QED
      BY <3>1, <3>2, <3>3
  <2>2. CASE EndCrashed
    <3> DEFINE k == <<Head(queue).peer, Head(queue).source>>
    <3>1. queue # <<>> /\ step = "idle" /\ Head(queue).kind = "exit"
      BY <2>2 DEF EndCrashed, At, Running
    <3>2. k \in Keys
      BY <3>1, HeadFacts DEF Inv, Tasks, Keys
    <3>3. CASE active[k] # 0
      <4>1. End(k, "drop")
        BY <2>2, <3>3 DEF EndCrashed
      <4>2. End(k, step') /\ step' = "drop"
        BY <4>1 DEF End
      <4> QED
        BY <3>1, <3>2, <3>3, <4>2
    <3>4. CASE active[k] = 0
      BY <2>2, <3>1, <3>2, <3>4 DEF EndCrashed
    <3> QED
      BY <3>3, <3>4
  <2> QED
    BY <2>1, <2>2
<1>2. step \in {"match", "idle"} /\ queue # <<>> /\ Settled /\ phase \in {"live", "stopping"}
  <2>1. step \in {"match", "idle"} /\ queue # <<>>
    BY <1>1 DEF EndChanged, EndCrashed, At
  <2> QED
    BY <2>1, SettledIs, TaskFacts
<1>3. CASE End(k, step') /\ active[k] # 0
  <2>1. /\ cur' = active[k]
        /\ active' = [active EXCEPT ![k] = 0]
        /\ status' = [status EXCEPT ![active[k]] = "closing"]
        /\ UNCHANGED <<phase, roomVars, timer, queue, source, snap, left, leaving, crashes,
                       count, key, tracks, ports, used, ff, finished, manifest, gaveUp, faults>>
    BY <1>3 DEF End
  <2>2. active[k] \in Segs /\ status[active[k]] = "active" /\ key[active[k]] = k
    BY <1>2, <1>3 DEF Settled, Inv, TypeOK, Segs
  <2>3. /\ \A i \in Segs : status'[i] = IF i = active[k] THEN "closing" ELSE status[i]
        /\ status' \in [Segs -> {"none", "starting", "active", "closing", "finished", "failed"}]
        /\ \A j \in Keys : active'[j] = IF j = k THEN 0 ELSE active[j]
        /\ active' \in [Keys -> 0..NumSegs]
    BY <2>1, <2>2, BoundsAssumption DEF Inv, TypeOK
  <2>4. /\ \/ step = "match" /\ step' = "close" /\ k = K
           \/ step = "idle" /\ step' = "drop" /\ Head(queue).kind # "stop"
        /\ K' = K
    BY <1>1, <1>3, <2>1, <2>2, <2>3 DEF K
  <2>5. SegInv'
    <3>1. \A i \in Segs : i > count' <=> status'[i] = "none"
      BY <1>2, <2>1, <2>2, <2>3 DEF Settled
    <3>2. cur' \in Segs /\ status'[cur'] = "closing"
      BY <2>1, <2>2, <2>3
    <3>3. \A i \in Segs : status'[i] # "starting" /\ (status'[i] = "closing" => i = cur')
      BY <1>2, <2>1, <2>3 DEF Settled
    <3>4. \A j \in Keys : active'[j] # 0 => status'[active'[j]] = "active" /\ key'[active'[j]] = j
      <4>1. \A j \in Keys : active[j] # 0 => active[j] \in Segs
        BY DEF Inv, TypeOK, Segs
      <4> QED
        BY <1>2, <2>1, <2>2, <2>3, <4>1 DEF Settled
    <3>5. \A i \in Segs : status'[i] = "active" => active'[key'[i]] = i
      <4>1. \A i \in Segs : status[i] = "active" => key[i] \in Keys
        BY DEF Inv, HoldInv, Used
      <4> QED
        BY <1>2, <2>1, <2>3, <4>1 DEF Settled
    <3>6. step' = "close" => active'[K'] = 0
      BY <2>3, <2>4
    <3> QED
      BY <1>2, <2>1, <2>4, <3>1, <3>2, <3>3, <3>4, <3>5, <3>6 DEF SegInv, Setup
  <2>6. HoldInv'
    <3>1. \A i \in Segs : status'[i] \in Used <=> status[i] \in Used
      BY <2>2, <2>3 DEF Used
    <3>2. \A i \in Segs : status'[i] = "failed" => status[i] = "failed"
      BY <2>3
    <3>3. \A i \in Segs : (status'[i] = "finished") <=> (status[i] = "finished")
      BY <2>2, <2>3
    <3> QED
      BY <2>1, <3>1, <3>2, <3>3 DEF Inv, HoldInv
  <2>7. SnapInv'
    BY <2>1, <2>4 DEF Inv, SnapInv
  <2>8. PortInv'
    BY <2>1 DEF Inv, PortInv
  <2>9. QueueInv'
    BY <1>2, <2>1, <2>4 DEF Inv, QueueInv
  <2>10. TypeOK'
    BY <2>1, <2>2, <2>3, <2>4 DEF Inv, TypeOK, Segs
  <2> QED
    BY <2>5, <2>6, <2>7, <2>8, <2>9, <2>10 DEF Inv
<1>4. CASE ~(End(k, step') /\ active[k] # 0)
  <2>1. /\ step = "idle" /\ step' = "sync" /\ Head(queue).kind # "stop"
        /\ UNCHANGED <<phase, roomVars, timer, queue, source, snap, cur, left, leaving,
                       active, crashes, segVars, manifest, gaveUp, faults>>
    BY <1>1, <1>4
  <2>2. Settled' /\ HoldInv' /\ PortInv' /\ SegTyped'
    BY <1>2, <2>1, SameSegments
  <2>3. SegInv'
    BY <1>2, <2>1, <2>2, SettledNext
  <2>4. SnapInv'
    BY <2>1 DEF Inv, SnapInv
  <2>5. QueueInv'
    BY <1>2, <2>1 DEF Inv, QueueInv
  <2>6. TypeOK'
    BY <2>1 DEF Inv, TypeOK
  <2> QED
    BY <2>2, <2>3, <2>4, <2>5, <2>6 DEF Inv
<1> QED
  BY <1>3, <1>4

\* A segment that has ended is put on the list.
LEMMA FinishFacts ==
  ASSUME Inv, NEW i \in Segs, Finish(i),
         UNCHANGED <<phase, count, active, ff, manifest>>, phase # "ended"
  PROVE  /\ \A j \in Segs : status'[j] = IF j = i THEN "finished" ELSE status[j]
         /\ \A j \in Segs : j # i => key'[j] = key[j]
         /\ status[i] = "closing"
         /\ HoldInv' /\ PortInv' /\ SegTyped'
         /\ \A j \in Segs : j > count' <=> status'[j] = "none"
         /\ \A k \in Keys : active'[k] # 0 =>
               status'[active'[k]] = "active" /\ key'[active'[k]] = k
         /\ \A j \in Segs : status'[j] = "active" => active'[key'[j]] = j
<1>1. /\ status[i] = "closing" /\ FreePorts(i)
      /\ status' = [status EXCEPT ![i] = "finished"]
      /\ finished' = [finished EXCEPT ![i] = @ + 1]
      /\ tracks' = [tracks EXCEPT ![i] = {}]
      /\ key' = [key EXCEPT ![i] = NoKey]
  BY DEF Finish
<1>2. SegTyped
  BY TypeParts DEF Inv
<1>3. /\ \A j \in Segs : status'[j] = IF j = i THEN "finished" ELSE status[j]
      /\ status' \in [Segs -> {"none", "starting", "active", "closing", "finished", "failed"}]
  BY <1>1, <1>2 DEF SegTyped
<1>4. /\ \A j \in Segs : key'[j] = IF j = i THEN NoKey ELSE key[j]
      /\ key' \in [Segs -> Keys \cup {NoKey}]
      /\ \A j \in Segs : tracks'[j] = IF j = i THEN {} ELSE tracks[j]
      /\ tracks' \in [Segs -> SUBSET Producers]
  BY <1>1, <1>2 DEF SegTyped
<1>5. finished[i] = 0
  BY <1>1 DEF Inv, HoldInv
<1>6. /\ \A j \in Segs : finished'[j] = IF j = i THEN 1 ELSE finished[j]
      /\ finished' \in [Segs -> 0..1]
  BY <1>1, <1>2, <1>5 DEF SegTyped
<1>7. /\ PortInv' /\ used' \subseteq Ports /\ ports' \in [Holders -> SUBSET Ports]
      /\ \A j \in Holders : ports'[j] = IF j = i THEN {} ELSE ports[j]
  BY <1>1, PortsFreed DEF Inv
<1>8. SegTyped'
  BY <1>2, <1>3, <1>4, <1>6, <1>7 DEF SegTyped
<1>9. HoldInv'
  <2>1. \A j \in Segs : status'[j] \in Used \cup {"failed"} => key'[j] \in Keys
    BY <1>3, <1>4 DEF Inv, HoldInv, Used
  <2>2. \A j \in Segs : status'[j] \in Used =>
           tracks'[j] # {} /\ \A p \in tracks'[j] : KeyOf(p) = key'[j]
    BY <1>3, <1>4 DEF Inv, HoldInv, Used
  <2>3. \A j \in Segs : ports'[j] # {} => status'[j] \in Used
    BY <1>3, <1>7 DEF Inv, HoldInv, Holders
  <2>4. \A j \in Segs : finished'[j] = IF status'[j] = "finished" THEN 1 ELSE 0
    BY <1>3, <1>6 DEF Inv, HoldInv
  <2>5. \A j \in Segs : manifest'[j] = 0
    BY DEF Inv, HoldInv
  <2> QED
    BY <2>1, <2>2, <2>3, <2>4, <2>5 DEF HoldInv
<1>10. \A j \in Segs : j > count' <=> status'[j] = "none"
  BY <1>1, <1>3 DEF Inv, SegInv
<1>11. \A k \in Keys : active'[k] # 0 => status'[active'[k]] = "active" /\ key'[active'[k]] = k
  <2>1. \A k \in Keys : active[k] # 0 => active[k] \in Segs /\ status[active[k]] = "active"
    BY DEF Inv, SegInv, TypeOK, Segs
  <2>2. \A k \in Keys : active[k] # 0 => active[k] # i
    BY <1>1, <2>1
  <2> QED
    BY <1>3, <1>4, <2>1, <2>2 DEF Inv, SegInv
<1>12. \A j \in Segs : status'[j] = "active" => active'[key'[j]] = j
  BY <1>3, <1>4 DEF Inv, SegInv
<1> QED
  BY <1>1, <1>3, <1>4, <1>7, <1>8, <1>9, <1>10, <1>11, <1>12

LEMMA EndedNext ==
  ASSUME Inv, Ended
  PROVE  Inv'
<1>1. /\ queue # <<>> /\ step \in {"close", "drop"} /\ Finish(cur) /\ cur' = 0
      /\ step' = IF step = "drop" THEN "sync" ELSE "open"
      /\ UNCHANGED <<phase, roomVars, timer, queue, source, snap, left, leaving, active,
                     crashes, count, ff, manifest, gaveUp, faults>>
  BY DEF Ended, At
<1>2. /\ cur \in Segs /\ \A i \in Segs : status[i] # "starting" /\ (status[i] = "closing" => i = cur)
      /\ step = "close" => active[K] = 0
  BY <1>1 DEF Inv, SegInv, Setup
<1>3. phase \in {"live", "stopping"} /\ K' = K /\ Head(queue).kind # "stop"
  BY <1>1, TaskFacts DEF K, Inv, QueueInv
<1>4. /\ \A j \in Segs : status'[j] = IF j = cur THEN "finished" ELSE status[j]
      /\ HoldInv' /\ PortInv' /\ SegTyped'
      /\ \A j \in Segs : j > count' <=> status'[j] = "none"
      /\ \A k \in Keys : active'[k] # 0 =>
            status'[active'[k]] = "active" /\ key'[active'[k]] = k
      /\ \A j \in Segs : status'[j] = "active" => active'[key'[j]] = j
  BY <1>1, <1>2, <1>3, FinishFacts
<1>5. SegInv'
  <2>1. \A j \in Segs : status'[j] \notin {"starting", "closing"}
    BY <1>2, <1>4
  <2> QED
    BY <1>1, <1>2, <1>3, <1>4, <2>1 DEF SegInv, Setup
<1>6. SnapInv'
  BY <1>1 DEF Inv, SnapInv
<1>7. QueueInv'
  BY <1>1, <1>3 DEF Inv, QueueInv
<1>8. TaskTyped' /\ RoomTyped'
  BY <1>1, BoundsAssumption, TypeParts DEF Inv, TaskTyped, RoomTyped
<1> QED
  BY <1>4, <1>5, <1>6, <1>7, <1>8, TypePartsNext DEF Inv

LEMMA EndedOneNext ==
  ASSUME Inv, NEW i \in Segs, EndedOne(i)
  PROVE  Inv'
<1>1. /\ queue # <<>> /\ step = "stop" /\ Finish(i)
      /\ UNCHANGED <<phase, roomVars, timer, queue, taskVars, leaving, active, crashes, count,
                     ff, manifest, gaveUp, faults>>
  BY DEF EndedOne, At
<1>2. phase \in {"live", "stopping"} /\ K' = K /\ Head(queue).kind = "stop"
  BY <1>1, TaskFacts DEF K, Inv, QueueInv
<1>3. /\ \A j \in Segs : status'[j] = IF j = i THEN "finished" ELSE status[j]
      /\ HoldInv' /\ PortInv' /\ SegTyped'
      /\ \A j \in Segs : j > count' <=> status'[j] = "none"
      /\ \A k \in Keys : active'[k] # 0 =>
            status'[active'[k]] = "active" /\ key'[active'[k]] = k
      /\ \A j \in Segs : status'[j] = "active" => active'[key'[j]] = j
  BY <1>1, <1>2, FinishFacts
<1>4. SegInv'
  <2>1. (\A j \in Segs : status'[j] # "starting") /\ \A k \in Keys : active'[k] = 0
    BY <1>1, <1>3 DEF Inv, SegInv, Setup
  <2> QED
    BY <1>1, <1>2, <1>3, <2>1 DEF SegInv, Setup
<1>5. SnapInv'
  BY <1>1 DEF Inv, SnapInv
<1>6. QueueInv'
  BY <1>1 DEF Inv, QueueInv
<1>7. TaskTyped' /\ RoomTyped'
  BY <1>1, TypeParts DEF Inv, TaskTyped, RoomTyped
<1> QED
  BY <1>3, <1>4, <1>5, <1>6, <1>7, TypePartsNext DEF Inv

-----------------------------------------------------------------------------
(* The last task *)

LEMMA EndAllNext ==
  ASSUME Inv, EndAll
  PROVE  Inv'
<1>1. /\ queue # <<>> /\ step = "idle" /\ Head(queue).kind = "stop" /\ step' = "stop"
      /\ status' = [i \in Segs |-> IF status[i] = "active" THEN "closing" ELSE status[i]]
      /\ active' = [k \in Keys |-> 0]
      /\ UNCHANGED <<phase, roomVars, timer, queue, source, snap, cur, left, leaving, crashes,
                     count, key, tracks, ports, used, ff, finished, manifest, gaveUp, faults>>
  BY DEF EndAll, At, Running
<1>2. Settled /\ phase \in {"live", "stopping"}
  BY <1>1, SettledIs, TaskFacts
<1>3. /\ \A i \in Segs : status'[i] = IF status[i] = "active" THEN "closing" ELSE status[i]
      /\ \A k \in Keys : active'[k] = 0
  BY <1>1
<1>4. /\ status' \in [Segs -> {"none", "starting", "active", "closing", "finished", "failed"}]
      /\ active' \in [Keys -> 0..NumSegs]
  BY <1>1, BoundsAssumption DEF Inv, TypeOK
<1>5. SegInv'
  <2>1. \A i \in Segs : status'[i] \notin {"starting", "active"}
    BY <1>2, <1>3 DEF Settled
  <2>2. \A i \in Segs : i > count' <=> status'[i] = "none"
    BY <1>1, <1>2, <1>3 DEF Settled
  <2> QED
    BY <1>1, <1>3, <2>1, <2>2 DEF SegInv, Setup
<1>6. HoldInv'
  <2>1. \A i \in Segs : status'[i] \in Used <=> status[i] \in Used
    BY <1>3 DEF Used
  <2>2. \A i \in Segs : status'[i] = "failed" => status[i] = "failed"
    BY <1>3
  <2>3. \A i \in Segs : (status'[i] = "finished") <=> (status[i] = "finished")
    BY <1>3
  <2> QED
    BY <1>1, <2>1, <2>2, <2>3 DEF Inv, HoldInv
<1>7. SnapInv'
  BY <1>1 DEF Inv, SnapInv
<1>8. PortInv'
  BY <1>1 DEF Inv, PortInv
<1>9. QueueInv'
  BY <1>1 DEF Inv, QueueInv
<1>10. TypeOK'
  BY <1>1, <1>4 DEF Inv, TypeOK
<1> QED
  BY <1>5, <1>6, <1>7, <1>8, <1>9, <1>10 DEF Inv

LEMMA BuildNext ==
  ASSUME Inv, BuildManifest
  PROVE  Inv'
<1>1. /\ queue # <<>> /\ step = "stop" /\ Head(queue).kind = "stop" /\ phase' = "ended" /\ Done
      /\ manifest' = finished /\ \A i \in Segs : status[i] # "closing"
      /\ UNCHANGED <<roomVars, timer, source, snap, cur, left, active, crashes, segVars,
                     gaveUp, faults>>
  BY DEF BuildManifest, At, Inv, QueueInv
<1>2. QueueInv' /\ queue' \in Seq(Tasks) /\ step' = "idle" /\ leaving' \subseteq Peers
  BY <1>1, QueueDone DEF Inv
<1>3. SegInv'
  BY <1>1, <1>2 DEF Inv, SegInv, Setup
<1>4. HoldInv'
  BY <1>1 DEF Inv, HoldInv
<1>5. SnapInv'
  BY <1>1, <1>2 DEF Inv, SnapInv
<1>6. PortInv'
  BY <1>1 DEF Inv, PortInv
<1>7. TypeOK'
  BY <1>1, <1>2 DEF Inv, TypeOK
<1> QED
  BY <1>2, <1>3, <1>4, <1>5, <1>6, <1>7 DEF Inv

-----------------------------------------------------------------------------
LEMMA InvInit == Init => Inv
<1> SUFFICES ASSUME Init PROVE Inv
  OBVIOUS
<1>1. TypeOK
  <2>1. <<>> \in Seq(Tasks)
    BY EmptySeq
  <2>2. NoKey \in Keys \cup {NoKey} /\ 0 \in 0..NumSegs /\ 0 \in 0..MaxFaults
    BY BoundsAssumption
  <2> QED
    BY <2>1, <2>2 DEF Init, TypeOK, Sources
<1>2. QueueInv
  BY EmptySeq DEF Init, QueueInv
<1>3. SnapInv
  BY DEF Init, SnapInv
<1>4. SegInv
  BY BoundsAssumption DEF Init, SegInv, Setup, Segs
<1>5. HoldInv /\ PortInv
  <2>1. /\ \A i \in Holders : ports[i] = IF i = 0 THEN used ELSE {}
        /\ 0 \in Holders
    BY DEF Init, Holders
  <2>2. HoldInv
    BY <2>1 DEF Init, HoldInv, Used, Holders, Segs
  <2>3. used = UNION {ports[i] : i \in Holders}
    BY <2>1
  <2>4. \A i, j \in Holders : i # j => ports[i] \cap ports[j] = {}
    BY <2>1
  <2> QED
    BY <2>2, <2>3, <2>4 DEF PortInv
<1> QED
  BY <1>1, <1>2, <1>3, <1>4, <1>5 DEF Inv

LEMMA InvNext == Inv /\ [Next]_vars => Inv'
<1> SUFFICES ASSUME Inv, [Next]_vars PROVE Inv'
  OBVIOUS
<1>1. CASE UNCHANGED vars
  <2>1. TypeOK'
    BY <1>1 DEF Inv, TypeOK, vars
  <2>2. QueueInv'
    BY <1>1 DEF Inv, QueueInv, vars
  <2>3. SnapInv' /\ SegInv' /\ HoldInv' /\ PortInv'
    BY <1>1, Frame DEF Inv, vars
  <2> QED
    BY <2>1, <2>2, <2>3 DEF Inv
<1>2. CASE TaskStep
  BY <1>2, SyncNext, NothingNext, EndNext, EndedNext, BeginNext, SetupNext, SetupEnds,
     ResumedNext, EndAllNext, EndedOneNext, BuildNext
     DEF TaskStep, StartStep
<1>3. CASE \E q \in Peers :
             Join(q) \/ CloseTransport(q) \/ Leave(q) \/ TimerFires(q) \/ LeaveChecked(q)
  BY <1>3, RoomNext, LeaveNext, StopNext
<1>4. CASE \E p \in Producers : Produce(p)
  BY <1>4, RoomNext
<1>5. CASE StartRecording \/ StopRequested
  BY <1>5, StartNext, StopNext
<1>6. CASE \E i \in Segs : FfStops(i) \/ FfDies(i)
  BY <1>6, FfNext
<1> QED
  BY <1>1, <1>2, <1>3, <1>4, <1>5, <1>6 DEF Next

THEOREM InvAlways == Spec => []Inv
  BY InvInit, InvNext, PTL DEF Spec

\* Every variable keeps its type.
THEOREM TypeCorrect == Spec => []TypeOK
<1>1. Inv => TypeOK
  BY DEF Inv
<1> QED
  BY <1>1, InvAlways, PTL

\* ports.ts, closeAll: no RTP port is leaked or given out twice.
THEOREM PortsBalanceAlways == Spec => []PortsBalance
<1>1. Inv => PortsBalance
  <2> SUFFICES ASSUME Inv PROVE PortsBalance
    OBVIOUS
  <2>1. ASSUME phase = "ended"
        PROVE  used = ports[0]
    <3>1. step = "idle" /\ \A k \in Keys : active[k] = 0
      BY <2>1 DEF Inv, QueueInv, SegInv
    <3>2. \A i \in Segs : i # 0
      BY DEF Segs
    <3>3. \A i \in Segs : status[i] \notin Used
      BY <3>1, <3>2 DEF Inv, SegInv, HoldInv, Setup, Used
    <3>4. \A i \in Segs : ports[i] = {}
      BY <3>3 DEF Inv, HoldInv
    <3> QED
      BY <3>4 DEF Inv, PortInv, Holders
  <2> QED
    BY <2>1 DEF Inv, PortInv, PortsBalance
<1> QED
  BY <1>1, InvAlways, PTL

-----------------------------------------------------------------------------
(* SegmentCapture implements SegmentLog *)

\* The state of SegmentLog, segment by segment.
InLog(i) ==
    CASE status[i] \in {"active", "closing"} -> "open"
      [] status[i] = "finished" -> "closed"
      [] OTHER -> "none"
TracksInLog(i) == IF status[i] \in {"active", "closing"} THEN tracks[i] ELSE {}

\* Steps the log does not see.
LEMMA LogStutters ==
  ASSUME \A i \in Segs : InLog(i)' = InLog(i) /\ TracksInLog(i)' = TracksInLog(i),
         phase' = "ended" <=> phase = "ended", manifest' = manifest
  PROVE  UNCHANGED Log!vars
<1>1. [i \in Segs |-> InLog(i)]' = [i \in Segs |-> InLog(i)]
  OBVIOUS
<1>2. [i \in Segs |-> TracksInLog(i)]' = [i \in Segs |-> TracksInLog(i)]
  OBVIOUS
<1>3. (phase = "ended")' = (phase = "ended")
  OBVIOUS
<1> QED
  BY <1>1, <1>2, <1>3 DEF Log!vars, InLog, TracksInLog

LEMMA LogOutside ==
  ASSUME Inv, Next, ~TaskStep
  PROVE  UNCHANGED Log!vars
<1>1. UNCHANGED <<status, tracks, manifest>> /\ (phase' = "ended" <=> phase = "ended")
  <2>1. CASE StartRecording \/ StopRequested
    BY <2>1 DEF StartRecording, StopRequested, Stop
  <2>2. ASSUME NEW q \in Peers, \/ Join(q) \/ CloseTransport(q) \/ Leave(q)
                               \/ TimerFires(q) \/ LeaveChecked(q)
        PROVE  UNCHANGED <<status, tracks, manifest>> /\ (phase' = "ended" <=> phase = "ended")
    BY <2>2 DEF Join, CloseTransport, Leave, TimerFires, LeaveChecked, Stop
  <2>3. ASSUME NEW p \in Producers, Produce(p)
        PROVE  UNCHANGED <<status, tracks, manifest, phase>>
    BY <2>3 DEF Produce
  <2>4. ASSUME NEW i \in Segs, FfStops(i) \/ FfDies(i)
        PROVE  UNCHANGED <<status, tracks, manifest, phase>>
    BY <2>4 DEF FfStops, FfDies
  <2> QED
    BY <2>1, <2>2, <2>3, <2>4 DEF Next
<1>2. \A i \in Segs : InLog(i)' = InLog(i) /\ TracksInLog(i)' = TracksInLog(i)
  BY <1>1 DEF InLog, TracksInLog
<1> QED
  BY <1>1, <1>2, LogStutters

\* A task that neither adds a segment to the map nor takes one off the closing ones.
LEMMA LogTask ==
  ASSUME Inv, TaskStep, ~Resumed, ~Ended, \A i \in Segs : ~EndedOne(i), ~BuildManifest
  PROVE  UNCHANGED Log!vars
<1> DEFINE Goal == /\ \A i \in Segs : InLog(i)' = InLog(i) /\ TracksInLog(i)' = TracksInLog(i)
                   /\ phase' = phase /\ manifest' = manifest
<1> SUFFICES Goal
  BY LogStutters
<1>1. ASSUME UNCHANGED <<status, tracks, manifest, phase>>
      PROVE  Goal
  BY <1>1 DEF InLog, TracksInLog
<1>2. CASE SyncPeer \/ Unchanged \/ NoSegment \/ TakePort \/ PartReady \/ Spawn
  BY <1>1, <1>2 DEF SyncPeer, Unchanged, NoSegment, TakePort, PartReady, Spawn
<1>3. CASE Begin
  <2>1. count + 1 \in Segs /\ status[count + 1] = "none"
    BY <1>3, BoundsAssumption DEF Begin, Inv, TypeOK, SegInv, Segs
  <2>2. /\ status' = [status EXCEPT ![count + 1] = "starting"]
        /\ tracks' = [tracks EXCEPT ![count + 1] = snap[source]]
        /\ UNCHANGED <<phase, manifest>>
    BY <1>3 DEF Begin
  <2>3. /\ \A i \in Segs : status'[i] = IF i = count + 1 THEN "starting" ELSE status[i]
        /\ \A i \in Segs : i # count + 1 => tracks'[i] = tracks[i]
    BY <2>1, <2>2 DEF Inv, TypeOK
  <2> QED
    BY <2>1, <2>2, <2>3 DEF InLog, TracksInLog
<1>4. CASE SetupFails /\ queue # <<>> /\ step \in Setup
  <2>1. cur \in Segs /\ status[cur] = "starting"
    BY <1>4, SetupFacts
  <2>2. /\ status' = [status EXCEPT ![cur] = "failed"]
        /\ UNCHANGED <<phase, manifest, tracks>>
    BY <1>4 DEF SetupFails
  <2>3. \A i \in Segs : status'[i] = IF i = cur THEN "failed" ELSE status[i]
    BY <2>1, <2>2 DEF Inv, TypeOK
  <2> QED
    BY <2>1, <2>2, <2>3 DEF InLog, TracksInLog
<1>5. CASE NoPort \/ SetupThrows \/ BootCheck
  <2>1. queue # <<>> /\ step \in Setup
    BY <1>5 DEF NoPort, SetupThrows, BootCheck, At, Setup
  <2>2. SetupFails \/ UNCHANGED <<status, tracks, manifest, phase>>
    BY <1>5 DEF NoPort, SetupThrows, BootCheck
  <2> QED
    BY <1>1, <1>4, <2>1, <2>2
<1>6. ASSUME NEW k \in Keys, End(k, step'), active[k] # 0
      PROVE  Goal
  <2>1. active[k] \in Segs /\ status[active[k]] = "active"
    BY <1>6 DEF Inv, TypeOK, SegInv, Segs
  <2>2. /\ status' = [status EXCEPT ![active[k]] = "closing"]
        /\ UNCHANGED <<phase, manifest, tracks>>
    BY <1>6 DEF End
  <2>3. \A i \in Segs : status'[i] = IF i = active[k] THEN "closing" ELSE status[i]
    BY <2>1, <2>2 DEF Inv, TypeOK
  <2> QED
    BY <2>1, <2>2, <2>3 DEF InLog, TracksInLog
<1>7. CASE EndChanged
  <2>1. K \in Keys /\ active[K] # 0 /\ End(K, step')
    <3>1. K \in Keys /\ active[K] # 0 /\ End(K, "close")
      BY <1>7, TaskFacts DEF EndChanged, At
    <3>2. step' = "close"
      BY <3>1 DEF End
    <3> QED
      BY <3>1, <3>2
  <2> QED
    BY <1>6, <2>1
<1>8. CASE EndCrashed
  <2> DEFINE k == <<Head(queue).peer, Head(queue).source>>
  <2>1. k \in Keys
    BY <1>8, HeadFacts DEF EndCrashed, At, Running, Inv, Tasks, Keys
  <2>2. CASE active[k] # 0
    <3>1. End(k, "drop")
      BY <1>8, <2>2 DEF EndCrashed
    <3>2. step' = "drop"
      BY <3>1 DEF End
    <3> QED
      BY <1>6, <2>1, <2>2, <3>1, <3>2
  <2>3. CASE active[k] = 0
    <3>1. UNCHANGED <<status, tracks, manifest, phase>>
      BY <1>8, <2>3 DEF EndCrashed
    <3> QED
      BY <1>1, <3>1
  <2> QED
    BY <2>2, <2>3
<1>9. CASE EndAll
  BY <1>9 DEF EndAll, InLog, TracksInLog
<1> HIDE DEF Goal
<1> QED
  BY <1>2, <1>3, <1>5, <1>7, <1>8, <1>9 DEF TaskStep, StartStep

\* A segment that runs is opened in the log.
LEMMA LogOpens ==
  ASSUME Inv, Resumed
  PROVE  Log!Next
<1>1. /\ queue # <<>> /\ step \in Setup
      /\ status' = [status EXCEPT ![cur] = "active"]
      /\ UNCHANGED <<phase, tracks, manifest>>
  BY DEF Resumed, At, Setup
<1> PICK n \in Segs : n = cur
  BY <1>1, SetupFacts
<1>2. /\ cur \in Segs /\ status[cur] = "starting" /\ key[cur] = K /\ K \in Keys
      /\ active[K] = 0 /\ phase # "ended"
      /\ \A i \in Segs : status[i] # "closing"
  BY <1>1, SetupFacts
<1>3. \A i \in Segs : status'[i] = IF i = n THEN "active" ELSE status[i]
  BY <1>1, <1>2 DEF Inv, TypeOK
<1>4. /\ tracks[n] \in SUBSET Producers /\ tracks[n] # {}
      /\ \A p \in tracks[n] : KeyOf(p) = K
  BY <1>2 DEF Inv, TypeOK, HoldInv, Used
<1>5. \A j \in Segs : InLog(j) = "open" => tracks[n] \cap TracksInLog(j) = {}
  <2> SUFFICES ASSUME NEW j \in Segs, InLog(j) = "open"
               PROVE  tracks[n] \cap TracksInLog(j) = {}
    OBVIOUS
  <2>1. status[j] = "active"
    BY <1>2 DEF InLog
  <2>2. active[key[j]] = j /\ j # 0 /\ key[j] # K
    BY <1>2, <2>1 DEF Inv, SegInv, Segs
  <2>3. \A p \in TracksInLog(j) : KeyOf(p) = key[j]
    BY <2>1 DEF TracksInLog, Inv, HoldInv, Used
  <2> QED
    BY <1>4, <2>2, <2>3
<1>6. InLog(n) = "none" /\ InLog(n)' = "open" /\ TracksInLog(n)' = tracks[n]
  BY <1>1, <1>2, <1>3 DEF InLog, TracksInLog
<1>7. \A i \in Segs : i # n => InLog(i)' = InLog(i) /\ TracksInLog(i)' = TracksInLog(i)
  BY <1>1, <1>3 DEF InLog, TracksInLog
<1>8. [i \in Segs |-> InLog(i)]' = [[i \in Segs |-> InLog(i)] EXCEPT ![n] = "open"]
  BY <1>2, <1>6, <1>7
<1>9. [i \in Segs |-> TracksInLog(i)]'
        = [[i \in Segs |-> TracksInLog(i)] EXCEPT ![n] = tracks[n]]
  BY <1>2, <1>6, <1>7
<1>10. (phase = "ended")' = (phase = "ended")
  BY <1>1
<1>11. Log!Open(n, tracks[n])
  <2>1. [i \in Segs |-> InLog(i)][n] = "none"
    BY <1>2, <1>6
  <2>2. \A j \in Segs : [i \in Segs |-> InLog(i)][j] = "open" =>
           tracks[n] \cap [i \in Segs |-> TracksInLog(i)][j] = {}
    BY <1>5
  <2> QED
    BY <1>1, <1>2, <1>8, <1>9, <1>10, <2>1, <2>2 DEF Log!Open, InLog, TracksInLog
<1> PICK T \in SUBSET Producers : T = tracks[n]
  BY <1>4
<1>12. T # {} /\ Log!Open(n, T)
  BY <1>4, <1>11 DEF Log!Open
<1> QED
  BY <1>12 DEF Log!Next

LEMMA LogCloses ==
  ASSUME Inv, NEW n \in Segs, Finish(n), UNCHANGED <<phase, manifest>>, phase # "ended"
  PROVE  Log!Next
<1>1. /\ status[n] = "closing"
      /\ status' = [status EXCEPT ![n] = "finished"]
      /\ tracks' = [tracks EXCEPT ![n] = {}]
  BY DEF Finish
<1>2. /\ \A i \in Segs : status'[i] = IF i = n THEN "finished" ELSE status[i]
      /\ \A i \in Segs : i # n => tracks'[i] = tracks[i]
  BY <1>1 DEF Inv, TypeOK
<1>3. InLog(n) = "open" /\ InLog(n)' = "closed" /\ TracksInLog(n)' = {}
  BY <1>1, <1>2 DEF InLog, TracksInLog
<1>4. \A i \in Segs : i # n => InLog(i)' = InLog(i) /\ TracksInLog(i)' = TracksInLog(i)
  BY <1>2 DEF InLog, TracksInLog
<1>5. [i \in Segs |-> InLog(i)]' = [[i \in Segs |-> InLog(i)] EXCEPT ![n] = "closed"]
  BY <1>3, <1>4
<1>6. [i \in Segs |-> TracksInLog(i)]' = [[i \in Segs |-> TracksInLog(i)] EXCEPT ![n] = {}]
  BY <1>3, <1>4
<1>7. (phase = "ended")' = (phase = "ended")
  OBVIOUS
<1>8. [i \in Segs |-> InLog(i)][n] = "open"
  BY <1>3
<1>9. Log!Close(n)
  BY <1>5, <1>6, <1>7, <1>8 DEF Log!Close, InLog, TracksInLog
<1> QED
  BY <1>9 DEF Log!Next

LEMMA LogSeals ==
  ASSUME Inv, BuildManifest
  PROVE  Log!Next
<1>1. /\ queue # <<>> /\ step = "stop" /\ phase' = "ended"
      /\ manifest' = finished /\ \A i \in Segs : status[i] # "closing"
      /\ UNCHANGED <<status, tracks>>
  BY DEF BuildManifest, At
<1>2. phase # "ended" /\ \A k \in Keys : active[k] = 0
  BY <1>1, TaskFacts DEF Inv, SegInv
<1>3. \A i \in Segs : status[i] # "active"
  <2>1. \A i \in Segs : i # 0
    BY DEF Segs
  <2> QED
    BY <1>2, <2>1 DEF Inv, SegInv, HoldInv, Used
<1>4. \A i \in Segs : InLog(i) # "open"
  BY <1>1, <1>3 DEF InLog
<1>5. \A i \in Segs : InLog(i) = "closed" <=> status[i] = "finished"
  BY DEF InLog
<1>6. manifest' = [i \in Segs |-> IF [j \in Segs |-> InLog(j)][i] = "closed" THEN 1 ELSE 0]
  <2>1. finished = [i \in Segs |-> finished[i]]
    BY DEF Inv, TypeOK
  <2> QED
    BY <1>1, <1>5, <2>1 DEF Inv, HoldInv
<1>7. \A i \in Segs : InLog(i)' = InLog(i) /\ TracksInLog(i)' = TracksInLog(i)
  BY <1>1 DEF InLog, TracksInLog
<1>8. /\ [i \in Segs |-> InLog(i)]' = [i \in Segs |-> InLog(i)]
      /\ [i \in Segs |-> TracksInLog(i)]' = [i \in Segs |-> TracksInLog(i)]
  BY <1>7
<1>9. /\ \A i \in Segs : [j \in Segs |-> InLog(j)][i] # "open"
      /\ ~(phase = "ended") /\ (phase = "ended")' = TRUE
  BY <1>1, <1>2, <1>4
<1>10. Log!Seal
  BY <1>6, <1>8, <1>9 DEF Log!Seal, InLog, TracksInLog
<1> QED
  BY <1>10 DEF Log!Next

\* syncPeer, startSegment, endSegment, stopRecording: a track is in one open
\* segment at a time, and the manifest, written once and last, lists each segment
\* that was opened, once, after its ffmpeg is gone.
THEOREM LogIsKeptAlways == Spec => LogIsKept
<1>1. Init => Log!Init
  <2> SUFFICES ASSUME Init PROVE Log!Init
    OBVIOUS
  <2> QED
    BY DEF Init, Log!Init
<1>2. Inv /\ [Next]_vars => [Log!Next]_(Log!vars)
  <2> SUFFICES ASSUME Inv, [Next]_vars PROVE [Log!Next]_(Log!vars)
    OBVIOUS
  <2>1. CASE UNCHANGED vars
    <3>1. UNCHANGED <<status, tracks, phase, manifest>>
      BY <2>1 DEF vars
    <3>2. \A i \in Segs : InLog(i)' = InLog(i) /\ TracksInLog(i)' = TracksInLog(i)
      BY <3>1 DEF InLog, TracksInLog
    <3> QED
      BY <3>1, <3>2, LogStutters
  <2>2. CASE Next /\ ~TaskStep
    BY <2>2, LogOutside
  <2>3. CASE Resumed
    BY <2>3, LogOpens
  <2>4. CASE Ended
    <3>1. /\ queue # <<>> /\ cur \in Segs /\ Finish(cur) /\ UNCHANGED <<phase, manifest>>
      BY <2>4 DEF Ended, At, Inv, SegInv
    <3> QED
      BY <3>1, TaskFacts, LogCloses
  <2>5. CASE \E i \in Segs : EndedOne(i)
    <3>1. PICK i \in Segs : EndedOne(i)
      BY <2>5
    <3>2. queue # <<>> /\ Finish(i) /\ UNCHANGED <<phase, manifest>>
      BY <3>1 DEF EndedOne, At
    <3> QED
      BY <3>2, TaskFacts, LogCloses
  <2>6. CASE BuildManifest
    BY <2>6, LogSeals
  <2> QED
    BY <2>1, <2>2, <2>3, <2>4, <2>5, <2>6, LogTask
<1> QED
  BY <1>1, <1>2, InvAlways, PTL DEF Spec, LogIsKept, Log!Spec
-----------------------------------------------------------------------------
(* What is recorded follows what is sent *)

\* There is, or will be, a task of q behind the one that runs.
Again(q) == q \in timer \/ \E n \in 2..Len(queue) : queue[n].peer = q
Runs(q) == queue # <<>> /\ Head(queue).peer = q
Reads == {"idle", "sync", "drop"}

Dying(k) == active[k] # 0 /\ ff[active[k]] # "on"
Synced(k) ==
    \/ k \in gaveUp
    \/ IF Live(k) = {} THEN active[k] = 0
       ELSE active[k] # 0 /\ tracks[active[k]] = Live(k) /\ ff[active[k]] = "on"

\* Nothing is active before the recording begins, and a segment is set up for
\* what the task read.
FreshInv ==
    /\ phase = "none" => \A k \in Keys : active[k] = 0
    /\ step \in Setup => tracks[cur] = snap[source]

\* The ffmpeg of an active segment that has died is known to a task to come:
\* the one of onUnexpectedExit.
DeadInv ==
    phase = "live" =>
        \A k \in Keys : k \notin gaveUp /\ Dying(k) =>
            \E n \in 1..Len(queue) : queue[n] = Task("exit", k) /\ (n = 1 => step = "idle")

\* When nothing more is to come for a peer, the task that runs has read what the
\* peer sends now, has handled the sources before its own, and if no task of the
\* peer runs, all of its keys are in order.
SyncFor(q) ==
    ~Again(q) =>
        IF Runs(q)
        THEN step \notin Reads =>
                /\ \A s \in Sources : snap[s] = Live(<<q, s>>)
                /\ source = "screen" => Synced(<<q, "camera">>)
        ELSE \A s \in Sources : Synced(<<q, s>>)
SyncInv == phase = "live" => \A q \in Peers : SyncFor(q)

FollowInv == Inv /\ FreshInv /\ DeadInv /\ SyncInv

\* A step that does not concern a key.
Same(k) ==
    /\ active'[k] = active[k]
    /\ active[k] # 0 =>
          tracks'[active[k]] = tracks[active[k]] /\ ff'[active[k]] = ff[active[k]]
    /\ k \in gaveUp' <=> k \in gaveUp
    /\ Live(k)' = Live(k)

LEMMA SameKeeps ==
  ASSUME NEW k \in Keys, Same(k)
  PROVE  (Synced(k)' <=> Synced(k)) /\ (Dying(k)' <=> Dying(k))
  BY DEF Same, Synced, Dying

LEMMA SameRoom ==
  ASSUME NEW k, UNCHANGED roomVars
  PROVE  Live(k)' = Live(k)
  BY DEF Live

LEMMA SyncSame ==
  ASSUME FollowInv, UNCHANGED <<timer, queue, taskVars>>, phase' = "live" => phase = "live",
         \A k \in Keys : Same(k)
  PROVE  SyncInv'
<1> SUFFICES ASSUME phase = "live", NEW r \in Peers PROVE SyncFor(r)'
  BY DEF SyncInv
<1>1. SyncFor(r) /\ (Again(r)' <=> Again(r)) /\ (Runs(r)' <=> Runs(r))
  BY DEF FollowInv, SyncInv, Again, Runs
<1>2. \A s \in Sources : <<r, s>> \in Keys
  BY DEF Keys
<1>3. \A s \in Sources : /\ Synced(<<r, s>>)' <=> Synced(<<r, s>>)
                         /\ Live(<<r, s>>)' = Live(<<r, s>>)
  BY <1>2, SameKeeps DEF Same
<1> QED
  BY <1>1, <1>3 DEF SyncFor, Sources

\* A task is taken off the queue.
LEMMA Popped ==
  ASSUME Inv, queue # <<>>, queue' = Tail(queue), timer' = timer
  PROVE  /\ \A q \in Peers : ~Again(q)' /\ ~Runs(q)' => ~Again(q)
         /\ \A n \in 2..Len(queue) : n - 1 \in 1..Len(queue') /\ queue'[n - 1] = queue[n]
<1>1. queue \in Seq(Tasks) /\ Len(queue) \in Nat
  BY LenProperties DEF Inv, TypeOK
<1>2. /\ queue' \in Seq(Tasks) /\ Len(queue') = Len(queue) - 1
      /\ \A n \in 1..Len(queue') : queue'[n] = queue[n + 1]
  BY <1>1, HeadTailProperties
<1>3. \A n \in 2..Len(queue) : n - 1 \in 1..Len(queue') /\ queue'[n - 1] = queue[n]
  BY <1>1, <1>2
<1>4. ASSUME NEW q \in Peers, ~Again(q)', ~Runs(q)', Again(q)
      PROVE  FALSE
  <2>1. PICK n \in 2..Len(queue) : queue[n].peer = q
    BY <1>4 DEF Again
  <2>2. n - 1 \in 1..Len(queue') /\ queue'[n - 1].peer = q
    BY <1>3, <2>1
  <2>3. CASE n - 1 = 1
    <3>1. queue' # <<>>
      <4>1. 1 \in 1..Len(queue')
        BY <2>2, <2>3
      <4>2. Len(queue') # 0
        BY <1>1, <1>2, <4>1
      <4> QED
        BY <1>2, <4>2, EmptySeq
    <3>2. Head(queue') = queue'[1]
      BY <1>2, <3>1, HeadTailProperties
    <3> QED
      BY <1>4, <2>2, <2>3, <3>1, <3>2 DEF Runs
  <2>4. CASE n - 1 # 1
    <3>1. n - 1 \in 2..Len(queue')
      BY <1>1, <1>2, <2>2, <2>4
    <3> QED
      BY <1>4, <2>2, <3>1 DEF Again
  <2> QED
    BY <2>3, <2>4
<1> QED
  BY <1>3, <1>4

\* A task is appended.
LEMMA Queued ==
  ASSUME Inv, NEW x \in Tasks, queue' = Append(queue, x)
  PROVE  /\ Len(queue) \in Nat /\ Len(queue') = Len(queue) + 1 /\ queue' # <<>>
         /\ \A n \in 1..Len(queue) : queue'[n] = queue[n]
         /\ queue'[Len(queue) + 1] = x
         /\ queue # <<>> => Head(queue') = Head(queue) /\ Len(queue) >= 1
         /\ queue = <<>> => Head(queue') = x /\ Len(queue) = 0 /\ step = "idle"
<1>1. queue \in Seq(Tasks) /\ Len(queue) \in Nat
  BY LenProperties DEF Inv, TypeOK
<1>2. /\ queue' \in Seq(Tasks) /\ Len(queue') = Len(queue) + 1 /\ queue' # <<>>
      /\ \A n \in 1..Len(queue) : queue'[n] = queue[n]
      /\ queue'[Len(queue) + 1] = x
  BY <1>1, AppendProperties, EmptySeq
<1>3. Head(queue') = queue'[1]
  BY <1>2, HeadTailProperties
<1>4. queue # <<>> => Head(queue) = queue[1] /\ Len(queue) >= 1
  BY HeadFacts DEF Inv
<1>5. queue = <<>> => Len(queue) = 0 /\ step = "idle"
  BY EmptySeq DEF Inv, QueueInv
<1> QED
  BY <1>1, <1>2, <1>3, <1>4, <1>5

LEMMA QueuedFor ==
  ASSUME Inv, NEW x \in Tasks, queue' = Append(queue, x), step' = step, NEW q \in Peers
  PROVE  /\ x.peer = q => Again(q)' \/ (Runs(q)' /\ step' = "idle")
         /\ x.peer # q /\ (q \in timer => q \in timer') /\ ~Again(q)' =>
               ~Again(q) /\ (Runs(q)' <=> Runs(q))
<1>1. /\ Len(queue) \in Nat /\ Len(queue') = Len(queue) + 1 /\ queue' # <<>>
      /\ \A n \in 1..Len(queue) : queue'[n] = queue[n]
      /\ queue'[Len(queue) + 1] = x
      /\ queue # <<>> => Head(queue') = Head(queue) /\ Len(queue) >= 1
      /\ queue = <<>> => Head(queue') = x /\ Len(queue) = 0 /\ step = "idle"
  BY Queued
<1>2. ASSUME x.peer = q
      PROVE  Again(q)' \/ (Runs(q)' /\ step' = "idle")
  <2>1. CASE queue = <<>>
    BY <1>1, <1>2, <2>1 DEF Runs
  <2>2. CASE queue # <<>>
    <3>1. Len(queue) + 1 \in 2..Len(queue')
      BY <1>1, <2>2
    <3> QED
      BY <1>1, <1>2, <3>1 DEF Again
  <2> QED
    BY <2>1, <2>2
<1>3. ASSUME x.peer # q, q \in timer => q \in timer', ~Again(q)'
      PROVE  ~Again(q) /\ (Runs(q)' <=> Runs(q))
  <2>1. \A n \in 2..Len(queue) : n \in 2..Len(queue') /\ queue'[n] = queue[n]
    BY <1>1
  <2>2. ~Again(q)
    BY <1>3, <2>1 DEF Again
  <2> QED
    BY <1>1, <1>3, <2>2 DEF Runs
<1> QED
  BY <1>2, <1>3

-----------------------------------------------------------------------------
(* The room, the timers and ffmpeg *)

\* The queue and the segments stay as they are; whose producers change has a
\* timer afterwards.
LEMMA FollowRoom ==
  ASSUME FollowInv, NEW q \in Peers,
         UNCHANGED <<phase, queue, taskVars, active, segVars, gaveUp>>,
         timer \subseteq timer', phase = "live" => q \in timer' \/ timer' = timer,
         q \in timer' \/ \A k \in Keys : Live(k)' = Live(k),
         \A k \in Keys : k[1] # q => Live(k)' = Live(k)
  PROVE  phase = "live" => SyncInv'
<1> SUFFICES ASSUME phase = "live", NEW r \in Peers, ~Again(r)'
             PROVE  SyncFor(r)'
  BY DEF SyncInv, SyncFor
<1>1. ~Again(r) /\ (Runs(r)' <=> Runs(r)) /\ SyncFor(r)
  BY DEF Again, Runs, FollowInv, SyncInv
<1>2. r = q => \A k \in Keys : Live(k)' = Live(k)
  BY DEF Again
<1>3. \A s \in Sources : <<r, s>> \in Keys /\ <<r, s>>[1] = r
  BY DEF Keys
<1>4. \A s \in Sources : Same(<<r, s>>)
  BY <1>2, <1>3 DEF Same
<1>5. \A s \in Sources : Synced(<<r, s>>)' <=> Synced(<<r, s>>)
  BY <1>3, <1>4, SameKeeps
<1>6. \A s \in Sources : Live(<<r, s>>)' = Live(<<r, s>>)
  BY <1>4 DEF Same
<1> QED
  BY <1>1, <1>5, <1>6 DEF SyncFor, Sources

LEMMA FollowProducers ==
  ASSUME FollowInv,
         \/ \E q \in Peers : Join(q) \/ CloseTransport(q)
         \/ \E p \in Producers : Produce(p)
  PROVE  FreshInv' /\ DeadInv' /\ SyncInv'
<1>1. /\ UNCHANGED <<phase, queue, taskVars, active, segVars, gaveUp>>
  BY DEF Join, Produce, CloseTransport
<1>2. FreshInv' /\ DeadInv'
  BY <1>1 DEF FollowInv, FreshInv, DeadInv, Dying
<1>3. \A p \in Producers : Owner[p] \in Peers
  BY ProducersAssumption
<1>4. ASSUME NEW q \in Peers, Join(q)
      PROVE  SyncInv'
  <2>1. timer' = timer /\ prod' = prod /\ here' = here \cup {q}
    BY <1>4 DEF Join
  <2>2. \A p \in Producers : Owner[p] = q => prod[p] # "open"
    BY <1>4 DEF Join
  <2>3. \A k \in Keys : Live(k)' = Live(k)
    <3> SUFFICES ASSUME NEW k \in Keys, NEW p \in Producers
                 PROVE  p \in Live(k)' <=> p \in Live(k)
      BY DEF Live
    <3>1. KeyOf(p) = k => Owner[p] = k[1]
      BY DEF KeyOf
    <3> QED
      BY <2>1, <2>2, <3>1 DEF Live
  <2> QED
    BY <1>1, <2>1, <2>3, FollowRoom DEF SyncInv
<1>5. ASSUME NEW q \in Peers, here' = here, Notify(q),
             \A p \in Producers : Owner[p] # q => prod'[p] = prod[p]
      PROVE  SyncInv'
  <2>1. \A k \in Keys : k[1] # q => Live(k)' = Live(k)
    <3> SUFFICES ASSUME NEW k \in Keys, k[1] # q, NEW p \in Producers
                 PROVE  p \in Live(k)' <=> p \in Live(k)
      BY DEF Live
    <3>1. KeyOf(p) = k => Owner[p] = k[1]
      BY DEF KeyOf
    <3> QED
      BY <1>5, <3>1 DEF Live
  <2>2. CASE phase = "live"
    <3>1. timer' = timer \cup {q}
      BY <1>5, <2>2 DEF Notify
    <3> QED
      BY <1>1, <2>1, <2>2, <3>1, FollowRoom
  <2>3. CASE phase # "live"
    BY <1>1, <2>3 DEF SyncInv
  <2> QED
    BY <2>2, <2>3
<1>6. ASSUME NEW q \in Peers, CloseTransport(q)
      PROVE  SyncInv'
  <2>1. here' = here /\ Notify(q) /\ prod' = CloseAll(q)
    BY <1>6 DEF CloseTransport
  <2>2. \A p \in Producers : Owner[p] # q => prod'[p] = prod[p]
    BY <2>1 DEF CloseAll
  <2> QED
    BY <1>5, <2>1, <2>2
<1>7. ASSUME NEW p \in Producers, Produce(p)
      PROVE  SyncInv'
  <2>1. here' = here /\ Notify(Owner[p]) /\ prod' = [prod EXCEPT ![p] = "open"]
    BY <1>7 DEF Produce
  <2>2. \A r \in Producers : Owner[r] # Owner[p] => prod'[r] = prod[r]
    BY <2>1 DEF FollowInv, Inv, TypeOK
  <2> QED
    BY <1>3, <1>5, <2>1, <2>2
<1> QED
  BY <1>2, <1>4, <1>6, <1>7

\* A task of q is queued, and only q has lost a timer or its producers.
LEMMA FollowQueued ==
  ASSUME FollowInv, NEW q \in Peers, NEW x \in Tasks, x.peer = q,
         queue' = Append(queue, x), UNCHANGED <<phase, taskVars, active, key, tracks, count, gaveUp>>,
         timer \ {q} \subseteq timer',
         \A k \in Keys : k[1] # q => Live(k)' = Live(k),
         \A k \in Keys : k[1] # q /\ active[k] # 0 => ff'[active[k]] = ff[active[k]]
  PROVE  SyncInv'
<1> SUFFICES ASSUME phase = "live", NEW r \in Peers, ~Again(r)'
             PROVE  SyncFor(r)'
  BY DEF SyncInv, SyncFor
<1>1. CASE r = q
  <2>1. Runs(r)' /\ step' = "idle"
    BY <1>1, QueuedFor DEF FollowInv
  <2> QED
    BY <2>1 DEF SyncFor, Reads
<1>2. CASE r # q
  <2>1. ~Again(r) /\ (Runs(r)' <=> Runs(r)) /\ SyncFor(r)
    BY <1>2, QueuedFor DEF FollowInv, SyncInv
  <2>2. \A s \in Sources : <<r, s>> \in Keys /\ <<r, s>>[1] # q
    BY <1>2 DEF Keys
  <2>3. \A s \in Sources : Same(<<r, s>>)
    BY <2>2 DEF Same
  <2>4. \A s \in Sources : /\ Synced(<<r, s>>)' <=> Synced(<<r, s>>)
                           /\ Live(<<r, s>>)' = Live(<<r, s>>)
    BY <2>2, <2>3, SameKeeps DEF Same
  <2> QED
    BY <2>1, <2>4 DEF SyncFor, Sources
<1> QED
  BY <1>1, <1>2

\* The tasks that are known stay where they are when one is appended.
LEMMA DeadQueued ==
  ASSUME FollowInv, NEW x \in Tasks, queue' = Append(queue, x), step' = step, phase = "live",
         \A k \in Keys : k \notin gaveUp' /\ Dying(k)' => (k \notin gaveUp /\ Dying(k)) \/ x = Task("exit", k)
  PROVE  DeadInv'
<1>1. /\ Len(queue) \in Nat /\ Len(queue') = Len(queue) + 1
      /\ \A n \in 1..Len(queue) : queue'[n] = queue[n]
      /\ queue'[Len(queue) + 1] = x
      /\ queue # <<>> => Len(queue) >= 1
      /\ queue = <<>> => step = "idle"
  BY Queued DEF FollowInv
<1> SUFFICES ASSUME NEW k \in Keys, k \notin gaveUp', Dying(k)'
             PROVE  \E n \in 1..Len(queue') : queue'[n] = Task("exit", k) /\ (n = 1 => step' = "idle")
  BY DEF DeadInv
<1>2. CASE x = Task("exit", k)
  <2>1. Len(queue) + 1 \in 1..Len(queue') /\ (Len(queue) + 1 = 1 => step = "idle")
    BY <1>1
  <2> QED
    BY <1>1, <1>2, <2>1
<1>3. CASE k \notin gaveUp /\ Dying(k)
  <2>1. PICK n \in 1..Len(queue) : queue[n] = Task("exit", k) /\ (n = 1 => step = "idle")
    BY <1>3 DEF FollowInv, DeadInv
  <2>2. n \in 1..Len(queue')
    BY <1>1
  <2> QED
    BY <1>1, <2>1, <2>2
<1> QED
  BY <1>2, <1>3

LEMMA FollowLeave ==
  ASSUME FollowInv, NEW q \in Peers, Leave(q) \/ TimerFires(q)
  PROVE  FreshInv' /\ DeadInv' /\ SyncInv'
<1>1. /\ UNCHANGED <<phase, taskVars, active, segVars, gaveUp>>
      /\ timer' = timer \ {q}
      /\ queue' = queue => phase # "live"
      /\ queue' # queue => phase = "live" /\ \E x \in Tasks : queue' = Append(queue, x) /\ x.peer = q
  <2>1. CASE Leave(q)
    <3>1. /\ UNCHANGED <<phase, taskVars, active, segVars, gaveUp>> /\ timer' = timer \ {q}
          /\ queue' = IF phase = "live" THEN Append(queue, Task("left", <<q, "camera">>))
                                        ELSE queue
      BY <2>1 DEF Leave
    <3>2. phase = "live" => queue' # queue
      BY <3>1, TaskTypes, Queued DEF FollowInv
    <3> QED
      BY <3>1, <3>2, TaskTypes
  <2>2. CASE TimerFires(q)
    <3>1. /\ UNCHANGED <<phase, taskVars, active, segVars, gaveUp>> /\ timer' = timer \ {q}
          /\ queue' = Append(queue, Task("sync", <<q, "camera">>)) /\ timer # {}
      BY <2>2 DEF TimerFires
    <3>2. queue' # queue /\ phase = "live"
      BY <3>1, TaskTypes, Queued DEF FollowInv, Inv, QueueInv
    <3> QED
      BY <3>1, <3>2, TaskTypes
  <2> QED
    BY <2>1, <2>2
<1>2. FreshInv'
  BY <1>1 DEF FollowInv, FreshInv
<1>3. CASE phase # "live"
  BY <1>1, <1>2, <1>3 DEF DeadInv, SyncInv
<1>4. CASE phase = "live"
  <2>1. PICK x \in Tasks : queue' = Append(queue, x) /\ x.peer = q
    BY <1>1, <1>4
  <2>2. \A k \in Keys : k[1] # q => Live(k)' = Live(k)
    <3> SUFFICES ASSUME NEW k \in Keys, k[1] # q, NEW p \in Producers
                 PROVE  p \in Live(k)' <=> p \in Live(k)
      BY DEF Live
    <3>1. KeyOf(p) = k => Owner[p] # q
      BY DEF KeyOf
    <3>2. UNCHANGED roomVars \/ (here' = here \ {q} /\ prod' = CloseAll(q))
      BY DEF Leave, TimerFires
    <3> QED
      BY <3>1, <3>2 DEF Live, CloseAll
  <2>3. SyncInv'
    BY <1>1, <2>1, <2>2, FollowQueued
  <2>4. \A k \in Keys : k \notin gaveUp' /\ Dying(k)' => k \notin gaveUp /\ Dying(k)
    BY <1>1 DEF Dying
  <2>5. DeadInv'
    BY <1>1, <1>4, <2>1, <2>4, DeadQueued
  <2> QED
    BY <1>2, <2>3, <2>5
<1> QED
  BY <1>3, <1>4

LEMMA FollowStop ==
  ASSUME FollowInv, StopRequested \/ \E q \in Peers : LeaveChecked(q)
  PROVE  FreshInv' /\ DeadInv' /\ SyncInv'
<1>1. /\ UNCHANGED <<roomVars, taskVars, active, segVars, gaveUp>>
      /\ (phase = "live" /\ phase' = "stopping") \/ UNCHANGED <<phase, timer, queue>>
  BY DEF StopRequested, LeaveChecked, Stop
<1>2. FreshInv'
  BY <1>1 DEF FollowInv, FreshInv
<1>3. CASE phase' = "stopping"
  BY <1>2, <1>3 DEF DeadInv, SyncInv
<1>4. CASE UNCHANGED <<phase, timer, queue>>
  <2>1. DeadInv'
    BY <1>1, <1>4 DEF FollowInv, DeadInv, Dying
  <2>2. SyncInv'
    <3>1. \A k \in Keys : Same(k)
      BY <1>1, SameRoom DEF Same
    <3> QED
      BY <1>1, <1>4, <3>1, SyncSame
  <2> QED
    BY <1>2, <2>1, <2>2
<1> QED
  BY <1>1, <1>3, <1>4

LEMMA FollowStart ==
  ASSUME FollowInv, StartRecording
  PROVE  FreshInv' /\ DeadInv' /\ SyncInv'
<1>1. /\ phase = "none" /\ phase' = "live" /\ step = "idle"
      /\ UNCHANGED <<roomVars, taskVars, active, segVars, gaveUp>>
  BY DEF StartRecording, FollowInv, Inv, QueueInv
<1>2. \A k \in Keys : active'[k] = 0
  BY <1>1 DEF FollowInv, FreshInv
<1>3. FreshInv' /\ DeadInv'
  BY <1>1, <1>2 DEF FreshInv, DeadInv, Dying, Setup
<1>4. SyncInv'
  <2> SUFFICES ASSUME NEW r \in Peers, ~Again(r)', ~Runs(r)', NEW s \in Sources
               PROVE  Synced(<<r, s>>)'
    BY <1>1 DEF SyncInv, SyncFor, Reads
  <2>1. r \notin here
    <3> SUFFICES ASSUME r \in here PROVE FALSE
      OBVIOUS
    <3>1. Cardinality(here) \in Nat /\ IsFiniteSet(here)
      BY FS_Subset, FS_CardinalityType, ProducersAssumption DEF FollowInv, Inv, TypeOK
    <3>2. PICK q \in [1..Cardinality(here) -> here] :
             /\ \A m, n \in DOMAIN q : m # n => q[m] # q[n]
             /\ queue' = [n \in DOMAIN q |-> Task("sync", <<q[n], "camera">>)]
      BY DEF StartRecording
    <3>3. \A n \in 1..Cardinality(here) :
             LET x == Task("sync", <<q[n], "camera">>) IN x \in Tasks /\ x.peer = q[n]
      BY TaskTypes DEF FollowInv, Inv, TypeOK
    <3>8. DOMAIN q = 1..Cardinality(here)
      OBVIOUS
    <3>9. \A n \in 1..Cardinality(here) : queue'[n].peer = q[n]
      BY <3>2, <3>3, <3>8
    <3>10. queue' \in [1..Cardinality(here) -> Tasks]
      BY <3>2, <3>3, <3>8
    <3>4. queue' \in Seq(Tasks) /\ Len(queue') = Cardinality(here)
      BY <3>1, <3>10
    <3>5. PICK n \in 1..Cardinality(here) : q[n] = r
      <4>1. q \in Injection(1..Cardinality(here), here)
        BY <3>2 DEF Injection, IsInjective
      <4>2. IsFiniteSet(1..Cardinality(here)) /\ Cardinality(1..Cardinality(here)) = Cardinality(here)
        BY <3>1, FS_Interval
      <4>3. q \in Surjection(1..Cardinality(here), here)
        BY <3>1, <4>1, <4>2, FS_Injection
      <4> QED
        BY <4>3 DEF Surjection
    <3>6. CASE n = 1
      <4>1. queue' # <<>> /\ Head(queue') = queue'[1]
        BY <3>1, <3>4, <3>5, HeadTailProperties, EmptySeq
      <4> QED
        BY <3>5, <3>6, <3>9, <4>1 DEF Runs
    <3>7. CASE n # 1
      <4>1. n \in 2..Len(queue')
        BY <3>1, <3>4, <3>7
      <4> QED
        BY <3>5, <3>9, <4>1 DEF Again
    <3> QED
      BY <3>6, <3>7
  <2>2. Live(<<r, s>>)' = {}
    BY <1>1, <2>1 DEF Live
  <2>3. <<r, s>> \in Keys
    BY DEF Keys
  <2> QED
    BY <1>2, <2>2, <2>3 DEF Synced
<1> QED
  BY <1>3, <1>4

LEMMA FollowFf ==
  ASSUME FollowInv, NEW i \in Segs, FfStops(i) \/ FfDies(i)
  PROVE  FreshInv' /\ DeadInv' /\ SyncInv'
<1>1. /\ UNCHANGED <<phase, roomVars, timer, taskVars, active, count, key, tracks, status, gaveUp>>
      /\ \A j \in Segs : j # i => ff'[j] = ff[j]
  BY DEF FfStops, FfDies, FollowInv, Inv, TypeOK
<1>2. FreshInv'
  BY <1>1 DEF FollowInv, FreshInv
<1>3. \A k \in Keys : Live(k)' = Live(k)
  BY <1>1, SameRoom
<1>4. \A k \in Keys : active[k] # 0 =>
         active[k] \in Segs /\ status[active[k]] = "active" /\ key[active[k]] = k
  BY DEF FollowInv, Inv, SegInv, TypeOK, Segs
<1>5. CASE phase # "live"
  BY <1>1, <1>2, <1>5 DEF DeadInv, SyncInv
<1>6. ASSUME phase = "live", queue' = queue, \A k \in Keys : active[k] # i
      PROVE  DeadInv' /\ SyncInv'
  <2>1. \A k \in Keys : Same(k)
    BY <1>1, <1>3, <1>4, <1>6 DEF Same
  <2>2. \A k \in Keys : (Synced(k)' <=> Synced(k)) /\ (Dying(k)' <=> Dying(k))
    BY <2>1, SameKeeps
  <2>3. DeadInv'
    BY <1>1, <1>6, <2>2 DEF FollowInv, DeadInv
  <2> QED
    BY <1>1, <1>6, <2>1, <2>3, SyncSame
<1>7. ASSUME phase = "live", key[i] \in Keys, queue' = Append(queue, Task("exit", key[i]))
      PROVE  DeadInv' /\ SyncInv'
  <2> DEFINE x == Task("exit", key[i])
  <2>1. x \in Tasks /\ x.peer = key[i][1] /\ key[i][1] \in Peers
    BY <1>7, TaskTypes DEF Task, Keys
  <2>2. \A k \in Keys : active[k] = i => key[i] = k
    BY <1>4 DEF Segs
  <2>3. \A k \in Keys : k[1] # key[i][1] /\ active[k] # 0 => ff'[active[k]] = ff[active[k]]
    BY <1>1, <1>4, <2>2
  <2>4. SyncInv'
    BY <1>1, <1>3, <1>7, <2>1, <2>3, FollowQueued
  <2>5. \A k \in Keys : k \notin gaveUp' /\ Dying(k)' =>
           (k \notin gaveUp /\ Dying(k)) \/ x = Task("exit", k)
    <3> SUFFICES ASSUME NEW k \in Keys, Dying(k)', ~Dying(k) PROVE key[i] = k
      BY <1>1
    <3> QED
      BY <1>1, <1>4, <2>2 DEF Dying
  <2>6. DeadInv'
    BY <1>1, <1>7, <2>1, <2>5, DeadQueued
  <2> QED
    BY <2>4, <2>6
<1>8. CASE FfStops(i)
  <2>1. queue' = queue /\ status[i] = "closing"
    BY <1>8 DEF FfStops
  <2>2. \A k \in Keys : active[k] # i
    BY <1>4, <2>1 DEF Segs
  <2> QED
    BY <1>2, <1>5, <1>6, <2>1, <2>2
<1>9. CASE FfDies(i)
  <2>1. /\ key[i] \in Keys
        /\ \/ phase = "live" /\ queue' = Append(queue, Task("exit", key[i]))
           \/ (phase = "live" => active[key[i]] = 0) /\ queue' = queue
    BY <1>9 DEF FfDies, FollowInv, Inv, HoldInv, Used
  <2>2. active[key[i]] = 0 => \A k \in Keys : active[k] # i
    BY <1>4 DEF Segs
  <2> QED
    BY <1>2, <1>5, <1>6, <1>7, <2>1, <2>2
<1> QED
  BY <1>8, <1>9

-----------------------------------------------------------------------------
(* The task that runs *)

\* What every step of a task leaves as it is while the recording lives.
LEMMA LiveTask ==
  ASSUME Inv, TaskStep, phase' = "live"
  PROVE  /\ phase = "live" /\ queue # <<>> /\ step # "stop" /\ Head(queue).kind # "stop"
         /\ Head(queue).peer \in Peers
         /\ UNCHANGED <<roomVars, timer>>
         /\ queue' = queue \/ (queue' = Tail(queue) /\ step' = "idle")
<1>1. queue # <<>> /\ timer' = timer /\ roomVars' = roomVars
  BY DEF TaskStep, StartStep, SyncPeer, Unchanged, EndChanged, EndCrashed, Ended, NoSegment, Begin,
         TakePort, NoPort, PartReady, Spawn, SetupThrows, BootCheck, Resumed, EndAll, EndedOne,
         BuildManifest, At, Free, End, SetupFails
<1>2. phase = "live"
  BY DEF TaskStep, StartStep, SyncPeer, Unchanged, EndChanged, EndCrashed, Ended, NoSegment, Begin,
         TakePort, NoPort, PartReady, Spawn, SetupThrows, BootCheck, Resumed, EndAll, EndedOne,
         BuildManifest, End, SetupFails
<1>3. queue' = queue \/ (queue' = Tail(queue) /\ step' = "idle")
  BY DEF TaskStep, StartStep, SyncPeer, Unchanged, EndChanged, EndCrashed, Ended, NoSegment, Begin,
         TakePort, NoPort, PartReady, Spawn, SetupThrows, BootCheck, Resumed, EndAll, EndedOne,
         BuildManifest, End, SetupFails, NextSource, Done
<1>4. Head(queue).kind # "stop"
  BY <1>1, <1>2, HeadFacts DEF Inv, QueueInv
<1>5. step # "stop" /\ Head(queue).peer \in Peers
  BY <1>1, <1>4, HeadFacts DEF Inv, QueueInv
<1> QED
  BY <1>1, <1>2, <1>3, <1>4, <1>5

\* A task touches the key it works on and no other.
LEMMA OthersAlone ==
  ASSUME Inv, TaskStep, phase' = "live", NEW k \in Keys,
         k # K, step = "idle" => k[1] # Head(queue).peer
  PROVE  Same(k)
<1>1. /\ phase = "live" /\ queue # <<>> /\ step # "stop" /\ Head(queue).kind # "stop"
      /\ UNCHANGED roomVars /\ Live(k)' = Live(k)
  BY LiveTask, SameRoom
<1>2. active[k] # 0 => active[k] \in Segs /\ status[active[k]] = "active"
  BY DEF Inv, SegInv, TypeOK, Segs
<1>3. ASSUME UNCHANGED <<active, gaveUp>>,
             active[k] # 0 => tracks'[active[k]] = tracks[active[k]] /\ ff'[active[k]] = ff[active[k]]
      PROVE  Same(k)
  BY <1>1, <1>3 DEF Same
<1>4. CASE SyncPeer \/ Unchanged \/ TakePort \/ PartReady
  BY <1>3, <1>4 DEF SyncPeer, Unchanged, TakePort, PartReady
<1>5. ASSUME NEW i \in Keys, End(i, step'), i # k
      PROVE  Same(k)
  <2>1. active' = [active EXCEPT ![i] = 0] /\ UNCHANGED <<tracks, ff, gaveUp>>
    BY <1>5 DEF End
  <2>2. active'[k] = active[k]
    BY <1>5, <2>1 DEF Inv, TypeOK
  <2> QED
    BY <1>1, <2>1, <2>2 DEF Same
<1>6. CASE EndChanged
  <2>1. K \in Keys /\ End(K, "close")
    BY <1>1, <1>6, TaskFacts DEF EndChanged, At
  <2>2. End(K, step')
    BY <2>1 DEF End
  <2> QED
    BY <1>5, <2>1, <2>2
<1>7. CASE EndCrashed
  <2> DEFINE i == <<Head(queue).peer, Head(queue).source>>
  <2>1. i \in Keys /\ i # k /\ step = "idle"
    BY <1>1, <1>7, HeadFacts DEF EndCrashed, At, Inv, Tasks, Keys
  <2>2. CASE active[i] # 0
    <3>1. End(i, "drop")
      BY <1>7, <2>2 DEF EndCrashed
    <3>2. End(i, step')
      BY <3>1 DEF End
    <3> QED
      BY <1>5, <2>1, <3>2
  <2>3. CASE active[i] = 0
    BY <1>3, <1>7, <2>3 DEF EndCrashed
  <2> QED
    BY <2>2, <2>3
<1>8. CASE Ended
  <2>1. /\ cur \in Segs /\ status[cur] = "closing" /\ tracks' = [tracks EXCEPT ![cur] = {}]
        /\ UNCHANGED <<active, gaveUp, ff>>
    BY <1>8 DEF Ended, At, Finish, Inv, SegInv
  <2>2. active[k] # 0 => tracks'[active[k]] = tracks[active[k]]
    BY <1>2, <2>1 DEF Inv, TypeOK
  <2> QED
    BY <1>3, <2>1, <2>2
<1>9. CASE NoSegment
  <2>1. UNCHANGED <<active, tracks, ff>> /\ gaveUp' \in {gaveUp \ {K}, gaveUp \cup {K}}
    BY <1>9 DEF NoSegment
  <2> QED
    BY <1>1, <2>1 DEF Same
<1>10. CASE Begin
  <2>1. /\ tracks' = [tracks EXCEPT ![count + 1] = snap[source]]
        /\ UNCHANGED <<active, gaveUp, ff>> /\ count + 1 \in Segs
    BY <1>10, BoundsAssumption DEF Begin, Inv, TypeOK, Segs
  <2>2. status[count + 1] = "none"
    BY <2>1, BoundsAssumption DEF Inv, SegInv, TypeOK, Segs
  <2>3. active[k] # 0 => tracks'[active[k]] = tracks[active[k]]
    BY <1>2, <2>1, <2>2 DEF Inv, TypeOK
  <2> QED
    BY <1>3, <2>1, <2>3
<1>11. CASE Spawn
  <2>1. step \in Setup /\ ff' = [ff EXCEPT ![cur] = "on"] /\ UNCHANGED <<active, gaveUp, tracks>>
    BY <1>11 DEF Spawn, At, Setup
  <2>2. cur \in Segs /\ status[cur] = "starting"
    BY <1>1, <2>1, SetupFacts
  <2>3. active[k] # 0 => ff'[active[k]] = ff[active[k]]
    BY <1>2, <2>1, <2>2 DEF Inv, TypeOK
  <2> QED
    BY <1>3, <2>1, <2>3
<1>12. CASE SetupFails
  <2>1. UNCHANGED <<active, tracks, ff>> /\ gaveUp' = gaveUp \cup {K}
    BY <1>12 DEF SetupFails
  <2> QED
    BY <1>1, <2>1 DEF Same
<1>13. CASE NoPort \/ SetupThrows \/ BootCheck
  BY <1>3, <1>12, <1>13 DEF NoPort, SetupThrows, BootCheck
<1>14. CASE Resumed
  <2>1. /\ active' = [active EXCEPT ![K] = cur] /\ UNCHANGED <<tracks, ff>>
        /\ gaveUp' \in {gaveUp \ {K}, gaveUp \cup {K}}
    BY <1>14 DEF Resumed
  <2>2. active'[k] = active[k]
    BY <2>1 DEF Inv, TypeOK
  <2> QED
    BY <1>1, <2>1, <2>2 DEF Same
<1>15. CASE EndAll \/ (\E i \in Segs : EndedOne(i)) \/ BuildManifest
  <2>1. Head(queue).kind = "stop" \/ step = "stop"
    BY <1>15 DEF EndAll, EndedOne, BuildManifest, Running, At
  <2> QED
    BY <1>1, <2>1
<1> QED
  BY <1>4, <1>6, <1>7, <1>8, <1>9, <1>10, <1>11, <1>13, <1>14, <1>15 DEF TaskStep, StartStep

\* The steps of a task past its reading: it goes on with the same source ...
Within ==
    /\ step \notin {"idle", "sync", "drop", "stop"} /\ step' \notin {"idle", "sync", "drop", "stop"}
    /\ UNCHANGED <<queue, source, snap>>

\* ... or it is done with it, and the key is in order unless more is to come.
Handled ==
    /\ step \notin {"idle", "sync", "drop", "stop"} /\ NextSource
    /\ \A k \in Keys : k = K /\ ~Again(k[1]) => Synced(k)'

\* ... or it has not read yet.
Before == step' \in Reads /\ queue' = queue

\* ... or it reads now.
ReadsNow ==
    /\ step' = "match" /\ source' = "camera" /\ queue' = queue
    /\ snap' = [s \in Sources |-> Live(<<Head(queue).peer, s>>)]

\* What the task still has in hand when it is done with a source.
LEMMA InHand ==
  ASSUME FollowInv, phase = "live", queue # <<>>, step \notin {"idle", "sync", "drop", "stop"},
         ~Again(Head(queue).peer), Head(queue).peer \in Peers
  PROVE  snap[source] = Live(K)
  BY DEF FollowInv, SyncInv, SyncFor, Runs, Reads, K, Inv, TypeOK

LEMMA ResumedHandles ==
  ASSUME FollowInv, Resumed, phase' = "live"
  PROVE  Handled
<1>1. /\ phase = "live" /\ queue # <<>> /\ Head(queue).peer \in Peers /\ UNCHANGED roomVars
  BY LiveTask DEF TaskStep, StartStep, FollowInv
<1>2. /\ step \in Setup /\ step = "resume" /\ NextSource /\ UNCHANGED <<tracks, ff>>
      /\ active' = [active EXCEPT ![K] = cur]
      /\ gaveUp' = IF ff[cur] = "on" THEN gaveUp \ {K} ELSE gaveUp \cup {K}
  BY DEF Resumed, At, Setup
<1>3. K \in Keys /\ cur \in Segs /\ cur # 0 /\ status[cur] = "starting"
  BY <1>1, <1>2, SetupFacts DEF FollowInv, Segs
<1>4. active'[K] = cur /\ tracks[cur] = snap[source] /\ tracks[cur] # {}
  BY <1>2, <1>3 DEF FollowInv, FreshInv, Inv, TypeOK, HoldInv, Used
<1>5. ASSUME NEW k \in Keys, k = K, ~Again(k[1])
      PROVE  Synced(k)'
  <2>1. k[1] = Head(queue).peer
    BY <1>5 DEF K
  <2>2. Live(k) = tracks[cur]
    BY <1>1, <1>2, <1>4, <1>5, <2>1, InHand
  <2>3. Live(k)' = Live(k)
    BY <1>1, SameRoom
  <2> QED
    BY <1>2, <1>3, <1>4, <1>5, <2>2, <2>3 DEF Synced
<1> QED
  BY <1>2, <1>5 DEF Handled

LEMMA NoSegmentHandles ==
  ASSUME FollowInv, NoSegment, phase' = "live"
  PROVE  Handled
<1>1. /\ phase = "live" /\ queue # <<>> /\ Head(queue).peer \in Peers /\ UNCHANGED roomVars
  BY LiveTask DEF TaskStep, FollowInv
<1>2. /\ step \in {"match", "open"} /\ NextSource /\ active[K] = 0 /\ active' = active
      /\ gaveUp' = IF snap[source] = {} THEN gaveUp \ {K} ELSE gaveUp \cup {K}
  BY DEF NoSegment, Free, At, FollowInv, Inv, SegInv
<1>3. ASSUME NEW k \in Keys, k = K, ~Again(k[1])
      PROVE  Synced(k)'
  <2>1. k[1] = Head(queue).peer
    BY <1>3 DEF K
  <2>2. snap[source] = Live(k) /\ Live(k)' = Live(k)
    BY <1>1, <1>2, <1>3, <2>1, InHand, SameRoom
  <2> QED
    BY <1>2, <1>3, <2>2 DEF Synced
<1> QED
  BY <1>2, <1>3 DEF Handled

LEMMA UnchangedHandles ==
  ASSUME FollowInv, Unchanged, phase' = "live"
  PROVE  Handled
<1>1. /\ phase = "live" /\ queue # <<>> /\ Head(queue).peer \in Peers /\ UNCHANGED roomVars
  BY LiveTask DEF TaskStep, FollowInv
<1>2. /\ step = "match" /\ NextSource /\ active[K] # 0 /\ tracks[active[K]] = snap[source]
      /\ UNCHANGED <<active, tracks, ff, gaveUp>>
  BY DEF Unchanged, At
<1>3. ASSUME NEW k \in Keys, k = K, ~Again(k[1])
      PROVE  Synced(k)'
  <2>1. k[1] = Head(queue).peer
    BY <1>3 DEF K
  <2>2. snap[source] = Live(k) /\ Live(k)' = Live(k)
    BY <1>1, <1>2, <1>3, <2>1, InHand, SameRoom
  <2>3. Live(k) # {}
    BY <1>2, <1>3, <2>2 DEF FollowInv, Inv, SegInv, HoldInv, Used, TypeOK, Segs
  <2>4. k \in gaveUp \/ ff[active[k]] = "on"
    <3> SUFFICES ASSUME k \notin gaveUp, ff[active[k]] # "on" PROVE FALSE
      OBVIOUS
    <3>1. PICK n \in 1..Len(queue) : queue[n] = Task("exit", k) /\ (n = 1 => step = "idle")
      BY <1>1, <1>2, <1>3 DEF FollowInv, DeadInv, Dying
    <3>2. n \in 2..Len(queue) /\ queue[n].peer = k[1]
      BY <1>1, <1>2, <3>1, HeadFacts DEF FollowInv, Inv, Task
    <3> QED
      BY <1>3, <3>2 DEF Again
  <2> QED
    BY <1>2, <1>3, <2>2, <2>3, <2>4 DEF Synced
<1> QED
  BY <1>2, <1>3 DEF Handled

LEMMA FailHandles ==
  ASSUME Inv, queue # <<>>, step \in Setup, SetupFails
  PROVE  Handled
<1>1. NextSource /\ gaveUp' = gaveUp \cup {K}
  BY DEF SetupFails
<1> QED
  BY <1>1 DEF Handled, Synced, Setup

\* Every step of a task is one of these.
LEMMA TaskForms ==
  ASSUME FollowInv, TaskStep, phase' = "live"
  PROVE  Within \/ Handled \/ Before \/ ReadsNow
<1>1. /\ phase = "live" /\ queue # <<>> /\ step # "stop" /\ Head(queue).kind # "stop"
  BY LiveTask DEF FollowInv
<1>2. CASE SyncPeer
  BY <1>1, <1>2 DEF SyncPeer, ReadsNow
<1>3. CASE EndChanged
  BY <1>3 DEF EndChanged, End, At, Within
<1>4. CASE EndCrashed
  BY <1>4 DEF EndCrashed, End, Before, Reads
<1>5. CASE Ended
  BY <1>5 DEF Ended, At, Within, Before, Reads
<1>6. CASE Begin
  BY <1>6 DEF Begin, Free, At, Within
<1>7. CASE TakePort \/ PartReady \/ Spawn
  BY <1>7 DEF TakePort, PartReady, Spawn, At, Within
<1>8. CASE NoPort \/ SetupThrows \/ BootCheck
  <2>1. step \in Setup
    BY <1>8 DEF NoPort, SetupThrows, BootCheck, At, Setup
  <2>2. SetupFails \/ Within
    BY <1>8 DEF NoPort, SetupThrows, BootCheck, At, Within
  <2> QED
    BY <1>1, <2>1, <2>2, FailHandles DEF FollowInv
<1>9. CASE Unchanged \/ NoSegment \/ Resumed
  BY <1>9, UnchangedHandles, NoSegmentHandles, ResumedHandles
<1>10. CASE EndAll \/ (\E i \in Segs : EndedOne(i)) \/ BuildManifest
  <2>1. Head(queue).kind = "stop" \/ step = "stop"
    BY <1>10 DEF EndAll, EndedOne, BuildManifest, Running, At
  <2> QED
    BY <1>1, <2>1
<1> QED
  BY <1>2, <1>3, <1>4, <1>5, <1>6, <1>7, <1>8, <1>9, <1>10 DEF TaskStep, StartStep

LEMMA SyncTask ==
  ASSUME FollowInv, TaskStep, phase' = "live"
  PROVE  SyncInv'
<1> SUFFICES ASSUME NEW q \in Peers, ~Again(q)' PROVE SyncFor(q)'
  BY DEF SyncInv, SyncFor
<1>1. /\ phase = "live" /\ queue # <<>> /\ step # "stop" /\ Head(queue).peer \in Peers
      /\ UNCHANGED <<roomVars, timer>>
      /\ queue' = queue \/ (queue' = Tail(queue) /\ step' = "idle")
  BY LiveTask DEF FollowInv
<1>2. SyncFor(q) /\ \A k : Live(k)' = Live(k)
  BY <1>1, SameRoom DEF FollowInv, SyncInv
<1>3. \A s \in Sources : <<q, s>> \in Keys /\ <<q, s>>[1] = q
  BY DEF Keys
<1>4. queue' = queue => ~Again(q) /\ (Runs(q)' <=> Runs(q))
  BY <1>1 DEF Again, Runs
<1>5. queue' = Tail(queue) /\ ~Runs(q)' => ~Again(q)
  BY <1>1, Popped DEF FollowInv
<1>6. CASE ~Runs(q)
  <2>1. q # Head(queue).peer
    BY <1>1, <1>6 DEF Runs
  <2>2. \A s \in Sources : Same(<<q, s>>)
    BY <1>3, <2>1, OthersAlone DEF K, FollowInv
  <2>3. \A s \in Sources : Synced(<<q, s>>)' <=> Synced(<<q, s>>)
    BY <1>3, <2>2, SameKeeps
  <2>4. CASE Runs(q)'
    <3>1. step' = "idle"
      BY <1>1, <1>4, <1>6, <2>4
    <3> QED
      BY <2>4, <3>1 DEF SyncFor, Reads
  <2>5. CASE ~Runs(q)'
    <3>1. ~Again(q)
      BY <1>1, <1>4, <1>5, <2>5
    <3> QED
      BY <1>2, <1>6, <2>3, <2>5, <3>1 DEF SyncFor
  <2> QED
    BY <2>4, <2>5
<1>7. CASE Runs(q)
  <2>1. q = Head(queue).peer /\ source \in Sources
    BY <1>1, <1>7 DEF Runs, FollowInv, Inv, TypeOK
  <2>2. CASE Before
    BY <1>4, <1>7, <2>2 DEF Before, SyncFor
  <2>3. CASE ReadsNow
    BY <1>2, <1>4, <1>7, <2>1, <2>3 DEF ReadsNow, SyncFor
  <2>4. ASSUME source = "screen", step \notin {"idle", "sync", "drop", "stop"}
        PROVE  Synced(<<q, "camera">>)' <=> Synced(<<q, "camera">>)
    <3>1. <<q, "camera">> \in Keys /\ <<q, "camera">> # K
      BY <1>3, <2>4 DEF K, Sources
    <3>2. Same(<<q, "camera">>)
      BY <2>4, <3>1, OthersAlone DEF FollowInv
    <3> QED
      BY <3>1, <3>2, SameKeeps
  <2>5. CASE Within
    <3>1. /\ step \notin {"idle", "sync", "drop", "stop"}
          /\ UNCHANGED <<queue, source, snap>>
      BY <2>5 DEF Within
    <3> QED
      BY <1>2, <1>4, <1>7, <2>4, <3>1 DEF SyncFor, Reads
  <2>6. CASE Handled
    <3>1. step \notin {"idle", "sync", "drop", "stop"} /\ NextSource
      BY <2>6 DEF Handled
    <3>2. \A t \in Sources : t = source /\ ~Again(q) => Synced(<<q, t>>)'
      <4>1. \A t \in Sources : t = source => <<q, t>> = K
        BY <2>1 DEF K
      <4>2. \A k \in Keys : k = K /\ ~Again(k[1]) => Synced(k)'
        BY <2>6 DEF Handled
      <4> QED
        BY <1>3, <4>1, <4>2
    <3>3. ASSUME source = "camera"
          PROVE  SyncFor(q)'
      <4>1. source' = "screen" /\ step' = "match" /\ UNCHANGED <<queue, snap>>
        BY <3>1, <3>3 DEF NextSource
      <4>2. Synced(<<q, "camera">>)'
        BY <1>4, <3>2, <3>3, <4>1 DEF Sources
      <4> QED
        BY <1>2, <1>4, <1>7, <3>1, <4>1, <4>2 DEF SyncFor, Reads
    <3>4. ASSUME source = "screen"
          PROVE  SyncFor(q)'
      <4>1. queue' = Tail(queue) /\ step' = "idle"
        BY <3>1, <3>4 DEF NextSource, Done
      <4>2. CASE Runs(q)'
        BY <4>1, <4>2 DEF SyncFor, Reads
      <4>3. CASE ~Runs(q)'
        <5>1. ~Again(q)
          BY <1>5, <4>1, <4>3
        <5>2. Synced(<<q, "camera">>)
          BY <1>2, <1>7, <3>1, <3>4, <5>1 DEF SyncFor, Reads
        <5>3. Synced(<<q, "camera">>)' /\ Synced(<<q, "screen">>)'
          BY <2>4, <3>1, <3>2, <3>4, <5>1, <5>2 DEF Sources
        <5> QED
          BY <4>3, <5>3 DEF SyncFor, Sources
      <4> QED
        BY <4>2, <4>3
    <3> QED
      BY <2>1, <3>3, <3>4 DEF Sources
  <2> QED
    BY <2>2, <2>3, <2>5, <2>6, TaskForms
<1> QED
  BY <1>6, <1>7

\* What a task does to the ffmpeg processes it has to know of.
LEMMA TaskDead ==
  ASSUME FollowInv, TaskStep, phase' = "live", NEW k \in Keys, k \notin gaveUp', Dying(k)'
  PROVE  /\ k \notin gaveUp /\ Dying(k)
         /\ step = "idle" => Head(queue) # Task("exit", k)
<1>1. /\ phase = "live" /\ queue # <<>> /\ step # "stop" /\ Head(queue).kind # "stop"
  BY LiveTask DEF FollowInv
<1>2. ASSUME UNCHANGED <<active, ff, gaveUp>>, step # "idle" \/ Head(queue).kind # "exit"
      PROVE  /\ k \notin gaveUp /\ Dying(k)
             /\ step = "idle" => Head(queue) # Task("exit", k)
  BY <1>2 DEF Dying, Task
<1>3. CASE SyncPeer \/ Unchanged \/ Begin \/ Ended \/ TakePort \/ PartReady
  BY <1>2, <1>3 DEF SyncPeer, Unchanged, Begin, Ended, Free, TakePort, PartReady, At, Running
<1>4. ASSUME NEW i \in Keys, End(i, step')
      PROVE  k # i /\ k \notin gaveUp /\ Dying(k)
  <2>1. active' = [active EXCEPT ![i] = 0] /\ UNCHANGED <<ff, gaveUp>>
    BY <1>4 DEF End
  <2>2. k # i
    BY <2>1 DEF Dying, FollowInv, Inv, TypeOK
  <2>3. active'[k] = active[k]
    BY <2>1, <2>2 DEF FollowInv, Inv, TypeOK
  <2> QED
    BY <2>1, <2>2, <2>3 DEF Dying
<1>5. CASE EndChanged
  <2>1. K \in Keys /\ End(K, "close") /\ step = "match"
    BY <1>1, <1>5, TaskFacts DEF EndChanged, At, FollowInv
  <2>2. End(K, step')
    BY <2>1 DEF End
  <2> QED
    BY <1>4, <2>1, <2>2
<1>6. CASE EndCrashed
  <2> DEFINE i == <<Head(queue).peer, Head(queue).source>>
  <2>1. i \in Keys /\ (Head(queue) = Task("exit", k) => k = i)
    <3>1. i \in Keys
      BY <1>1, HeadFacts DEF FollowInv, Inv, Tasks, Keys
    <3>2. Head(queue) = Task("exit", k) => i = <<k[1], k[2]>>
      BY DEF Task
    <3> QED
      BY <3>1, <3>2 DEF Keys
  <2>2. CASE active[i] # 0
    <3>1. End(i, "drop")
      BY <1>6, <2>2 DEF EndCrashed
    <3>2. End(i, step')
      BY <3>1 DEF End
    <3> QED
      BY <1>4, <2>1, <3>2
  <2>3. CASE active[i] = 0
    <3>1. UNCHANGED <<active, ff, gaveUp>>
      BY <1>6, <2>3 DEF EndCrashed
    <3>2. k # i
      BY <2>3, <3>1 DEF Dying
    <3> QED
      BY <2>1, <3>1, <3>2 DEF Dying
  <2> QED
    BY <2>2, <2>3
<1>7. CASE Spawn
  <2>1. step \in Setup /\ ff' = [ff EXCEPT ![cur] = "on"] /\ UNCHANGED <<active, gaveUp>>
    BY <1>7 DEF Spawn, At, Setup
  <2>2. active[k] # cur /\ active[k] \in 0..NumSegs
    BY <1>1, <2>1, SetupFacts DEF FollowInv, Inv, TypeOK
  <2>3. active[k] # 0 => ff'[active[k]] = ff[active[k]]
    BY <2>1, <2>2 DEF FollowInv, Inv, TypeOK, Segs
  <2> QED
    BY <2>1, <2>3 DEF Dying, Setup
<1>8. CASE SetupFails /\ step \in Setup
  <2>1. UNCHANGED <<active, ff>> /\ gaveUp' = gaveUp \cup {K}
    BY <1>8 DEF SetupFails
  <2> QED
    BY <1>8, <2>1 DEF Dying, Setup
<1>9. CASE NoPort \/ SetupThrows \/ BootCheck
  <2>1. step \in Setup
    BY <1>9 DEF NoPort, SetupThrows, BootCheck, At, Setup
  <2>2. SetupFails \/ UNCHANGED <<active, ff, gaveUp>>
    BY <1>9 DEF NoPort, SetupThrows, BootCheck
  <2> QED
    BY <1>2, <1>8, <2>1, <2>2 DEF Setup
<1>10. CASE NoSegment
  <2>1. /\ step \in {"match", "open"} /\ active[K] = 0 /\ UNCHANGED <<active, ff>>
        /\ gaveUp' \in {gaveUp \ {K}, gaveUp \cup {K}}
    BY <1>10 DEF NoSegment, Free, At, FollowInv, Inv, SegInv
  <2> QED
    BY <2>1 DEF Dying
<1>11. CASE Resumed
  <2>1. /\ step \in Setup /\ active' = [active EXCEPT ![K] = cur] /\ UNCHANGED ff
        /\ gaveUp' = IF ff[cur] = "on" THEN gaveUp \ {K} ELSE gaveUp \cup {K}
    BY <1>11 DEF Resumed, At, Setup
  <2>2. \A i \in Keys : active'[i] = IF i = K THEN cur ELSE active[i]
    BY <2>1 DEF FollowInv, Inv, TypeOK
  <2>3. k # K
    BY <2>1, <2>2 DEF Dying
  <2> QED
    BY <2>1, <2>2, <2>3 DEF Dying, Setup
<1>12. CASE EndAll \/ (\E i \in Segs : EndedOne(i)) \/ BuildManifest
  <2>1. Head(queue).kind = "stop" \/ step = "stop"
    BY <1>12 DEF EndAll, EndedOne, BuildManifest, Running, At
  <2> QED
    BY <1>1, <2>1
<1> QED
  BY <1>3, <1>5, <1>6, <1>7, <1>9, <1>10, <1>11, <1>12 DEF TaskStep, StartStep

LEMMA DeadTask ==
  ASSUME FollowInv, TaskStep
  PROVE  DeadInv'
<1> SUFFICES ASSUME phase' = "live", NEW k \in Keys, k \notin gaveUp', Dying(k)'
             PROVE  \E n \in 1..Len(queue') :
                       queue'[n] = Task("exit", k) /\ (n = 1 => step' = "idle")
  BY DEF DeadInv
<1>1. /\ phase = "live" /\ queue # <<>> /\ timer' = timer
      /\ queue' = queue \/ (queue' = Tail(queue) /\ step' = "idle")
  BY LiveTask DEF FollowInv
<1>2. k \notin gaveUp /\ Dying(k) /\ (step = "idle" => Head(queue) # Task("exit", k))
  BY TaskDead
<1>3. PICK n \in 1..Len(queue) : queue[n] = Task("exit", k) /\ (n = 1 => step = "idle")
  BY <1>1, <1>2 DEF FollowInv, DeadInv
<1>4. n # 1 /\ n \in 2..Len(queue)
  BY <1>1, <1>2, <1>3, HeadFacts DEF FollowInv, Inv
<1>5. CASE queue' = queue
  BY <1>3, <1>4, <1>5
<1>6. CASE queue' = Tail(queue) /\ step' = "idle"
  BY <1>1, <1>3, <1>4, <1>6, Popped DEF FollowInv
<1> QED
  BY <1>1, <1>5, <1>6

LEMMA FreshTask ==
  ASSUME FollowInv, TaskStep
  PROVE  FreshInv'
<1>1. phase' # "none"
  <2>1. phase' \in {phase, "ended"} /\ queue # <<>>
    BY DEF TaskStep, StartStep, SyncPeer, Unchanged, EndChanged, EndCrashed, Ended, NoSegment,
           Begin, TakePort, NoPort, PartReady, Spawn, SetupThrows, BootCheck, Resumed, EndAll,
           EndedOne, BuildManifest, At, Free, End, SetupFails
  <2> QED
    BY <2>1, HeadFacts DEF FollowInv, Inv
<1>2. ASSUME step' \in Setup
      PROVE  tracks'[cur'] = snap'[source']
  <2>1. CASE Begin
    <3>1. /\ tracks' = [tracks EXCEPT ![count + 1] = snap[source]] /\ cur' = count + 1
          /\ UNCHANGED <<snap, source>> /\ count + 1 \in Segs
      BY <2>1, BoundsAssumption DEF Begin, FollowInv, Inv, TypeOK, Segs
    <3> QED
      BY <3>1 DEF FollowInv, Inv, TypeOK
  <2>2. CASE UNCHANGED <<tracks, cur, snap, source>> /\ step \in Setup
    BY <2>2 DEF FollowInv, FreshInv
  <2>3. CASE NextSource
    <3>1. step' \in {"match", "idle"}
      BY <2>3 DEF NextSource, Done
    <3> QED
      BY <1>2, <3>1 DEF Setup
  <2>4. CASE TakePort \/ PartReady \/ Spawn \/ BootCheck \/ NoPort \/ SetupThrows
    BY <2>2, <2>3, <2>4 DEF TakePort, PartReady, Spawn, BootCheck, NoPort, SetupThrows, SetupFails,
                            At, Setup
  <2>5. CASE Unchanged \/ NoSegment \/ Resumed
    BY <2>3, <2>5 DEF Unchanged, NoSegment, Resumed
  <2>6. CASE SyncPeer
    <3>1. step' \in {"match", "idle"}
      BY <2>6 DEF SyncPeer, Done
    <3> QED
      BY <1>2, <3>1 DEF Setup
  <2>7. CASE EndChanged \/ EndCrashed \/ Ended \/ EndAll
    <3>1. step' \in {"close", "drop", "sync", "open", "stop"}
      BY <2>7 DEF EndChanged, EndCrashed, End, Ended, EndAll
    <3> QED
      BY <1>2, <3>1 DEF Setup
  <2>8. CASE (\E i \in Segs : EndedOne(i)) \/ BuildManifest
    <3>1. step' \in {"stop", "idle"}
      BY <2>8 DEF EndedOne, BuildManifest, At, Done
    <3> QED
      BY <1>2, <3>1 DEF Setup
  <2> QED
    BY <2>1, <2>4, <2>5, <2>6, <2>7, <2>8 DEF TaskStep, StartStep
<1> QED
  BY <1>1, <1>2 DEF FreshInv

LEMMA FollowInit == Init => FollowInv
<1> SUFFICES ASSUME Init PROVE FollowInv
  OBVIOUS
<1>1. Inv
  BY InvInit
<1>2. FreshInv
  BY DEF Init, FreshInv, Setup
<1>3. DeadInv /\ SyncInv
  BY DEF Init, DeadInv, SyncInv
<1> QED
  BY <1>1, <1>2, <1>3 DEF FollowInv

LEMMA FollowNext == FollowInv /\ [Next]_vars => FollowInv'
<1> SUFFICES ASSUME FollowInv, [Next]_vars PROVE FollowInv'
  OBVIOUS
<1>1. Inv'
  BY InvNext DEF FollowInv
<1>2. CASE UNCHANGED vars
  <2>1. FreshInv' /\ DeadInv'
    BY <1>2 DEF FollowInv, FreshInv, DeadInv, Dying, vars
  <2>2. SyncInv'
    <3>1. \A k \in Keys : Same(k)
      BY <1>2, SameRoom DEF Same, vars
    <3> QED
      BY <1>2, <3>1, SyncSame DEF vars
  <2> QED
    BY <1>1, <2>1, <2>2 DEF FollowInv
<1>3. CASE TaskStep
  <2>1. phase' # "live" => SyncInv'
    BY DEF SyncInv
  <2> QED
    BY <1>1, <1>3, <2>1, FreshTask, DeadTask, SyncTask DEF FollowInv
<1>4. CASE \E q \in Peers :
             Join(q) \/ CloseTransport(q) \/ Leave(q) \/ TimerFires(q) \/ LeaveChecked(q)
  BY <1>1, <1>4, FollowProducers, FollowLeave, FollowStop DEF FollowInv
<1>5. CASE \E p \in Producers : Produce(p)
  BY <1>1, <1>5, FollowProducers DEF FollowInv
<1>6. CASE StartRecording \/ StopRequested
  BY <1>1, <1>6, FollowStart, FollowStop DEF FollowInv
<1>7. CASE \E i \in Segs : FfStops(i) \/ FfDies(i)
  BY <1>1, <1>7, FollowFf DEF FollowInv
<1> QED
  BY <1>2, <1>3, <1>4, <1>5, <1>6, <1>7 DEF Next

THEOREM FollowAlways == Spec => []FollowInv
  BY FollowInit, FollowNext, PTL DEF Spec

\* syncPeer, notifyProducersChanged, notifyPeerLeft, onUnexpectedExit: whatever
\* opens, closes, leaves or dies while a task works from an older reading, when no
\* timer and no task is left for a peer, its segments record what it sends.
THEOREM SyncedWhenQuietAlways == Spec => []SyncedWhenQuiet
<1>1. FollowInv => SyncedWhenQuiet
  <2> SUFFICES ASSUME FollowInv, phase = "live", NEW k \in Keys \ gaveUp, Quiet(k[1])
               PROVE  Synced(k)
    BY DEF SyncedWhenQuiet, Synced
  <2>1. k[1] \in Peers /\ k[2] \in Sources /\ k = <<k[1], k[2]>>
    BY DEF Keys
  <2>2. ~Again(k[1])
    <3>1. \A n \in 2..Len(queue) : n \in 1..Len(queue)
      BY LenProperties DEF FollowInv, Inv, TypeOK
    <3> QED
      BY <3>1 DEF Quiet, Again
  <2>3. ~Runs(k[1])
    <3>1. queue # <<>> => 1 \in 1..Len(queue) /\ Head(queue) = queue[1]
      BY HeadFacts DEF FollowInv, Inv
    <3> QED
      BY <3>1 DEF Quiet, Runs
  <2>4. Synced(<<k[1], k[2]>>)
    BY <2>1, <2>2, <2>3 DEF FollowInv, SyncInv, SyncFor
  <2> QED
    BY <2>1, <2>4
<1> QED
  BY <1>1, FollowAlways, PTL
=============================================================================
