--------------------------- MODULE RecordingPanel ---------------------------
(***************************************************************************)
(* What a meeting is told about its recordings: the rows of                *)
(* recording-service and the events it publishes after it has written      *)
(* them, the relay of signaling-service, and the badge of every browser,   *)
(* which is what the last event, joined message or REST answer made of it. *)
(*                                                                         *)
(* Handlers are cut at their awaits; a request reaches its service at      *)
(* once, its answer may be late.  Failures and the recovery are in         *)
(* RecordingLifecycle and FinalizePipeline, but for those that leave a     *)
(* badge wrong.                                                            *)
(***************************************************************************)
EXTENDS Integers, Sequences

CONSTANTS
    Browsers,
    Host,        \* the one that starts and stops
    NumRecs,     \* bound: recordings begun
    MaxMisses    \* bound: lost connections and lost publications

ASSUME HostAssumption == Host \in Browsers
ASSUME BoundsAssumption == NumRecs \in Nat /\ MaxMisses \in Nat

VARIABLES
    row,       \* status of each recording
    lock,      \* recording:active:<room>: a recording or 0
    count,     \* recordings begun
    capturing, \* those that the SFU captures
    ended,     \* the webhook of each: "none", "due", then what it did last
    job,       \* its finalize job: "none", "queued", then the verdict to be told;
               \* "empty" if there is nothing to convert
    call,      \* the host's request, and its handler
    about,     \* the recording it is about
    channel,   \* recording-events
    room,      \* join-room of each browser: "out", "entered" (gets events), "read", "in"
    held,      \* what it read of the lock
    inbox,     \* what its socket has still to deliver to a browser
    badge,     \* store.recording.state
    badgeOf,   \* store.recording.recordingId, 0 if none
    astray,    \* history: browsers that missed an event, or were told something
               \* that no event will correct
    misses

rowVars == <<row, lock, count, capturing>>
workVars == <<ended, job>>
callVars == <<call, about>>
storeVars == <<badge, badgeOf>>
vars == <<rowVars, workVars, callVars, channel, room, held, inbox, storeVars, astray,
          misses>>

Recs == 1..NumRecs
NotYet == "none"
Status == {NotYet, "STARTING", "RECORDING", "STOPPING", "PROCESSING", "READY", "FAILED"}
Kinds == {"recording", "processing", "ready", "failed"}

\* An event and what its listener makes of it; "recording-failed" sets no id.
Event(k, r) == [k |-> k, r |-> r]
Joined(r) == [k |-> "joined", r |-> r]

TypeOK ==
    /\ row \in [Recs -> Status]
    /\ lock \in 0..NumRecs /\ count \in 0..NumRecs /\ capturing \subseteq Recs
    /\ ended \in [Recs -> {"none", "due", "claimed", "released", "told"}]
    /\ job \in [Recs -> {"none", "empty", "queued", "ready", "failed"}]
    /\ call \in {"none", "capture", "confirm", "tell", "started", "stopping", "stopped"}
    /\ about \in 0..NumRecs
    /\ channel \in Seq([k : Kinds, r : Recs])
    /\ room \in [Browsers -> {"out", "entered", "read", "in"}]
    /\ held \in [Browsers -> 0..NumRecs]
    /\ inbox \in [Browsers -> Seq([k : Kinds \cup {"joined"}, r : Recs])]
    /\ badge \in [Browsers -> Kinds \cup {"idle"}]
    /\ badgeOf \in [Browsers -> 0..NumRecs]
    /\ astray \subseteq Browsers /\ misses \in 0..MaxMisses

Init ==
    /\ row = [r \in Recs |-> NotYet] /\ lock = 0 /\ count = 0 /\ capturing = {}
    /\ ended = [r \in Recs |-> "none"] /\ job = [r \in Recs |-> "none"]
    /\ call = "none" /\ about = 0
    /\ channel = <<>>
    /\ room = [b \in Browsers |-> "out"] /\ held = [b \in Browsers |-> 0]
    /\ inbox = [b \in Browsers |-> <<>>]
    /\ badge = [b \in Browsers |-> "idle"] /\ badgeOf = [b \in Browsers |-> 0]
    /\ astray = {} /\ misses = 0

-----------------------------------------------------------------------------
(* What is still to be heard of a recording *)

About(q, r) == \E n \in 1..Len(q) : q[n].r = r /\ q[n].k # "joined"

\* No handler and no job has an end of r to publish any more.
Told(r) ==
    /\ ~(call = "capture" /\ about = r)
    /\ r \notin capturing /\ ended[r] = "none" /\ job[r] = "none"

\* b will hear nothing of r any more.
Last(b, r) == Told(r) /\ ~About(channel, r) /\ ~About(inbox[b], r)

-----------------------------------------------------------------------------
(* The browser's store *)

\* setRecording: the last one counts, whichever recording it is about.
SetRecording(b, k, r) ==
    /\ badge' = [badge EXCEPT ![b] = k]
    /\ badgeOf' = [badgeOf EXCEPT ![b] = r]

\* The listeners of the session.
Hear(b) ==
    /\ inbox[b] # <<>>
    /\ inbox' = [inbox EXCEPT ![b] = Tail(@)]
    /\ LET e == Head(inbox[b])
           k == IF e.k = "joined" THEN "recording" ELSE e.k
       IN SetRecording(b, k, IF e.k = "failed" THEN 0 ELSE e.r)
    /\ UNCHANGED <<rowVars, workVars, callVars, channel, room, held, astray, misses>>

-----------------------------------------------------------------------------
(* join-room, and the connection *)

Enter(b) ==
    /\ room[b] = "out"
    /\ room' = [room EXCEPT ![b] = "entered"]
    /\ UNCHANGED <<rowVars, workVars, callVars, channel, held, inbox, storeVars, astray,
                   misses>>

ReadLock(b) ==
    /\ room[b] = "entered"
    /\ room' = [room EXCEPT ![b] = "read"]
    /\ held' = [held EXCEPT ![b] = lock]
    /\ UNCHANGED <<rowVars, workVars, callVars, channel, inbox, storeVars, astray,
                   misses>>

\* What was read of the lock may be over by now, and its events sent before.  joined
\* without a recording does nothing to the badge.
SendJoined(b) ==
    /\ room[b] = "read"
    /\ room' = [room EXCEPT ![b] = "in"]
    /\ held' = [held EXCEPT ![b] = 0]
    /\ inbox' = IF held[b] = 0 THEN inbox
                ELSE [inbox EXCEPT ![b] = Append(@, Joined(held[b]))]
    /\ astray' = IF held[b] # 0 /\ Told(held[b]) /\ ~About(channel, held[b])
                 THEN astray \cup {b} ELSE astray
    /\ UNCHANGED <<rowVars, workVars, callVars, channel, storeVars, misses>>

\* What is on the way is lost; the store keeps the badge.
Drop(b) ==
    /\ misses < MaxMisses /\ misses' = misses + 1
    /\ room[b] # "out"
    /\ room' = [room EXCEPT ![b] = "out"]
    /\ held' = [held EXCEPT ![b] = 0]
    /\ inbox' = [inbox EXCEPT ![b] = <<>>]
    /\ astray' = IF \E r \in Recs : About(inbox[b], r) THEN astray \cup {b} ELSE astray
    /\ UNCHANGED <<rowVars, workVars, callVars, channel, storeVars>>

\* Mutant: the socket enters the room only when it is told "joined".
RelayToJoined ==
    /\ channel # <<>>
    /\ channel' = Tail(channel)
    /\ inbox' = [b \in Browsers |->
                   IF room[b] # "in" THEN inbox[b] ELSE Append(inbox[b], Head(channel))]
    /\ astray' = astray \cup
                   {b \in Browsers : room[b] = "out" /\ badgeOf[b] = Head(channel).r}
    /\ UNCHANGED <<rowVars, workVars, callVars, room, held, storeVars, misses>>

\* createMessageHandler.
Relay ==
    /\ channel # <<>>
    /\ channel' = Tail(channel)
    /\ inbox' = [b \in Browsers |->
                   IF room[b] = "out" THEN inbox[b] ELSE Append(inbox[b], Head(channel))]
    /\ astray' = astray \cup
                   {b \in Browsers : room[b] = "out" /\ badgeOf[b] = Head(channel).r}
    /\ UNCHANGED <<rowVars, workVars, callVars, room, held, storeVars, misses>>

\* publishRecordingEvent: a failure is only logged.
Publish(k, r) ==
    \/ channel' = Append(channel, Event(k, r)) /\ UNCHANGED <<astray, misses>>
    \/ /\ misses < MaxMisses /\ misses' = misses + 1
       /\ astray' = Browsers
       /\ UNCHANGED channel

-----------------------------------------------------------------------------
(* The host starts *)

Goto(step) == call' = step /\ UNCHANGED about

\* startRecording up to the call of the SFU.  With the lock taken it answers 409, which
\* changes nothing here.
Acquire ==
    /\ call = "none" /\ badge[Host] # "recording"
    /\ count < NumRecs /\ lock = 0
    /\ count' = count + 1
    /\ lock' = count'
    /\ row' = [row EXCEPT ![count'] = "STARTING"]
    /\ about' = count' /\ call' = "capture"
    /\ UNCHANGED <<capturing, workVars, channel, room, held, inbox, storeVars, astray, misses>>

CaptureStarts ==
    /\ call = "capture"
    /\ capturing' = capturing \cup {about}
    /\ Goto("confirm")
    /\ UNCHANGED <<row, lock, count, workVars, channel, room, held, inbox, storeVars, astray,
                   misses>>

\* No event is published, and the lock may have been read.
CaptureFails ==
    /\ call = "capture"
    /\ lock' = 0
    /\ row' = [row EXCEPT ![about] = "FAILED"]
    /\ astray' = astray \cup {b \in Browsers : \/ badgeOf[b] = about
                                               \/ Joined(about) \in {inbox[b][n] : n \in 1..Len(inbox[b])}}
    /\ Goto("none")
    /\ UNCHANGED <<count, capturing, workVars, channel, room, held, inbox, storeVars,
                   misses>>

\* By id, whatever the status has become.
Confirm ==
    /\ call = "confirm"
    /\ row' = [row EXCEPT ![about] = "RECORDING"]
    /\ Goto("tell")
    /\ UNCHANGED <<lock, count, capturing, workVars, channel, room, held, inbox, storeVars, astray,
                   misses>>

\* Its end may have been published before.
TellStarted ==
    /\ call = "tell"
    /\ IF Told(about)
       THEN /\ channel' = Append(channel, Event("recording", about))
            /\ astray' = Browsers
            /\ UNCHANGED misses
       ELSE Publish("recording", about)
    /\ Goto("started")
    /\ UNCHANGED <<rowVars, workVars, room, held, inbox, storeVars>>

\* run: the answer.
Answered(k) ==
    /\ SetRecording(Host, k, about)
    /\ Goto("none")
    /\ astray' = IF Last(Host, about) THEN astray \cup {Host} ELSE astray
    /\ UNCHANGED <<rowVars, workVars, channel, room, held, inbox, misses>>

StartAnswered == call = "started" /\ Answered("recording")

-----------------------------------------------------------------------------
(* A recording is stopped, or its room empties *)

\* The row must be RECORDING; else 409.
RequestStop ==
    /\ call = "none" /\ badge[Host] = "recording"
    /\ about' = badgeOf[Host] /\ row[about'] = "RECORDING"
    /\ row' = [row EXCEPT ![about'] = "STOPPING"]
    /\ call' = "stopping"
    /\ UNCHANGED <<lock, count, capturing, workVars, channel, room, held, inbox, storeVars, astray,
                   misses>>

\* The SFU's stopRecording: it sends the webhook once.
SfuStop(R) ==
    /\ capturing' = capturing \ R
    /\ ended' = [r \in Recs |-> IF r \in R \cap capturing THEN "due" ELSE ended[r]]

SfuStopped ==
    /\ call = "stopping"
    /\ SfuStop({about})
    /\ Goto("stopped")
    /\ UNCHANGED <<row, lock, count, job, channel, room, held, inbox, storeVars, astray,
                   misses>>

StopAnswered == call = "stopped" /\ Answered("processing")

\* requestStop by the job of the maximum duration or the disk emergency.
AutoStop(r) ==
    /\ row[r] = "RECORDING"
    /\ row' = [row EXCEPT ![r] = "STOPPING"]
    /\ SfuStop({r})
    /\ UNCHANGED <<lock, count, job, callVars, channel, room, held, inbox, storeVars, astray,
                   misses>>

RoomEmpties ==
    /\ capturing # {}
    /\ SfuStop(capturing)
    /\ UNCHANGED <<row, lock, count, job, callVars, channel, room, held, inbox, storeVars, astray,
                   misses>>

-----------------------------------------------------------------------------
(* The webhook and the finalize job *)

\* Mutant: the job is queued before the event is published.
ClaimAndEnqueue(r) ==
    /\ ended[r] = "due"
    /\ row' = [row EXCEPT ![r] = "PROCESSING"]
    /\ job' = [job EXCEPT ![r] = "queued"]
    /\ ended' = [ended EXCEPT ![r] = "claimed"]
    /\ UNCHANGED <<lock, count, capturing, callVars, channel, room, held, inbox, storeVars,
                   astray, misses>>

\* The row is STARTING, RECORDING or STOPPING: the webhook of r is served once here.
Claim(r) ==
    /\ ended[r] = "due"
    /\ \E hasSegments \in BOOLEAN :
         /\ row' = [row EXCEPT ![r] = IF hasSegments THEN "PROCESSING" ELSE "FAILED"]
         /\ job' = [job EXCEPT ![r] = IF hasSegments THEN "none" ELSE "empty"]
    /\ ended' = [ended EXCEPT ![r] = "claimed"]
    /\ UNCHANGED <<lock, count, capturing, callVars, channel, room, held, inbox, storeVars, astray,
                   misses>>

ReleaseLock(r) ==
    /\ ended[r] = "claimed"
    /\ lock' = IF lock = r THEN 0 ELSE lock
    /\ ended' = [ended EXCEPT ![r] = "released"]
    /\ UNCHANGED <<row, count, capturing, job, callVars, channel, room, held, inbox, storeVars, astray,
                   misses>>

TellStopped(r) ==
    /\ ended[r] = "released"
    /\ Publish("processing", r)
    /\ ended' = [ended EXCEPT ![r] = "told"]
    /\ UNCHANGED <<rowVars, job, callVars, room, held, inbox, storeVars>>

TellEmpty(r) ==
    /\ ended[r] = "told" /\ job[r] = "empty"
    /\ Publish("failed", r)
    /\ ended' = [ended EXCEPT ![r] = "none"] /\ job' = [job EXCEPT ![r] = "none"]
    /\ UNCHANGED <<rowVars, callVars, room, held, inbox, storeVars>>

Enqueue(r) ==
    /\ ended[r] = "told" /\ job[r] = "none"
    /\ ended' = [ended EXCEPT ![r] = "none"] /\ job' = [job EXCEPT ![r] = "queued"]
    /\ UNCHANGED <<rowVars, callVars, channel, room, held, inbox, storeVars, astray,
                   misses>>

\* finalizeRecording STEP 5, or markRecordingFailed: always so for a row that Confirm
\* has taken out of PROCESSING.
Finalize(r) ==
    /\ job[r] = "queued"
    /\ \/ /\ row[r] = "PROCESSING"
          /\ row' = [row EXCEPT ![r] = "READY"] /\ job' = [job EXCEPT ![r] = "ready"]
       \/ row' = [row EXCEPT ![r] = "FAILED"] /\ job' = [job EXCEPT ![r] = "failed"]
    /\ UNCHANGED <<lock, count, capturing, ended, callVars, channel, room, held, inbox,
                   storeVars, astray, misses>>

TellVerdict(r) ==
    /\ job[r] \in {"ready", "failed"}
    /\ Publish(job[r], r)
    /\ job' = [job EXCEPT ![r] = "none"]
    /\ UNCHANGED <<rowVars, ended, callVars, room, held, inbox, storeVars>>

-----------------------------------------------------------------------------
HostStep ==
    Acquire \/ CaptureStarts \/ CaptureFails \/ Confirm \/ TellStarted \/ StartAnswered
        \/ RequestStop \/ SfuStopped \/ StopAnswered

EndStep(r) ==
    Claim(r) \/ ReleaseLock(r) \/ TellStopped(r) \/ TellEmpty(r) \/ Enqueue(r) \/ Finalize(r)
        \/ TellVerdict(r)

Next ==
    \/ HostStep
    \/ \E r \in Recs : AutoStop(r) \/ EndStep(r)
    \/ RoomEmpties
    \/ \E b \in Browsers : Enter(b) \/ ReadLock(b) \/ SendJoined(b) \/ Drop(b) \/ Hear(b)
    \/ Relay

Spec == Init /\ [][Next]_vars

-----------------------------------------------------------------------------
(* A badge that will hear nothing more of its recording shows its verdict   *)
(* (recording-failed leaves no recording), unless the browser was offline,  *)
(* an event was not published, or it was told of the recording after its    *)
(* end: by a joined message or an answer that came late, by a start that    *)
(* failed after the lock was read, by a recording-started published last.   *)
NoBadgeSticks ==
    \A b \in Browsers \ astray :
        badgeOf[b] # 0 /\ Last(b, badgeOf[b]) => badge[b] = "ready"

(* With the same exceptions, a recording shown as ready is not shown as     *)
(* running or processing again, although webhook and worker are two         *)
(* processes that publish on one channel.                                   *)
VerdictIsLast ==
    [][\A b \in Browsers \ astray' :
           badge[b] = "ready" /\ badgeOf'[b] = badgeOf[b] => badge'[b] = "ready"]_vars

=============================================================================
