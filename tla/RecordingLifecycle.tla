------------------------- MODULE RecordingLifecycle -------------------------
(***************************************************************************)
(* The life of the recordings of ONE room: the recording-service rows and  *)
(* Redis lock, the SFU capture they drive, and the three parties that may  *)
(* move a row on: the HTTP handlers, the SFU's capture-ended webhook, and  *)
(* the periodic recovery.  Lock and capture are keyed by room and no       *)
(* handler touches two rooms, so rooms do not interact.                    *)
(*                                                                         *)
(* Every handler is cut at its awaits: pc[k][r] is where handler k of      *)
(* recording r stands, and any other handler may run in between.           *)
(*   start     startRecording              stop      requestStop           *)
(*   hook      applyCaptureEnded (webhook) recover   recoverCapturing and  *)
(*   lost      markRecordingFailed called            its applyCaptureEnded *)
(*             by recovery                 finalize  onFailed of a job     *)
(***************************************************************************)
EXTENDS Integers

CONSTANTS
    Recs,          \* recording ids (randomUUID of each start request)
    NoRec,         \* the Redis key recording:active:<room> does not exist
    HookTries,     \* tries of the webhook (the code makes 4)
    MaxFaults,     \* bound: crashes and Redis errors of one behaviour
    StallsHappen   \* a handler may outlive the recovery thresholds

ASSUME RecsAssumption == NoRec \notin Recs
ASSUME BoundsAssumption ==
    /\ HookTries \in Nat \ {0}
    /\ MaxFaults \in Nat
    /\ StallsHappen \in BOOLEAN

VARIABLES
    row,       \* Recording.status, "none" before the insert
    segs,      \* RecordingSegment rows exist
    lock,      \* value of the Redis key recording:active:<room>
    pc,        \* step of each handler
    call,      \* the startCapture request: none, sent, ok, err (answer waiting)
    stopReq,   \* stop requests on their way to the SFU
    cap,       \* the SFU's capture: none, live, closing, closed, lost
    media,     \* the capture produced at least one segment
    manifest,  \* manifest.json is on the shared volume
    hook,      \* webhook tries left
    job,       \* BullMQ job finalize-<id>: none, queued, running,
               \* returning (its result is stored), finished
    faults     \* crashes and Redis errors so far

rowVars == <<row, segs>>
sfuVars == <<cap, media, manifest>>
vars == <<row, segs, lock, pc, call, stopReq, cap, media, manifest, hook,
          job, faults>>

Status == {"STARTING", "RECORDING", "STOPPING", "PROCESSING", "READY", "FAILED"}
Terminal == {"READY", "FAILED"}
Claimable == {"STARTING", "RECORDING", "STOPPING"}

Handlers == {"start", "stop", "hook", "recover", "lost", "finalize"}
Steps == {"idle", "create", "call", "confirm", "unlock", "del", "fail", "done",
          "wait", "reset", "queue", "ask", "askStopping", "read", "apply", "mark"}
Senders == {"stop", "recover"}

TypeOK ==
    /\ row \in [Recs -> Status \cup {"none"}]
    /\ segs \in [Recs -> BOOLEAN]
    /\ lock \in Recs \cup {NoRec}
    /\ pc \in [Handlers -> [Recs -> Steps]]
    /\ call \in [Recs -> {"none", "sent", "ok", "err"}]
    /\ stopReq \subseteq Recs \X Senders
    /\ cap \in [Recs -> {"none", "live", "closing", "closed", "lost"}]
    /\ media \in [Recs -> BOOLEAN]
    /\ manifest \in [Recs -> BOOLEAN]
    /\ hook \in [Recs -> 0..HookTries]
    /\ job \in [Recs -> {"none", "queued", "running", "returning", "finished"}]
    /\ faults \in 0..MaxFaults

Init ==
    /\ row = [r \in Recs |-> "none"]
    /\ segs = [r \in Recs |-> FALSE]
    /\ lock = NoRec
    /\ pc = [k \in Handlers |-> [r \in Recs |-> "idle"]]
    /\ call = [r \in Recs |-> "none"]
    /\ stopReq = {}
    /\ cap = [r \in Recs |-> "none"]
    /\ media = [r \in Recs |-> FALSE]
    /\ manifest = [r \in Recs |-> FALSE]
    /\ hook = [r \in Recs |-> 0]
    /\ job = [r \in Recs |-> "none"]
    /\ faults = 0

-----------------------------------------------------------------------------
(* Helpers *)

Goto(k, r, step) == pc' = [pc EXCEPT ![k][r] = step]
At(k, r, step) == pc[k][r] = step

SetRow(r, status) == row' = [row EXCEPT ![r] = status]

Fault == faults < MaxFaults /\ faults' = faults + 1

\* Every handler that works on r has answered, and no stop is on its way.
\* Unless a handler stalls this is so long before the recovery thresholds
\* (STALE_STARTING_SECONDS and CAPTURE_GRACE_SECONDS 120 s against SFU calls
\* of 5 s and a segment stop of 10 s) and before the lock's 4 hours.
Settled(r) ==
    /\ pc["start"][r] \in {"idle", "done"}
    /\ \A k \in {"stop", "hook", "lost", "finalize"} : At(k, r, "idle")
    /\ \A s \in Senders : <<r, s>> \notin stopReq

ThresholdPassed(r) == StallsHappen \/ Settled(r)

\* The step after releaseLock in each handler that calls it.
AfterRelease(k) ==
    CASE k = "start" -> "fail"
      [] k \in {"hook", "recover"} -> "queue"
      [] OTHER -> "idle"

-----------------------------------------------------------------------------
(* POST /recordings/start *)

\* The room is active, the caller is its host and there is disk space.  A held
\* lock is a 409 that changes nothing.
StartAcquire(r) ==
    /\ At("start", r, "idle")
    /\ lock = NoRec
    /\ lock' = r
    /\ Goto("start", r, "create")
    /\ UNCHANGED <<rowVars, call, stopReq, sfuVars, hook, job, faults>>

StartCreate(r) ==
    /\ At("start", r, "create")
    /\ SetRow(r, "STARTING")
    /\ call' = [call EXCEPT ![r] = "sent"]
    /\ Goto("start", r, "call")
    /\ UNCHANGED <<segs, lock, stopReq, sfuVars, hook, job, faults>>

\* The insert throws: the error path, with no row to mark.
StartCreateThrows(r) ==
    /\ At("start", r, "create")
    /\ Fault
    /\ Goto("start", r, "unlock")
    /\ UNCHANGED <<rowVars, lock, call, stopReq, sfuVars, hook, job>>

StartAccepted(r) ==
    /\ At("start", r, "call")
    /\ call[r] = "ok"
    /\ call' = [call EXCEPT ![r] = "none"]
    /\ Goto("start", r, "confirm")
    /\ UNCHANGED <<rowVars, lock, stopReq, sfuVars, hook, job, faults>>

\* Mutant: the refusal of the SFU is swallowed.
StartRefusedSwallowed(r) ==
    /\ At("start", r, "call")
    /\ call[r] = "err"
    /\ call' = [call EXCEPT ![r] = "none"]
    /\ Goto("start", r, "confirm")
    /\ UNCHANGED <<rowVars, lock, stopReq, sfuVars, hook, job, faults>>

StartRefused(r) ==
    /\ At("start", r, "call")
    /\ call[r] = "err"
    /\ call' = [call EXCEPT ![r] = "none"]
    /\ Goto("start", r, "unlock")
    /\ UNCHANGED <<rowVars, lock, stopReq, sfuVars, hook, job, faults>>

\* The 5 s timeout, or no connection at all: the handler takes the error path,
\* whatever the SFU did, does, or (delivered) still will do with the request.
StartTimesOut(r) ==
    /\ At("start", r, "call")
    /\ call[r] \in {"sent", "ok"}
    /\ \E delivered \in BOOLEAN :
          call' = [call EXCEPT ![r] =
                      IF @ = "sent" /\ delivered THEN "sent" ELSE "none"]
    /\ Goto("start", r, "unlock")
    /\ UNCHANGED <<rowVars, lock, stopReq, sfuVars, hook, job, faults>>

\* updateMany by id alone: the status it replaces is not looked at.
StartMarkFailed(r) ==
    /\ At("start", r, "fail")
    /\ row' = [row EXCEPT ![r] = IF @ = "none" THEN "none" ELSE "FAILED"]
    /\ Goto("start", r, "done")
    /\ UNCHANGED <<segs, lock, call, stopReq, sfuVars, hook, job, faults>>

\* update by id alone, then recording-started and the auto-stop job.
StartConfirm(r) ==
    /\ At("start", r, "confirm")
    /\ SetRow(r, "RECORDING")
    /\ Goto("start", r, "done")
    /\ UNCHANGED <<segs, lock, call, stopReq, sfuVars, hook, job, faults>>

-----------------------------------------------------------------------------
(* requestStop: the stop endpoint, the auto-stop job, recovery of a recording
   over the limit, and the disk emergency policy.                          *)

\* Bound: one undelivered stop of this sender per recording.
RequestStop(r) ==
    /\ At("stop", r, "idle")
    /\ row[r] = "RECORDING"
    /\ <<r, "stop">> \notin stopReq
    /\ SetRow(r, "STOPPING")
    /\ stopReq' = stopReq \cup {<<r, "stop">>}
    /\ Goto("stop", r, "wait")
    /\ UNCHANGED <<segs, lock, call, sfuVars, hook, job, faults>>

\* The SFU answers after every segment file of what it stopped is closed.
StopReturns(r) ==
    /\ At("stop", r, "wait")
    /\ <<r, "stop">> \notin stopReq
    /\ cap[r] # "closing"
    /\ Goto("stop", r, "idle")
    /\ UNCHANGED <<rowVars, lock, call, stopReq, sfuVars, hook, job, faults>>

\* Timeout, no connection or a dying SFU: the row goes back to RECORDING if it is still
\* STOPPING, even when the SFU has the request or is to get it (delivered).
StopFails(r) ==
    /\ pc["stop"][r] \in {"wait", "reset"}
    /\ row' = [row EXCEPT ![r] = IF @ = "STOPPING" THEN "RECORDING" ELSE @]
    /\ \E delivered \in BOOLEAN :
          stopReq' = IF delivered THEN stopReq ELSE stopReq \ {<<r, "stop">>}
    /\ Goto("stop", r, "idle")
    /\ UNCHANGED <<segs, lock, call, sfuVars, hook, job, faults>>

-----------------------------------------------------------------------------
(* The SFU's recording manager, one capture per room *)

Live == {r \in Recs : cap[r] = "live"}

\* The answer reaches the start handler only if it still waits.
Answer(r, a) == call' = [call EXCEPT ![r] = IF At("start", r, "call") THEN a ELSE "none"]

SfuRegister(r) ==
    /\ call[r] = "sent"
    /\ Live = {}
    /\ cap' = [cap EXCEPT ![r] = "live"]
    /\ Answer(r, "ok")
    /\ UNCHANGED <<rowVars, lock, pc, stopReq, media, manifest, hook, job, faults>>

\* 404, nobody is in the call, or 409, the room is being recorded.
SfuRefuse(r) ==
    /\ call[r] = "sent"
    /\ Answer(r, "err")
    /\ UNCHANGED <<rowVars, lock, pc, stopReq, sfuVars, hook, job, faults>>

\* The request names a recording, but the handler reads only its room.
SfuStop(r, s) ==
    /\ <<r, s>> \in stopReq
    /\ stopReq' = stopReq \ {<<r, s>>}
    /\ cap' = [q \in Recs |-> IF q \in Live THEN "closing" ELSE cap[q]]
    /\ UNCHANGED <<rowVars, lock, pc, call, media, manifest, hook, job, faults>>

\* Nothing of the room is live, for one that is already stopping too: the SFU
\* answers at once, and the row stays STOPPING.
StopFindsNothing(r) ==
    /\ At("stop", r, "wait")
    /\ <<r, "stop">> \in stopReq
    /\ Live = {}
    /\ stopReq' = stopReq \ {<<r, "stop">>}
    /\ Goto("stop", r, "idle")
    /\ UNCHANGED <<rowVars, lock, call, sfuVars, hook, job, faults>>

SfuRoomEmpty(r) ==
    /\ cap[r] = "live"
    /\ cap' = [cap EXCEPT ![r] = "closing"]
    /\ UNCHANGED <<rowVars, lock, pc, call, stopReq, media, manifest, hook, job, faults>>

\* Every segment is closed and the manifest built; writing it may fail, which
\* is only logged, and the webhook is tried either way.
SfuClosed(r) ==
    /\ cap[r] = "closing"
    /\ cap' = [cap EXCEPT ![r] = "closed"]
    /\ \E m, w \in BOOLEAN :
          /\ media' = [media EXCEPT ![r] = m]
          /\ manifest' = [manifest EXCEPT ![r] = w]
    /\ hook' = [hook EXCEPT ![r] = HookTries]
    /\ UNCHANGED <<rowVars, lock, pc, call, stopReq, job, faults>>

\* Captures, webhooks and requests die with the process.  A caller still owed
\* an answer gets a connection error.
SfuCrash ==
    /\ Fault
    /\ pc' = [pc EXCEPT !["stop"] = [r \in Recs |->
                IF At("stop", r, "wait") /\ (<<r, "stop">> \in stopReq \/ cap[r] = "closing")
                THEN "reset" ELSE pc["stop"][r]]]
    /\ cap' = [r \in Recs |-> IF cap[r] \in {"live", "closing"} THEN "lost" ELSE cap[r]]
    /\ hook' = [r \in Recs |-> 0]
    /\ call' = [r \in Recs |->
                  IF call[r] = "sent" /\ At("start", r, "call") THEN "err"
                  ELSE IF call[r] = "sent" THEN "none" ELSE call[r]]
    /\ stopReq' = {}
    /\ UNCHANGED <<rowVars, lock, media, manifest, job>>

-----------------------------------------------------------------------------
(* applyCaptureEnded, called by the webhook and by recovery *)

\* Mutant: the status does not look at the number of segments.
ClaimAlwaysProcessing(r) ==
    /\ row[r] \in Claimable
    /\ SetRow(r, "PROCESSING")
    /\ segs' = [segs EXCEPT ![r] = @ \/ media[r]]

\* The transaction of STEP 1: claim the row and insert the segments.
Claim(r) ==
    /\ row[r] \in Claimable
    /\ SetRow(r, IF media[r] THEN "PROCESSING" ELSE "FAILED")
    /\ segs' = [segs EXCEPT ![r] = @ \/ media[r]]

HookClaim(r) ==
    /\ hook[r] > 0
    /\ At("hook", r, "idle")
    /\ Claim(r)
    /\ Goto("hook", r, "unlock")
    /\ UNCHANGED <<lock, call, stopReq, sfuVars, hook, job, faults>>

\* Nothing to claim: "duplicate", answered with 200.
HookDuplicate(r) ==
    /\ hook[r] > 0
    /\ row[r] \notin Claimable
    /\ hook' = [hook EXCEPT ![r] = 0]
    /\ UNCHANGED <<rowVars, lock, pc, call, stopReq, sfuVars, job, faults>>

\* Mutant: no limit on the tries.
HookFailsUnbounded(r) ==
    /\ cap[r] = "closed"
    /\ hook' = [hook EXCEPT ![r] = @ - 1]
    /\ UNCHANGED <<rowVars, lock, pc, call, stopReq, sfuVars, job, faults>>

\* One try gets no 2xx within its 5 s; the SFU gives up after the last.
HookFails(r) ==
    /\ hook[r] > 0
    /\ hook' = [hook EXCEPT ![r] = @ - 1]
    /\ UNCHANGED <<rowVars, lock, pc, call, stopReq, sfuVars, job, faults>>

\* cancelAutoStop and the events, then the job: BullMQ ignores an id it still
\* keeps, finished jobs included.  The webhook has its 200.
EnqueueFinalize(k, r) ==
    /\ k \in {"hook", "recover"}
    /\ At(k, r, "queue")
    /\ job' = [job EXCEPT ![r] = IF media[r] /\ @ = "none" THEN "queued" ELSE @]
    /\ hook' = [hook EXCEPT ![r] = IF k = "hook" THEN 0 ELSE @]
    /\ Goto(k, r, "idle")
    /\ UNCHANGED <<rowVars, lock, call, stopReq, sfuVars, faults>>

-----------------------------------------------------------------------------
(* releaseLock: a GET, and a DEL when the key held this recording *)

ReleaseGet(k, r) ==
    /\ At(k, r, "unlock")
    /\ Goto(k, r, IF lock = r THEN "del" ELSE AfterRelease(k))
    /\ UNCHANGED <<rowVars, lock, call, stopReq, sfuVars, hook, job, faults>>

ReleaseDel(k, r) ==
    /\ At(k, r, "del")
    /\ lock' = NoRec
    /\ Goto(k, r, AfterRelease(k))
    /\ UNCHANGED <<rowVars, call, stopReq, sfuVars, hook, job, faults>>

\* Redis is unavailable: the exception ends the handler, its row is as it was.
ReleaseThrows(k, r) ==
    /\ pc[k][r] \in {"unlock", "del"}
    /\ Fault
    /\ Goto(k, r, IF k = "start" THEN "done" ELSE "idle")
    /\ UNCHANGED <<rowVars, lock, call, stopReq, sfuVars, hook, job>>

\* EX 14400.
LockExpires ==
    /\ lock \in Recs
    /\ ThresholdPassed(lock)
    /\ lock' = NoRec
    /\ UNCHANGED <<rowVars, pc, call, stopReq, sfuVars, hook, job, faults>>

-----------------------------------------------------------------------------
(* recoverStaleRecordings: one record at a time, under a maintenance lock *)

RecoveryFree == \A r \in Recs, k \in {"recover", "lost"} : At(k, r, "idle")

RecoverStarting(r) ==
    /\ RecoveryFree
    /\ row[r] = "STARTING"
    /\ ThresholdPassed(r)
    /\ Goto("lost", r, "mark")
    /\ UNCHANGED <<rowVars, lock, call, stopReq, sfuVars, hook, job, faults>>

\* A STOPPING row was touched by the stop, so its files are closed by now; a
\* RECORDING row may be old while the room empties at this very moment.
RecoverCapturing(r) ==
    /\ RecoveryFree
    /\ row[r] \in {"RECORDING", "STOPPING"}
    /\ ThresholdPassed(r)
    /\ StallsHappen \/ row[r] = "RECORDING" \/ cap[r] # "closing"
    /\ Goto("recover", r, IF row[r] = "STOPPING" THEN "askStopping" ELSE "ask")
    /\ UNCHANGED <<rowVars, lock, call, stopReq, sfuVars, hook, job, faults>>

RecoverUnreachable(r) ==
    /\ pc["recover"][r] \in {"ask", "askStopping"}
    /\ Goto("recover", r, "idle")
    /\ UNCHANGED <<rowVars, lock, call, stopReq, sfuVars, hook, job, faults>>

\* The SFU still captures r: a row seen STOPPING gets its stop repeated.
RecoverStillLive(r) ==
    /\ pc["recover"][r] \in {"ask", "askStopping"}
    /\ cap[r] = "live"
    /\ stopReq' = IF At("recover", r, "askStopping")
                  THEN stopReq \cup {<<r, "recover">>} ELSE stopReq
    /\ Goto("recover", r, "idle")
    /\ UNCHANGED <<rowVars, lock, call, sfuVars, hook, job, faults>>

RecoverNotLive(r) ==
    /\ pc["recover"][r] \in {"ask", "askStopping"}
    /\ cap[r] # "live"
    /\ Goto("recover", r, "read")
    /\ UNCHANGED <<rowVars, lock, call, stopReq, sfuVars, hook, job, faults>>

\* Mutant: a missing manifest is left for the next round.
RecoverWaitsForManifest(r) ==
    /\ At("recover", r, "read")
    /\ Goto("recover", r, IF manifest[r] THEN "apply" ELSE "idle")
    /\ UNCHANGED <<rowVars, lock, call, stopReq, sfuVars, hook, job, faults>>

RecoverReadManifest(r) ==
    /\ At("recover", r, "read")
    /\ pc' = IF manifest[r]
             THEN [pc EXCEPT !["recover"][r] = "apply"]
             ELSE [pc EXCEPT !["recover"][r] = "idle", !["lost"][r] = "mark"]
    /\ UNCHANGED <<rowVars, lock, call, stopReq, sfuVars, hook, job, faults>>

RecoverClaim(r) ==
    /\ At("recover", r, "apply")
    /\ Claim(r)
    /\ Goto("recover", r, "unlock")
    /\ UNCHANGED <<lock, call, stopReq, sfuVars, hook, job, faults>>

RecoverDuplicate(r) ==
    /\ At("recover", r, "apply")
    /\ row[r] \notin Claimable
    /\ Goto("recover", r, "idle")
    /\ UNCHANGED <<rowVars, lock, call, stopReq, sfuVars, hook, job, faults>>

\* A stale PROCESSING row without a job in flight: queue it again, or give up
\* on it after MAX_PROCESSING_HOURS.
RecoverProcessing(r) ==
    /\ RecoveryFree
    /\ row[r] = "PROCESSING"
    /\ ThresholdPassed(r)
    /\ job[r] \notin {"queued", "running", "returning"}
    /\ \/ job' = [job EXCEPT ![r] = "queued"] /\ UNCHANGED pc
       \/ Goto("lost", r, "mark") /\ UNCHANGED job
    /\ UNCHANGED <<rowVars, lock, call, stopReq, sfuVars, hook, faults>>

-----------------------------------------------------------------------------
(* markRecordingFailed, called by recovery ("lost") and by a failed job *)

\* Mutant: the row is failed, the lock forgotten.
MarkFailedKeepsLock(k, r) ==
    /\ k \in {"lost", "finalize"}
    /\ At(k, r, "mark")
    /\ row' = [row EXCEPT ![r] = IF @ \in Terminal THEN @ ELSE "FAILED"]
    /\ Goto(k, r, "idle")
    /\ UNCHANGED <<segs, lock, call, stopReq, sfuVars, hook, job, faults>>

MarkFailed(k, r) ==
    /\ k \in {"lost", "finalize"}
    /\ At(k, r, "mark")
    /\ IF row[r] \notin Terminal
       THEN SetRow(r, "FAILED") /\ Goto(k, r, "unlock")
       ELSE UNCHANGED row /\ Goto(k, r, "idle")
    /\ UNCHANGED <<segs, lock, call, stopReq, sfuVars, hook, job, faults>>

-----------------------------------------------------------------------------
(* The finalize job, its retries and segments taken together *)

FinalizeBegin(r) ==
    /\ job[r] = "queued"
    /\ row[r] = "PROCESSING"
    /\ segs[r]
    /\ job' = [job EXCEPT ![r] = "running"]
    /\ UNCHANGED <<rowVars, lock, pc, call, stopReq, sfuVars, hook, faults>>

FinalizeAlreadyReady(r) ==
    /\ job[r] = "queued"
    /\ row[r] = "READY"
    /\ job' = [job EXCEPT ![r] = "finished"]
    /\ UNCHANGED <<rowVars, lock, pc, call, stopReq, sfuVars, hook, faults>>

\* UnrecoverableError: the row is neither PROCESSING nor READY, or has no
\* segments; and the end of a run in which no segment could be converted.
FinalizeFails(r) ==
    /\ \/ job[r] = "queued" /\ (row[r] \notin {"PROCESSING", "READY"} \/ ~segs[r])
       \/ job[r] = "running"
    /\ At("finalize", r, "idle")
    /\ job' = [job EXCEPT ![r] = "finished"]
    /\ Goto("finalize", r, "mark")
    /\ UNCHANGED <<rowVars, lock, call, stopReq, sfuVars, hook, faults>>

\* Mutant: the update is by id.
FinalizeReadyById(r) ==
    /\ job[r] = "running"
    /\ SetRow(r, "READY")
    /\ job' = [job EXCEPT ![r] = "returning"]
    /\ UNCHANGED <<segs, lock, pc, call, stopReq, sfuVars, hook, faults>>

FinalizeReady(r) ==
    /\ job[r] = "running"
    /\ row' = [row EXCEPT ![r] = IF @ = "PROCESSING" THEN "READY" ELSE @]
    /\ job' = [job EXCEPT ![r] = "returning"]
    /\ UNCHANGED <<segs, lock, pc, call, stopReq, sfuVars, hook, faults>>

\* The row is written; the event and BullMQ's own record of the result follow.
FinalizeReturns(r) ==
    /\ job[r] = "returning"
    /\ job' = [job EXCEPT ![r] = "finished"]
    /\ UNCHANGED <<rowVars, lock, pc, call, stopReq, sfuVars, hook, faults>>

-----------------------------------------------------------------------------
\* recording-service dies: its handlers stop where they are, requests it sent
\* stay with the SFU, and BullMQ queues a stalled job again.
Crash ==
    /\ Fault
    /\ pc' = [k \in Handlers |-> [r \in Recs |->
                IF k = "start" /\ ~At(k, r, "idle") THEN "done" ELSE "idle"]]
    /\ job' = [r \in Recs |-> IF job[r] \in {"running", "returning"} THEN "queued" ELSE job[r]]
    /\ UNCHANGED <<rowVars, lock, call, stopReq, sfuVars, hook>>

StartStep(r) ==
    \/ StartAcquire(r) \/ StartCreate(r) \/ StartCreateThrows(r)
    \/ StartAccepted(r) \/ StartRefused(r) \/ StartTimesOut(r)
    \/ StartMarkFailed(r) \/ StartConfirm(r)

StopStep(r) ==
    RequestStop(r) \/ StopReturns(r) \/ StopFails(r) \/ StopFindsNothing(r)

SfuStep(r) ==
    \/ SfuRegister(r) \/ SfuRefuse(r) \/ SfuRoomEmpty(r) \/ SfuClosed(r)
    \/ \E s \in Senders : SfuStop(r, s)

HookStep(r) == HookClaim(r) \/ HookDuplicate(r) \/ HookFails(r)

ReleaseStep(r) ==
    \E k \in Handlers : ReleaseGet(k, r) \/ ReleaseDel(k, r) \/ ReleaseThrows(k, r)

RecoverStep(r) ==
    \/ RecoverStarting(r) \/ RecoverCapturing(r) \/ RecoverUnreachable(r)
    \/ RecoverStillLive(r) \/ RecoverNotLive(r) \/ RecoverReadManifest(r)
    \/ RecoverClaim(r) \/ RecoverDuplicate(r) \/ RecoverProcessing(r)

FinalizeStep(r) ==
    \/ FinalizeBegin(r) \/ FinalizeAlreadyReady(r) \/ FinalizeFails(r)
    \/ FinalizeReady(r) \/ FinalizeReturns(r)

TailStep(r) ==
    \E k \in Handlers : EnqueueFinalize(k, r) \/ MarkFailed(k, r)

Next ==
    \/ \E r \in Recs :
          \/ StartStep(r) \/ StopStep(r) \/ SfuStep(r) \/ HookStep(r)
          \/ ReleaseStep(r) \/ RecoverStep(r) \/ FinalizeStep(r) \/ TailStep(r)
    \/ LockExpires
    \/ SfuCrash
    \/ Crash

Spec == Init /\ [][Next]_vars

\* Started handlers run on; the SFU serves what reaches it and does not stay
\* out of reach forever; timers keep firing: auto-stop or recovery stops a
\* recording at its limit, BullMQ runs jobs, and the 5-minute rescan finds an old
\* row unless somebody stops it anew, in vain, every two minutes forever.
\* Nobody is obliged to start a recording, leave a room, crash or time out.
Fairness ==
    \A r \in Recs :
        /\ WF_vars(StartCreate(r) \/ StartAccepted(r) \/ StartRefused(r)
                    \/ StartMarkFailed(r) \/ StartConfirm(r))
        /\ WF_vars(RequestStop(r))
        /\ WF_vars(StopReturns(r) \/ StopFails(r))
        /\ WF_vars(SfuRegister(r) \/ SfuRefuse(r))
        /\ \A s \in Senders : SF_vars(SfuStop(r, s))
        /\ WF_vars(SfuClosed(r))
        /\ WF_vars(HookStep(r))
        /\ WF_vars(\E k \in Handlers : ReleaseGet(k, r) \/ ReleaseDel(k, r))
        /\ WF_vars(TailStep(r))
        /\ WF_vars(RecoverStarting(r))
        /\ SF_vars(RecoverCapturing(r))
        /\ SF_vars(RecoverStillLive(r) \/ RecoverNotLive(r))
        /\ WF_vars(RecoverReadManifest(r) \/ RecoverClaim(r) \/ RecoverDuplicate(r))
        /\ WF_vars(RecoverProcessing(r))
        /\ WF_vars(FinalizeStep(r))

FairSpec == Spec /\ Fairness

-----------------------------------------------------------------------------
(* Properties *)

\* What is offered for download was captured: a row reaches PROCESSING and
\* READY only with segment rows, and segment rows only come from a capture of
\* this very recording that has closed its files and had media.
ReadyIsBacked ==
    \A r \in Recs :
        /\ row[r] \in {"PROCESSING", "READY"} => segs[r]
        /\ segs[r] => cap[r] = "closed" /\ media[r]

\* The host is told RECORDING only after the SFU accepted the capture of this
\* recording: neither a refusal nor the capture of an earlier recording of the
\* room is ever taken for it.
ConfirmedWasCaptured ==
    \A r \in Recs :
        row[r] \in {"RECORDING", "STOPPING", "PROCESSING", "READY"} => cap[r] # "none"

\* A handler about to release r's lock.
Releasing(r) == \E k \in Handlers : pc[k][r] \in {"unlock", "del"}

\* As long as nothing crashed, the room is locked only for a recording that is
\* starting, may still capture, or is being unlocked: on no interleaving of
\* start, webhook, recovery and finalization does the last one forget the lock.
NoLeakedLock ==
    faults = 0 =>
        \A r \in Recs :
            lock = r =>
                \/ pc["start"][r] \in {"create", "call", "confirm"}
                \/ row[r] \in Claimable
                \/ Releasing(r)

\* Whatever handlers, SFU, webhook, recovery and jobs do in whatever order, the
\* host is told what RecordingPromise allows: a row is only moved on by what
\* really happened to its capture, and a verdict stands, but for one late end of
\* the start request.
StartView(step) ==
    CASE step \in {"idle", "create"} -> "new"
      [] step = "call" -> "asked"
      [] step = "confirm" -> "accepted"
      [] step \in {"unlock", "del", "fail"} -> "refused"
      [] OTHER -> "over"

CaptureView(c, m) ==
    CASE c = "none" -> "none"
      [] c \in {"live", "closing"} -> "running"
      [] c = "closed" /\ m -> "kept"
      [] OTHER -> "nothing"

Promise == INSTANCE RecordingPromise WITH
    status <- row,
    start <- [r \in Recs |-> StartView(pc["start"][r])],
    capture <- [r \in Recs |-> CaptureView(cap[r], media[r])],
    footage <- segs

PromiseIsKept == Promise!Spec

\* "Every state has a way out": each recording ends READY or FAILED.
NeverStuck ==
    \A r \in Recs : []<>(row[r] \in Terminal \cup {"none"})

-----------------------------------------------------------------------------
(* What the documents and comments say and the code does not keep *)

\* The state diagram of MD/Steps 10.6 to 10.11.md:149-160: RECORDING is entered
\* from STARTING (and, recordingLifecycle.ts, from a failed stop) only.
RecordingEnteredFromStarting ==
    [][\A r \in Recs :
          row[r] # "RECORDING" /\ row'[r] = "RECORDING" => row[r] \in {"STARTING", "STOPPING"}]_vars
=============================================================================
