-------------------------- MODULE FinalizePipeline --------------------------
(***************************************************************************)
(* What happens to ONE recording once its row says PROCESSING: the BullMQ  *)
(* job "finalize-<id>" and the workers that run it, the files of its       *)
(* segments on the shared volume, and the four others that touch them: the *)
(* requeue command, the periodic recovery, the cleanup and DELETE.         *)
(*                                                                         *)
(* Every function is cut at its awaits.  A run keeps what it read when it  *)
(* started (known) while the rows and the files change under it; a run      *)
(* whose job lock lapses goes on, next to the run of the worker that takes *)
(* the job over.                                                           *)
(***************************************************************************)
EXTENDS Integers

CONSTANTS
    Workers,      \* finalize workers: one per service instance, one job each
    NoWorker,     \* nobody holds the job's lock
    NumSegs,      \* segments of the recording
    Attempts,     \* attempts of the job (the code makes 3)
    MaxMishaps    \* bound: uses of the requeue command, locks of live runs that
                  \* expire, crashes and rejected updates, all together

ASSUME WorkersAssumption == NoWorker \notin Workers
ASSUME BoundsAssumption ==
    /\ NumSegs \in Nat \ {0}
    /\ Attempts \in Nat \ {0}
    /\ MaxMishaps \in Nat

VARIABLES
    row,       \* Recording.status, "gone" once the row is deleted
    cleaned,   \* Recording.rawCleanedAt is set
    seg,       \* RecordingSegment.status by index
    why,       \* RecordingSegment.error: "none", "source", "tool"
    raw,       \* raw/<stem>.mkv: "good", "bad" (unusable media), "gone"
    temp,      \* final/<stem>.part.mp4: "none", "clean" (one writer since it
               \* was truncated), "torn" (two at a time)
    final,     \* final/<stem>.mp4: "none", "whole", "torn"
    job,       \* BullMQ state of the job; "waiting" includes the backoff
    owner,     \* holder of the job's lock
    made,      \* job.attemptsMade
    stalled,   \* times the job stalled, up to 2 (maxStalledCount is 1)
    pc,        \* step of each worker's run
    at,        \* the run's place in recording.segments
    known,     \* segments that were READY when the run read the row, and those
               \* it saved since (its "ready" is their number)
    again,     \* the run's anyRetryable; how it throws
    fd,        \* where the file ffmpeg writes now has its name
    act,       \* step of the requeue command, recovery, DELETE and cleanup
    target,    \* segments the cleanup is about to touch
    old,       \* MAX_PROCESSING_HOURS have passed since stoppedAt
    purged,    \* rm -r of the recording's directory has begun
    verdicts,  \* recording-ready and recording-failed events published
    requeued,  \* a job was put back by the requeue command or by recovery
    tools, lapses, faults   \* mishaps so far, by kind

rowVars == <<row, cleaned, seg, why>>
fileVars == <<raw, temp, final, purged>>
jobVars == <<job, owner, made, stalled>>
runVars == <<pc, at, known, again, fd>>
envVars == <<old, verdicts, requeued, tools, lapses, faults>>
vars == <<rowVars, fileVars, jobVars, runVars, act, target, envVars>>

Segs == 1..NumSegs
InFlight == {"waiting", "active"}
Runs == {"idle", "load", "loop", "convert", "probe", "spoil", "spoilTool",
         "settle", "return", "throw", "mark"}
Spoils == {"spoil", "spoilTool"}   \* with a SourceMediaError, with any other
Helpers == {"tool", "recover", "delete", "clean"}
Tasks == {"idle", "look", "reset", "job", "remove", "add", "mark", "files",
          "row", "raw", "rm", "tidy"}

TypeOK ==
    /\ row \in {"PROCESSING", "READY", "FAILED", "gone"}
    /\ cleaned \in BOOLEAN
    /\ seg \in [Segs -> {"PENDING", "READY", "FAILED"}]
    /\ why \in [Segs -> {"none", "source", "tool"}]
    /\ raw \in [Segs -> {"good", "bad", "gone"}]
    /\ temp \in [Segs -> {"none", "clean", "torn"}]
    /\ final \in [Segs -> {"none", "whole", "torn"}]
    /\ purged \in BOOLEAN
    /\ job \in {"none", "waiting", "active", "completed", "failed"}
    /\ owner \in Workers \cup {NoWorker}
    /\ made \in 0..Attempts
    /\ stalled \in 0..2
    /\ pc \in [Workers -> Runs]
    /\ at \in [Workers -> 1..(NumSegs + 1)]
    /\ known \in [Workers -> SUBSET Segs]
    /\ again \in [Workers -> BOOLEAN]
    /\ fd \in [Workers -> {"none", "temp", "final", "lost"}]
    /\ act \in [Helpers -> Tasks]
    /\ target \subseteq Segs
    /\ old \in BOOLEAN
    /\ verdicts \in Nat /\ requeued \in BOOLEAN
    /\ tools \in Nat /\ lapses \in Nat /\ faults \in Nat
    /\ tools + lapses + faults <= MaxMishaps

\* After the claim of applyCaptureEnded, with its enqueue done or lost to a
\* crash.
Init ==
    /\ row = "PROCESSING" /\ cleaned = FALSE
    /\ seg = [s \in Segs |-> "PENDING"]
    /\ why = [s \in Segs |-> "none"]
    /\ raw \in [Segs -> {"good", "bad"}]
    /\ temp = [s \in Segs |-> "none"]
    /\ final = [s \in Segs |-> "none"]
    /\ purged = FALSE
    /\ job \in {"none", "waiting"}
    /\ owner = NoWorker
    /\ made = 0 /\ stalled = 0
    /\ pc = [w \in Workers |-> "idle"]
    /\ at = [w \in Workers |-> 1]
    /\ known = [w \in Workers |-> {}]
    /\ again = [w \in Workers |-> FALSE]
    /\ fd = [w \in Workers |-> "none"]
    /\ act = [h \in Helpers |-> "idle"]
    /\ target = {}
    /\ old = FALSE
    /\ verdicts = 0 /\ requeued = FALSE
    /\ tools = 0 /\ lapses = 0 /\ faults = 0

-----------------------------------------------------------------------------
(* Helpers *)

At(w, step) == pc[w] = step
Goto(w, step) == pc' = [pc EXCEPT ![w] = step]
Doing(h, step) == act[h] = step
Then(h, step) == act' = [act EXCEPT ![h] = step]

\* Mutant: STEP 3 is forgotten.
AdvanceAnyway(w, k) ==
    /\ known' = [known EXCEPT ![w] = k]
    /\ at' = [at EXCEPT ![w] = @ + 1]
    /\ Goto(w, IF at[w] < NumSegs THEN "loop" ELSE "settle")

\* The loop over the segments goes on with the next one; after the last one the
\* run succeeds if a segment is READY (k: those known to be).
Advance(w, k) ==
    /\ known' = [known EXCEPT ![w] = k]
    /\ at' = [at EXCEPT ![w] = @ + 1]
    /\ Goto(w, IF at[w] < NumSegs THEN "loop" ELSE IF k = {} THEN "throw" ELSE "settle")

\* The run is over; its local state goes with it.
Leave(w, step) ==
    /\ Goto(w, step)
    /\ at' = [at EXCEPT ![w] = 1]
    /\ known' = [known EXCEPT ![w] = {}]
    /\ again' = [again EXCEPT ![w] = FALSE]
    /\ fd' = [fd EXCEPT ![w] = "none"]

MishapLeft == tools + lapses + faults < MaxMishaps
Fault == MishapLeft /\ faults' = faults + 1

\* The other runs whose ffmpeg writes to the file that has the temporary name.
Writers(s) == {w \in Workers : fd[w] = "temp" /\ at[w] = s}

\* updateMany where status notIn READY, FAILED; the event follows.
MarkFailed ==
    IF row = "PROCESSING"
    THEN row' = "FAILED" /\ verdicts' = verdicts + 1
    ELSE UNCHANGED <<row, verdicts>>

-----------------------------------------------------------------------------
(* The worker: processFinalizeJob and finalizeRecording *)

\* BullMQ hands out the job.  One that stalled too often fails unrecoverably
\* without being run.
Take(w) ==
    /\ At(w, "idle") /\ job = "waiting"
    /\ job' = "active" /\ owner' = w
    /\ again' = [again EXCEPT ![w] = FALSE]
    /\ Goto(w, IF stalled = 2 THEN "throw" ELSE "load")
    /\ UNCHANGED <<rowVars, fileVars, made, stalled, at, known, fd, act,
                   target, envVars>>

LoadSegments(w) ==
    /\ At(w, "load") /\ row = "PROCESSING"
    /\ at' = [at EXCEPT ![w] = 1]
    /\ known' = [known EXCEPT ![w] = {s \in Segs : seg[s] = "READY"}]
    /\ Goto(w, "loop")
    /\ UNCHANGED <<rowVars, fileVars, jobVars, again, fd, act, target, envVars>>

\* Already READY: done.  FAILED or deleted: unrecoverable.
LoadNothing(w) ==
    /\ At(w, "load") /\ row # "PROCESSING"
    /\ Goto(w, IF row = "READY" THEN "return" ELSE "throw")
    /\ UNCHANGED <<rowVars, fileVars, jobVars, at, known, again, fd, act,
                   target, envVars>>

SkipReady(w) ==
    /\ At(w, "loop") /\ at[w] \in known[w]
    /\ Advance(w, known[w])
    /\ UNCHANGED <<rowVars, fileVars, jobVars, again, fd, act, target, envVars>>

\* ffmpeg -y opens and truncates the temporary file.
StartConversion(w) ==
    LET s == at[w] IN
    /\ At(w, "loop") /\ s \in Segs \ known[w] /\ raw[s] = "good"
    /\ temp' = [temp EXCEPT ![s] = IF Writers(s) = {} THEN "clean" ELSE "torn"]
    /\ fd' = [fd EXCEPT ![w] = "temp"]
    /\ Goto(w, "convert")
    /\ UNCHANGED <<rowVars, raw, final, purged, jobVars, at, known, again,
                   act, target, envVars>>

\* The raw file is missing, too small or not media: a SourceMediaError.
RawUnusable(w) ==
    /\ At(w, "loop") /\ at[w] \in Segs \ known[w] /\ raw[at[w]] # "good"
    /\ Goto(w, "spoil")
    /\ UNCHANGED <<rowVars, fileVars, jobVars, at, known, again, fd, act,
                   target, envVars>>

\* ffmpeg is done; rename gives the final name to whatever has the temporary
\* one, also when another run is still writing to it.
Rename(w) ==
    LET s == at[w]
        others == Writers(s) \ {w}
    IN
    /\ At(w, "convert") /\ temp[s] # "none"
    /\ final' = [final EXCEPT ![s] =
                    IF temp[s] = "clean" /\ others = {} THEN "whole" ELSE "torn"]
    /\ temp' = [temp EXCEPT ![s] = "none"]
    /\ fd' = [v \in Workers |-> IF v = w THEN "none"
                                ELSE IF v \in others THEN "final" ELSE fd[v]]
    /\ Goto(w, "probe")
    /\ UNCHANGED <<rowVars, raw, purged, jobVars, at, known, again, act,
                   target, envVars>>

\* Mutant: the catch block removes the source.
ConvertFailsDropsRaw(w) ==
    LET s == at[w] IN
    /\ pc[w] \in {"convert", "probe"}
    /\ raw' = [raw EXCEPT ![s] = "gone"]
    /\ fd' = [v \in Workers |-> IF v = w THEN "none" ELSE fd[v]]
    /\ \E step \in Spoils :
          /\ At(w, "convert") => step = "spoilTool"
          /\ Goto(w, step)
    /\ UNCHANGED <<rowVars, temp, final, purged, jobVars, at, known, again, act,
                   target, envVars>>

\* The tool fails or times out, the rename finds no file, or the output is
\* rejected (which is not retried).  The temporary name is removed.
ConvertFails(w) ==
    LET s == at[w] IN
    /\ pc[w] \in {"convert", "probe"}
    /\ temp' = [temp EXCEPT ![s] = "none"]
    /\ fd' = [v \in Workers |-> IF v = w THEN "none"
                                ELSE IF v \in Writers(s) THEN "lost" ELSE fd[v]]
    /\ \E step \in Spoils :
          /\ At(w, "convert") => step = "spoilTool"
          /\ Goto(w, step)
    /\ UNCHANGED <<rowVars, raw, final, purged, jobVars, at, known, again, act,
                   target, envVars>>

SaveReady(w) ==
    /\ At(w, "probe") /\ row # "gone"
    /\ seg' = [seg EXCEPT ![at[w]] = "READY"]
    /\ why' = [why EXCEPT ![at[w]] = "none"]
    /\ Advance(w, known[w] \cup {at[w]})
    /\ UNCHANGED <<row, cleaned, fileVars, jobVars, again, fd, act, target, envVars>>

SaveFailed(w) ==
    /\ pc[w] \in Spoils /\ row # "gone"
    /\ seg' = [seg EXCEPT ![at[w]] = "FAILED"]
    /\ why' = [why EXCEPT ![at[w]] = IF At(w, "spoil") THEN "source" ELSE "tool"]
    /\ again' = [again EXCEPT ![w] = @ \/ At(w, "spoilTool")]
    /\ Advance(w, known[w])
    /\ UNCHANGED <<row, cleaned, fileVars, jobVars, fd, act, target, envVars>>

\* The segment rows are gone with the recording: both updates throw, and the
\* second leaves finalizeRecording with a plain Error.
SaveThrows(w) ==
    /\ pc[w] \in {"probe"} \cup Spoils /\ row = "gone"
    /\ again' = [again EXCEPT ![w] = TRUE]
    /\ Goto(w, "throw")
    /\ UNCHANGED <<rowVars, fileVars, jobVars, at, known, fd, act, target,
                   envVars>>

\* Mutant: the update is by id.
SettleById(w) ==
    /\ At(w, "settle")
    /\ row' = "READY" /\ verdicts' = verdicts + 1
    /\ Goto(w, "return")
    /\ UNCHANGED <<cleaned, seg, why, fileVars, jobVars, at, known, again, fd,
                   act, target, old, requeued, tools, lapses, faults>>

\* updateMany where status is PROCESSING; recording-ready follows if it counted.
Settle(w) ==
    /\ At(w, "settle")
    /\ IF row = "PROCESSING"
       THEN row' = "READY" /\ verdicts' = verdicts + 1
       ELSE UNCHANGED <<row, verdicts>>
    /\ Goto(w, "return")
    /\ UNCHANGED <<cleaned, seg, why, fileVars, jobVars, at, known, again, fd,
                   act, target, old, requeued, tools, lapses, faults>>

-----------------------------------------------------------------------------
(* How the attempt ends for BullMQ: only the holder of the lock is heard *)

Return(w) ==
    /\ At(w, "return")
    /\ IF owner = w
       THEN job' = "completed" /\ owner' = NoWorker
       ELSE UNCHANGED <<job, owner>>
    /\ Leave(w, "idle")
    /\ UNCHANGED <<rowVars, fileVars, made, stalled, act, target, envVars>>

IsFinal(w) == ~again[w] \/ made + 1 >= Attempts

\* Mutant: every failed attempt is reported as the last.
ThrowRetriedMarks(w) ==
    /\ At(w, "throw") /\ owner = w /\ ~IsFinal(w)
    /\ job' = "waiting" /\ owner' = NoWorker /\ made' = made + 1
    /\ Leave(w, "mark")
    /\ UNCHANGED <<rowVars, fileVars, stalled, act, target, envVars>>

ThrowRetried(w) ==
    /\ At(w, "throw") /\ owner = w /\ ~IsFinal(w)
    /\ job' = "waiting" /\ owner' = NoWorker /\ made' = made + 1
    /\ Leave(w, "idle")
    /\ UNCHANGED <<rowVars, fileVars, stalled, act, target, envVars>>

ThrowFinal(w) ==
    /\ At(w, "throw") /\ owner = w /\ IsFinal(w)
    /\ job' = "failed" /\ owner' = NoWorker /\ made' = made + 1
    /\ Leave(w, "mark")
    /\ UNCHANGED <<rowVars, fileVars, stalled, act, target, envVars>>

\* The lock is somebody else's: BullMQ only reports an error.
ThrowUnheard(w) ==
    /\ At(w, "throw") /\ owner # w
    /\ Leave(w, "idle")
    /\ UNCHANGED <<rowVars, fileVars, jobVars, act, target, envVars>>

\* onFailed of a final failure.
Mark(w) ==
    /\ At(w, "mark")
    /\ MarkFailed
    /\ Leave(w, "idle")
    /\ UNCHANGED <<cleaned, seg, why, fileVars, jobVars, act, target, old, requeued,
                   tools, lapses, faults>>

MarkThrows(w) ==
    /\ At(w, "mark") /\ Fault
    /\ Leave(w, "idle")
    /\ UNCHANGED <<rowVars, fileVars, jobVars, act, target, old, verdicts, requeued,
                   tools, lapses>>

\* The process dies; what it wrote stays.
Crash(w) ==
    /\ ~At(w, "idle") /\ Fault
    /\ Leave(w, "idle")
    /\ UNCHANGED <<rowVars, fileVars, jobVars, act, target, old, verdicts, requeued,
                   tools, lapses>>

\* The lock is not renewed for 60 s: its holder is dead, or alive and cut off
\* from Redis.  The stalled check puts the job back.
Stall(w) ==
    /\ owner = w
    /\ \/ At(w, "idle") /\ UNCHANGED lapses
       \/ ~At(w, "idle") /\ MishapLeft /\ lapses' = lapses + 1
    /\ job' = "waiting" /\ owner' = NoWorker
    /\ stalled' = IF stalled = 2 THEN 2 ELSE stalled + 1
    /\ UNCHANGED <<rowVars, fileVars, made, runVars, act, target, old, verdicts,
                   requeued, tools, faults>>

-----------------------------------------------------------------------------
(* The requeue command and the recovery of PROCESSING rows *)

ToolStart ==
    /\ Doing("tool", "idle") /\ MishapLeft
    /\ row \in {"PROCESSING", "FAILED"}
    /\ tools' = tools + 1
    /\ Then("tool", "reset")
    /\ UNCHANGED <<rowVars, fileVars, jobVars, runVars, target, old, verdicts,
                   requeued, lapses, faults>>

\* The transaction; it fails when the row is gone.
ToolReset ==
    /\ Doing("tool", "reset")
    /\ IF row = "gone"
       THEN Then("tool", "idle") /\ UNCHANGED rowVars
       ELSE /\ seg' = [s \in Segs |-> IF seg[s] = "FAILED" THEN "PENDING" ELSE seg[s]]
            /\ why' = [s \in Segs |-> IF seg[s] = "FAILED" THEN "none" ELSE why[s]]
            /\ row' = "PROCESSING"
            /\ Then("tool", "job")
            /\ UNCHANGED cleaned
    /\ UNCHANGED <<fileVars, jobVars, runVars, target, envVars>>

\* MAX_PROCESSING_HOURS go by.
Age ==
    /\ ~old /\ old' = TRUE
    /\ UNCHANGED <<rowVars, fileVars, jobVars, runVars, act, target, verdicts,
                   requeued, tools, lapses, faults>>

\* A PROCESSING row that was not updated for STALE_PROCESSING_MINUTES; updates
\* of its segments do not count, so it may be any.
RecoverFind ==
    /\ Doing("recover", "idle") /\ row = "PROCESSING"
    /\ Then("recover", "look")
    /\ UNCHANGED <<rowVars, fileVars, jobVars, runVars, target, envVars>>

\* Mutant: a job that is over counts as one that will still run.
RecoverLookMissing ==
    /\ Doing("recover", "look")
    /\ Then("recover", IF job # "none" THEN "idle" ELSE IF old THEN "mark" ELSE "job")
    /\ UNCHANGED <<rowVars, fileVars, jobVars, runVars, target, envVars>>

RecoverLook ==
    /\ Doing("recover", "look")
    /\ Then("recover", IF job \in InFlight THEN "idle"
                       ELSE IF old THEN "mark" ELSE "job")
    /\ UNCHANGED <<rowVars, fileVars, jobVars, runVars, target, envVars>>

RecoverMark ==
    /\ Doing("recover", "mark")
    /\ MarkFailed
    /\ Then("recover", "idle")
    /\ UNCHANGED <<cleaned, seg, why, fileVars, jobVars, runVars, target, old,
                   requeued, tools, lapses, faults>>

\* requeueFinalize: getJob and getState, remove, add.
RequeueLook(h) ==
    /\ Doing(h, "job")
    /\ Then(h, IF job \in InFlight THEN "idle"
               ELSE IF job = "none" THEN "add" ELSE "remove")
    /\ UNCHANGED <<rowVars, fileVars, jobVars, runVars, target, envVars>>

\* A locked job cannot be removed: BullMQ throws.
RequeueRemove(h) ==
    /\ Doing(h, "remove")
    /\ IF job = "active"
       THEN Then(h, "idle") /\ UNCHANGED job
       ELSE Then(h, "add") /\ job' = "none"
    /\ UNCHANGED <<rowVars, fileVars, owner, made, stalled, runVars, target, envVars>>

\* An id that exists is ignored by BullMQ.
RequeueAdd(h) ==
    /\ Doing(h, "add")
    /\ IF job = "none"
       THEN job' = "waiting" /\ made' = 0 /\ stalled' = 0 /\ requeued' = TRUE
       ELSE UNCHANGED <<job, made, stalled, requeued>>
    /\ Then(h, "idle")
    /\ UNCHANGED <<rowVars, fileVars, owner, runVars, target, old, verdicts, tools,
                   lapses, faults>>

-----------------------------------------------------------------------------
(* DELETE and the cleanup *)

\* Mutant: the row goes first.
DeleteStartRow ==
    /\ Doing("delete", "idle") /\ row \in {"READY", "FAILED"}
    /\ Then("delete", "row")
    /\ UNCHANGED <<rowVars, fileVars, jobVars, runVars, target, envVars>>

DeleteStart ==
    /\ Doing("delete", "idle") /\ row \in {"READY", "FAILED"}
    /\ Then("delete", "files")
    /\ UNCHANGED <<rowVars, fileVars, jobVars, runVars, target, envVars>>

DeleteFiles ==
    /\ Doing("delete", "files")
    /\ purged' = TRUE
    /\ raw' = [s \in Segs |-> "gone"]
    /\ temp' = [s \in Segs |-> "none"]
    /\ final' = [s \in Segs |-> "none"]
    /\ fd' = [w \in Workers |-> IF fd[w] = "none" THEN "none" ELSE "lost"]
    /\ Then("delete", "row")
    /\ UNCHANGED <<rowVars, jobVars, pc, at, known, again, target, envVars>>

DeleteRow ==
    /\ Doing("delete", "row")
    /\ row' = "gone"
    /\ Then("delete", "idle")
    /\ UNCHANGED <<cleaned, seg, why, fileVars, jobVars, runVars, target, envVars>>

\* READY, not cleaned yet, stopped longer than RAW_RETENTION_HOURS ago.
CleanFind ==
    /\ Doing("clean", "idle") /\ row = "READY" /\ ~cleaned
    /\ target' = {s \in Segs : seg[s] = "READY"}
    /\ Then("clean", "raw")
    /\ UNCHANGED <<rowVars, fileVars, jobVars, runVars, envVars>>

\* No job in flight, and every final file is there and not empty.
CleanVerify ==
    /\ Doing("clean", "raw")
    /\ IF job \notin InFlight /\ \A s \in target : final[s] # "none"
       THEN Then("clean", "rm") /\ UNCHANGED target
       ELSE Then("clean", "idle") /\ target' = {}
    /\ UNCHANGED <<rowVars, fileVars, jobVars, runVars, envVars>>

\* The raw files go; rawCleanedAt is an update by id, which throws when the row
\* is gone.
CleanRaw ==
    /\ Doing("clean", "rm")
    /\ raw' = [s \in Segs |-> IF s \in target THEN "gone" ELSE raw[s]]
    /\ cleaned' = (cleaned \/ row # "gone")
    /\ Then("clean", "idle") /\ target' = {}
    /\ UNCHANGED <<row, seg, why, temp, final, purged, jobVars, runVars, envVars>>

\* A temporary file nobody has written to for an hour, no job in flight.
TidyFind(s) ==
    /\ Doing("clean", "idle") /\ job \notin InFlight
    /\ temp[s] # "none" /\ Writers(s) = {}
    /\ target' = {s}
    /\ Then("clean", "tidy")
    /\ UNCHANGED <<rowVars, fileVars, jobVars, runVars, envVars>>

TidyRemove ==
    /\ Doing("clean", "tidy")
    /\ temp' = [s \in Segs |-> IF s \in target THEN "none" ELSE temp[s]]
    /\ fd' = [w \in Workers |-> IF at[w] \in target /\ fd[w] = "temp" THEN "lost"
                                ELSE fd[w]]
    /\ Then("clean", "idle") /\ target' = {}
    /\ UNCHANGED <<rowVars, raw, final, purged, jobVars, pc, at, known, again,
                   envVars>>

\* The process of the handler dies between two of its steps.
HelperDies(h) ==
    /\ ~Doing(h, "idle") /\ Fault
    /\ Then(h, "idle")
    /\ target' = IF h = "clean" THEN {} ELSE target
    /\ UNCHANGED <<rowVars, fileVars, jobVars, runVars, old, verdicts, requeued,
                   tools, lapses>>

-----------------------------------------------------------------------------
RunStep(w) ==
    \/ LoadSegments(w) \/ LoadNothing(w)
    \/ SkipReady(w) \/ StartConversion(w) \/ RawUnusable(w)
    \/ Rename(w) \/ ConvertFails(w)
    \/ SaveReady(w) \/ SaveFailed(w) \/ SaveThrows(w)
    \/ Settle(w) \/ Return(w)
    \/ ThrowRetried(w) \/ ThrowFinal(w) \/ ThrowUnheard(w) \/ Mark(w)
WorkerStep(w) == Take(w) \/ RunStep(w)
RequeueStep(h) == RequeueLook(h) \/ RequeueRemove(h) \/ RequeueAdd(h)
RecoverStep ==
    \/ RecoverFind \/ RecoverLook \/ RecoverMark \/ RequeueStep("recover")
CleanStep ==
    \/ CleanFind \/ CleanVerify \/ CleanRaw \/ TidyRemove
    \/ \E s \in Segs : TidyFind(s)

Next ==
    \/ \E w \in Workers : WorkerStep(w) \/ MarkThrows(w) \/ Crash(w) \/ Stall(w)
    \/ ToolStart \/ ToolReset \/ RequeueStep("tool")
    \/ RecoverStep \/ CleanStep \/ Age
    \/ DeleteStart \/ DeleteFiles \/ DeleteRow
    \/ \E h \in Helpers : HelperDies(h)

Spec == Init /\ [][Next]_vars

\* Workers run what they took, BullMQ finds dead holders of a lock, time passes
\* and the recovery timer fires.  Nobody is obliged to use the requeue command
\* or DELETE, or to finish it.
Fairness ==
    /\ \A w \in Workers : WF_vars(WorkerStep(w)) /\ WF_vars(At(w, "idle") /\ Stall(w))
    /\ WF_vars(RecoverStep) /\ WF_vars(Age)

FairSpec == Spec /\ Fairness

-----------------------------------------------------------------------------
(* Properties *)

\* READY recordings can be played: some segment is READY, and every READY
\* segment has its complete final file, unless a run outlived its lock or the
\* host is deleting the recording.
ReadyIsPlayable ==
    row = "READY" /\ lapses = 0 /\ ~purged =>
        /\ \E s \in Segs : seg[s] = "READY"
        /\ \A s \in Segs : seg[s] = "READY" => final[s] = "whole"

\* No footage is lost: a segment keeps its raw file until a complete final file
\* stands in for it, whatever is retried, requeued or cleaned up.
FootageKept ==
    lapses = 0 /\ ~purged =>
        \A s \in Segs : raw[s] = "gone" => final[s] = "whole"

\* recording-ready or recording-failed is published once, also by two runs of
\* a stalled job and by recovery, as long as nobody uses the requeue command.
VerdictOnce == tools = 0 => verdicts <= 1

\* A retry is never failed early: unless something was requeued, a FAILED
\* recording has no job that may still run.
FailedIsLast == ~requeued /\ row = "FAILED" => job \notin InFlight

\* A deleted recording leaves no file behind, although a run may still be
\* converting it.
NothingLeftBehind ==
    row = "gone" => \A s \in Segs : raw[s] = "gone" /\ temp[s] = "none" /\ final[s] = "none"

\* No recording stays PROCESSING: the last attempt, recovery's requeue and in the
\* end its age limit see to it, whatever crashes or is requeued.
Settles == []<>(row # "PROCESSING")
=============================================================================
