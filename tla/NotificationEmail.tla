--------------------------- MODULE NotificationEmail ---------------------------
(***************************************************************************)
(* The invitation and reminder emails of ONE room: the Notification rows    *)
(* of notification-service (the source of truth), their BullMQ jobs, the    *)
(* invite requests that create both, the email worker that consumes them    *)
(* and the room-ended subscriber that cancels what is still pending.        *)
(*                                                                          *)
(* A row and its job share the deterministic jobId, so one identifier        *)
(* stands for the two.  Requests, worker and subscriber are cut at their     *)
(* awaits: any of the others may run in between.                            *)
(*                                                                          *)
(* What every specification has (Init, Next, Spec) is called EmailInit ...   *)
(* here: Notices_proofs extends this module and RecordingPanel.             *)
(***************************************************************************)
EXTENDS Integers

CONSTANTS
    Invites,       \* jobIds invite_<room>_<email>
    Reminders,     \* jobIds rem_<room>_<minutes>_<email>
    Reqs,          \* POST /invites requests that may be open at once
    NoKey,         \* a request that is at no email
    MaxTries,      \* EMAIL_MAX_ATTEMPTS (the code's default is 5)
    MaxFaults      \* bound: crashes, lost events and failing writes

Keys == Invites \cup Reminders

ASSUME KeysAssumption == Invites \cap Reminders = {} /\ NoKey \notin Keys
ASSUME TriesAssumption == MaxTries \in Nat \ {0} /\ MaxFaults \in Nat

VARIABLES
    roomEnded, \* the room was ended (room-service)
    event,     \* a room-ended message is on its way to the subscriber
    due,       \* emails whose sendAt has passed
    status,    \* Notification.status, "none" before the insert
    mailJob,   \* BullMQ job: none, waiting (or delayed), active, over
    tries,     \* attemptsMade of the job
    work,      \* step of the worker on an active job
    mails,     \* emails the SMTP server accepted
    req,       \* step of each request
    todo,      \* emails a request has yet to look at
    cur,       \* the email a request is creating
    cancel,    \* step of cancelRemindersForRoom
    snap,      \* the pending rows it read
    togo,      \* those whose job it has yet to remove
    faults

reqVars == <<req, todo, cur>>
cancelVars == <<cancel, snap, togo>>
jobVars == <<mailJob, tries, work>>
emailVars == <<roomEnded, event, due, status, mailJob, tries, work, mails, req,
               todo, cur, cancel, snap, togo, faults>>

Final == {"SENT", "FAILED", "CANCELLED"}

EmailTypeOK ==
    /\ roomEnded \in BOOLEAN /\ event \in BOOLEAN
    /\ due \subseteq Keys
    /\ status \in [Keys -> Final \cup {"none", "PENDING"}]
    /\ mailJob \in [Keys -> {"none", "waiting", "active", "over"}]
    /\ tries \in [Keys -> 0..MaxTries]
    /\ work \in [Keys -> {"idle", "load", "send", "record", "fail"}]
    /\ mails \in [Keys -> Nat]
    /\ req \in [Reqs -> {"idle", "loop", "create", "add"}]
    /\ todo \in [Reqs -> SUBSET Keys]
    /\ cur \in [Reqs -> Keys \cup {NoKey}]
    /\ cancel \in {"idle", "remove"}
    /\ snap \subseteq Reminders /\ togo \subseteq snap
    /\ faults \in 0..MaxFaults

EmailInit ==
    /\ roomEnded = FALSE /\ event = FALSE
    /\ due = Invites
    /\ status = [k \in Keys |-> "none"]
    /\ mailJob = [k \in Keys |-> "none"]
    /\ tries = [k \in Keys |-> 0]
    /\ work = [k \in Keys |-> "idle"]
    /\ mails = [k \in Keys |-> 0]
    /\ req = [q \in Reqs |-> "idle"]
    /\ todo = [q \in Reqs |-> {}]
    /\ cur = [q \in Reqs |-> NoKey]
    /\ cancel = "idle" /\ snap = {} /\ togo = {}
    /\ faults = 0

Fault == faults < MaxFaults /\ faults' = faults + 1

\* sendAt of a reminder passes.
TimePasses(k) ==
    /\ k \in Reminders \ due
    /\ due' = due \cup {k}
    /\ UNCHANGED <<roomEnded, event, status, jobVars, mails, reqVars, cancelVars, faults>>

-----------------------------------------------------------------------------
(* POST /v1/notifications/invites *)

\* fetchRoom answered that the room is active and the caller its host; "now" is
\* read once, so the reminders that are too late are settled here.  Bound: every
\* request invites the same people.
Invite(q) ==
    /\ req[q] = "idle"
    /\ ~roomEnded
    /\ req' = [req EXCEPT ![q] = "loop"]
    /\ todo' = [todo EXCEPT ![q] = Invites \cup (Reminders \ due)]
    /\ UNCHANGED <<roomEnded, event, due, status, jobVars, mails, cur, cancelVars, faults>>

\* findUnique by jobId; the order of the emails is the host's.
FindRow(q) ==
    /\ req[q] = "loop"
    /\ \E k \in todo[q] :
          /\ todo' = [todo EXCEPT ![q] = @ \ {k}]
          /\ IF status[k] = "none"
             THEN /\ req' = [req EXCEPT ![q] = "create"]
                  /\ cur' = [cur EXCEPT ![q] = k]
             ELSE UNCHANGED <<req, cur>>
    /\ UNCHANGED <<roomEnded, event, due, status, jobVars, mails, cancelVars, faults>>

\* Mutant: an upsert, which gives a finished row a second life.
CreateRowUpsert(q) ==
    /\ req[q] = "create"
    /\ status' = [status EXCEPT ![cur[q]] = "PENDING"]
    /\ req' = [req EXCEPT ![q] = "add"]
    /\ UNCHANGED <<roomEnded, event, due, jobVars, mails, todo, cur, cancelVars, faults>>

\* The insert: jobId is unique, so a request that lost the race ends with 500
\* and leaves its other emails aside.
CreateRow(q) ==
    /\ req[q] = "create"
    /\ IF status[cur[q]] = "none"
       THEN /\ status' = [status EXCEPT ![cur[q]] = "PENDING"]
            /\ req' = [req EXCEPT ![q] = "add"]
            /\ UNCHANGED <<todo, cur>>
       ELSE /\ req' = [req EXCEPT ![q] = "idle"]
            /\ todo' = [todo EXCEPT ![q] = {}]
            /\ cur' = [cur EXCEPT ![q] = NoKey]
            /\ UNCHANGED status
    /\ UNCHANGED <<roomEnded, event, due, jobVars, mails, cancelVars, faults>>

\* BullMQ ignores an id it still keeps.
AddJob(q) ==
    /\ req[q] = "add"
    /\ mailJob' = [mailJob EXCEPT ![cur[q]] = IF @ = "none" THEN "waiting" ELSE @]
    /\ req' = [req EXCEPT ![q] = "loop"]
    /\ cur' = [cur EXCEPT ![q] = NoKey]
    /\ UNCHANGED <<roomEnded, event, due, status, tries, work, mails, todo, cancelVars, faults>>

Respond(q) ==
    /\ req[q] = "loop"
    /\ todo[q] = {}
    /\ req' = [req EXCEPT ![q] = "idle"]
    /\ UNCHANGED <<roomEnded, event, due, status, jobVars, mails, todo, cur, cancelVars, faults>>

-----------------------------------------------------------------------------
(* The room ends, and its pending reminders are cancelled *)

\* endRoom may be repeated; a publish that fails is swallowed.
EndRoom ==
    /\ roomEnded' = TRUE
    /\ event' = TRUE
    /\ UNCHANGED <<due, status, jobVars, mails, reqVars, cancelVars, faults>>

\* The publish fails, or the subscriber is not connected.
LoseEvent ==
    /\ event
    /\ Fault
    /\ event' = FALSE
    /\ UNCHANGED <<roomEnded, due, status, jobVars, mails, reqVars, cancelVars>>

\* findMany of the pending reminders.  Bound: one cancellation at a time.
ReadPending ==
    /\ event
    /\ cancel = "idle"
    /\ event' = FALSE
    /\ cancel' = "remove"
    /\ snap' = {k \in Reminders : status[k] = "PENDING"}
    /\ togo' = snap'
    /\ UNCHANGED <<roomEnded, due, status, jobVars, mails, reqVars, faults>>

\* An active job is locked by its worker: remove throws, which is ignored.
RemoveJob(k) ==
    /\ k \in togo
    /\ togo' = togo \ {k}
    /\ mailJob' = [mailJob EXCEPT ![k] = IF @ = "active" THEN "active" ELSE "none"]
    /\ UNCHANGED <<roomEnded, event, due, status, tries, work, mails, reqVars, cancel, snap,
                   faults>>

\* Mutant: updateMany without the status filter.
CancelRowsUnfiltered ==
    /\ cancel = "remove" /\ togo = {}
    /\ status' = [k \in Keys |-> IF k \in snap THEN "CANCELLED" ELSE status[k]]
    /\ cancel' = "idle" /\ snap' = {} /\ togo' = {}
    /\ UNCHANGED <<roomEnded, event, due, jobVars, mails, reqVars, faults>>

\* Mutant: the jobs are removed, the rows are not touched.
CancelRowsForgotten ==
    /\ cancel = "remove" /\ togo = {}
    /\ cancel' = "idle" /\ snap' = {} /\ togo' = {}
    /\ UNCHANGED <<roomEnded, event, due, status, jobVars, mails, reqVars, faults>>

\* updateMany of the rows read, where they are still PENDING.
CancelRows ==
    /\ cancel = "remove" /\ togo = {}
    /\ status' = [k \in Keys |-> IF k \in snap /\ status[k] = "PENDING"
                                 THEN "CANCELLED" ELSE status[k]]
    /\ cancel' = "idle" /\ snap' = {} /\ togo' = {}
    /\ UNCHANGED <<roomEnded, event, due, jobVars, mails, reqVars, faults>>

-----------------------------------------------------------------------------
(* The email worker *)

Take(k) ==
    /\ mailJob[k] = "waiting"
    /\ k \in due
    /\ mailJob' = [mailJob EXCEPT ![k] = "active"]
    /\ work' = [work EXCEPT ![k] = "load"]
    /\ UNCHANGED <<roomEnded, event, due, status, tries, mails, reqVars, cancelVars, faults>>

\* A row that is not PENDING is skipped, and the job completes.
Load(k) ==
    /\ work[k] = "load"
    /\ IF status[k] = "PENDING"
       THEN work' = [work EXCEPT ![k] = "send"] /\ UNCHANGED mailJob
       ELSE work' = [work EXCEPT ![k] = "idle"] /\ mailJob' = [mailJob EXCEPT ![k] = "over"]
    /\ UNCHANGED <<roomEnded, event, due, status, tries, mails, reqVars, cancelVars, faults>>

Send(k) ==
    /\ work[k] = "send"
    /\ mails' = [mails EXCEPT ![k] = @ + 1]
    /\ work' = [work EXCEPT ![k] = "record"]
    /\ UNCHANGED <<roomEnded, event, due, status, mailJob, tries, reqVars, cancelVars, faults>>

\* update by id alone.
RecordSent(k) ==
    /\ work[k] = "record"
    /\ status' = [status EXCEPT ![k] = "SENT"]
    /\ work' = [work EXCEPT ![k] = "idle"]
    /\ mailJob' = [mailJob EXCEPT ![k] = "over"]
    /\ UNCHANGED <<roomEnded, event, due, tries, mails, reqVars, cancelVars, faults>>

\* Mutant: retried once too often.
AttemptFailsLate(k) ==
    /\ tries' = [tries EXCEPT ![k] = @ + 1]
    /\ IF tries[k] <= MaxTries
       THEN mailJob' = [mailJob EXCEPT ![k] = "waiting"] /\ work' = [work EXCEPT ![k] = "idle"]
       ELSE mailJob' = [mailJob EXCEPT ![k] = "over"] /\ work' = [work EXCEPT ![k] = "fail"]

\* Mutant: the retries are forgotten, the first failure is not final and not
\* queued again.
AttemptFailsForgotten(k) ==
    /\ tries' = [tries EXCEPT ![k] = @ + 1]
    /\ mailJob' = [mailJob EXCEPT ![k] = "over"]
    /\ work' = [work EXCEPT ![k] = IF tries[k] + 1 < MaxTries THEN "idle" ELSE "fail"]

\* BullMQ: another attempt after the backoff, or none left.
AttemptFails(k) ==
    /\ tries' = [tries EXCEPT ![k] = @ + 1]
    /\ IF tries[k] + 1 < MaxTries
       THEN mailJob' = [mailJob EXCEPT ![k] = "waiting"] /\ work' = [work EXCEPT ![k] = "idle"]
       ELSE mailJob' = [mailJob EXCEPT ![k] = "over"] /\ work' = [work EXCEPT ![k] = "fail"]

\* The SMTP server refuses, or a write before it fails.
SendFails(k) ==
    /\ work[k] \in {"load", "send"}
    /\ AttemptFails(k)
    /\ UNCHANGED <<roomEnded, event, due, status, mails, reqVars, cancelVars, faults>>

\* The email is out and the row's update fails.
RecordFails(k) ==
    /\ work[k] = "record"
    /\ Fault
    /\ AttemptFails(k)
    /\ UNCHANGED <<roomEnded, event, due, status, mails, reqVars, cancelVars>>

\* Mutant: every failed attempt is taken for the last one.
MarkFailedEarly(k) ==
    /\ \/ work[k] = "fail" /\ work' = [work EXCEPT ![k] = "idle"]
       \/ mailJob[k] = "waiting" /\ tries[k] > 0 /\ UNCHANGED work
    /\ status' = [status EXCEPT ![k] = "FAILED"]
    /\ UNCHANGED <<roomEnded, event, due, mailJob, tries, mails, reqVars, cancelVars, faults>>

\* The "failed" listener after the last attempt: update by id alone.
MarkFailed(k) ==
    /\ work[k] = "fail"
    /\ status' = [status EXCEPT ![k] = "FAILED"]
    /\ work' = [work EXCEPT ![k] = "idle"]
    /\ UNCHANGED <<roomEnded, event, due, mailJob, tries, mails, reqVars, cancelVars, faults>>

\* Its update fails, which is only logged.
MarkFailedThrows(k) ==
    /\ work[k] = "fail"
    /\ Fault
    /\ work' = [work EXCEPT ![k] = "idle"]
    /\ UNCHANGED <<roomEnded, event, due, status, mailJob, tries, mails, reqVars, cancelVars>>

\* The process dies: a room-ended message finds no subscriber, and BullMQ puts
\* the active jobs back, or fails those that had stalled before.
Crash ==
    /\ Fault
    /\ event' = FALSE
    /\ \E again \in SUBSET {k \in Keys : mailJob[k] = "active"} :
          mailJob' = [k \in Keys |-> IF mailJob[k] # "active" THEN mailJob[k]
                                 ELSE IF k \in again THEN "waiting" ELSE "over"]
    /\ work' = [k \in Keys |-> "idle"]
    /\ req' = [q \in Reqs |-> "idle"]
    /\ todo' = [q \in Reqs |-> {}]
    /\ cur' = [q \in Reqs |-> NoKey]
    /\ cancel' = "idle" /\ snap' = {} /\ togo' = {}
    /\ UNCHANGED <<roomEnded, due, status, tries, mails>>

RequestStep(q) == FindRow(q) \/ CreateRow(q) \/ AddJob(q) \/ Respond(q)
CancelStep == ReadPending \/ CancelRows \/ \E k \in Keys : RemoveJob(k)
WorkerStep(k) ==
    \/ Take(k) \/ Load(k) \/ Send(k) \/ RecordSent(k) \/ SendFails(k) \/ MarkFailed(k)

EmailNext ==
    \/ \E q \in Reqs : Invite(q) \/ RequestStep(q)
    \/ EndRoom \/ LoseEvent \/ CancelStep
    \/ \E k \in Keys :
          TimePasses(k) \/ WorkerStep(k) \/ RecordFails(k) \/ MarkFailedThrows(k)
    \/ Crash

EmailSpec == EmailInit /\ [][EmailNext]_emailVars

\* Requests, the cancellation and the worker run on, and time passes.  Nobody
\* is obliged to invite, to end the room or to crash.
EmailFairness ==
    /\ \A q \in Reqs : WF_emailVars(RequestStep(q))
    /\ WF_emailVars(CancelStep)
    /\ \A k \in Keys : WF_emailVars(TimePasses(k)) /\ WF_emailVars(WorkerStep(k))

EmailFairSpec == EmailSpec /\ EmailFairness

-----------------------------------------------------------------------------
(* Properties *)

\* Re-sending an invite, two requests at once, retries and a cancellation in
\* between never make a second email of one jobId, as long as nothing fails
\* between the email and the row.
OneEmailEach == faults = 0 => \A k \in Keys : mails[k] <= 1

\* No PENDING row is forgotten: its job is queued or running, or the request
\* that inserted it is about to add the job, or its cancellation or its failure
\* is about to be recorded.
NoStrandedRow ==
    faults = 0 =>
        \A k \in Keys :
            status[k] = "PENDING" =>
                \/ mailJob[k] \in {"waiting", "active"}
                \/ \E q \in Reqs : req[q] = "add" /\ cur[q] = k
                \/ cancel = "remove" /\ k \in snap
                \/ work[k] = "fail"

\* A row that says CANCELLED is right: the email is not out, unless the worker
\* is between the email and its row.
CancelledWasNotSent ==
    faults = 0 =>
        \A k \in Keys :
            status[k] = "CANCELLED" /\ mails[k] > 0 => work[k] = "record"

\* "Only after the last failure is the row marked FAILED": crashes, stalled
\* jobs and failing writes included.
FailedUsedAllTries ==
    \A k \in Keys : status[k] = "FAILED" => tries[k] = MaxTries

\* A row does not stay PENDING: unless something fails, it says in the end what
\* became of its email.
RowsSettle ==
    \A k \in Keys : []<>(status[k] # "PENDING" \/ faults > 0)
=============================================================================
