# Google-Meet clone: specifications, model checking and proofs

This directory holds TLA+ specifications of the services in `src/services` and of the web client
in `src/FRONTEND/web`, TLC configurations that check them on small instances, and TLAPS proofs of
the safety properties for every value of the constants. Paths below are relative to
`src/services` unless they start with `src/`.

Each module translates the source: an action is a handler, or the part of a handler between two
`await`s, because that is where Node lets another handler run. `PROJECT.json` maps every
definition to the lines it models and lists each hazard at its line, with the properties that
cover it.

## 1. Inventory

### Recording (recording-service, sfu-service, Redis, Postgres, a shared volume)

* **Lifecycle.** State: the `Recording` row (STARTING, RECORDING, STOPPING, PROCESSING, READY,
  FAILED), the Redis lock `recording:active:<room>`, BullMQ jobs. Operations: start and stop
  (`recordingController.ts`, `recordingLifecycle.ts`), the SFU's `capture-ended` webhook
  (`captureEnded.ts`), the periodic recovery (`recovery.ts`), auto-stop (`autoStop.ts`). *Correct
  when* a row reports what was really captured, each recording ends READY or FAILED, and its lock
  is released once, by its owner.
* **Finalization.** State: segment rows, files, the job `finalize-<id>` with its attempts.
  Operations: conversion (`finalizeRecording.ts`), the worker's events (`finalizeWorker.ts`), the
  requeue command, delete, cleanup. *Correct when* READY can be played, no footage is lost and the
  verdict is published once.
* **SFU recording manager.** State: the captures by room, their segments (one ffmpeg each), RTP
  ports, a queue of tasks, debounce timers. Operations: start, stop, producers changed, peer left,
  exit of ffmpeg, manifest. *Correct when* a producer is in one segment at a time, ports come back,
  the manifest lists what was recorded, and what is recorded follows what is sent.

### Calls (signaling-service, sfu-service, Redis, the browser)

* **Signaling sessions.** State: `socket.data` (roomCode, usesSfu), the Redis sets
  `room:<code>:members` and keys `room:<code>:mode`. Operations: `join-room`, `leave-room`,
  `disconnect`, the SFU events, relay, chat. *Correct when* the set is the room, and everybody
  who used the SFU is taken out of it.
* **SFU rooms.** State: router promises by room, peers by room with transports, producers,
  consumers. *Correct when* no router is closed under a peer and none is left behind.
* **Call session of the client** (`call/CallSession.ts`, `sfuClient.ts`, `callStore.ts`). State:
  the session's maps and flags, its socket, the store. Operations: join, leave, rejoin after a lost
  connection, consume, the events of others. *Correct when* the screen shows who is there.
* **Meeting and chat** (room-service, chat-service, signaling, `callStore.ts`). State: `isActive`,
  two Redis channels, the collection, the panel of each client. *Correct when* everybody hears the
  end, and reads every message, in the order in which they were said.

### Accounts (auth-service, gateway, `apiClient.ts`, `AuthContext.tsx`)

State: refresh-token rows, a cookie, the access token of each tab, requests that wait for one
refresh. *Correct when* signing out ends the session and nothing else does.

### Notifications (notification-service)

Rows with a unique `jobId`, BullMQ email jobs, a subscriber that cancels reminders on
`room-ended`. *Correct when* every invitation and reminder is sent once or reported FAILED or
CANCELLED truthfully.

### How they interact and what is hard

Services call each other over HTTP with 5 s timeouts (a timeout says nothing about what the other
side did), publish on Redis (delivered at most once), and share a volume (the manifest, the files).
Every handler gives way at its awaits. The hard behaviours are: a row read before an await and
written after it; requests that overtake each other; a job that is given to a second worker while
the first still works; a webhook that is retried and then given up, against a recovery that may do
its work; a crash between two writes; a reload, a lost connection or a leave in the middle of a
join.

## 2. Modules

| module | models | proofs |
|---|---|---|
| `RecordingPromise` | what the host is promised about a recording (abstract) | |
| `RecordingLifecycle` | the recordings of one room, from start to verdict, which implements `RecordingPromise` | `RecordingLifecycle_proofs` |
| `FinalizePipeline` | one recording from PROCESSING on: jobs, workers, files | `FinalizePipeline_proofs` |
| `SegmentLog` | what the SFU promises about one recording (abstract) | |
| `SegmentCapture` | the SFU's recording manager, which implements `SegmentLog` | `SegmentCapture_proofs` |
| `CallRoom` | signaling sockets, Redis members, SFU peers and routers | `CallRoom_proofs` |
| `ClientCall` | one browser's `CallSession` in a meeting | `ClientCall_proofs` |
| `MeetingChat` | the end of a meeting and its chat, for all its clients | `MeetingChat_proofs` |
| `AccountSession` | the tabs of one browser and the auth-service | `AccountSession_proofs` |
| `NotificationEmail` | the notification rows, jobs and emails of one room | `Notices_proofs` |
| `RecordingPanel` | what the browsers are told of their recordings, and the badge they show | `Notices_proofs` |
| `MC...` | what TLC needs: symmetry sets, functions over model values | |

Where two modules meet, one keeps of the other what it can observe. `RecordingLifecycle` has the
conversion as one step (`FinalizeBegin` to `FinalizeReady` or `FinalizeFails`), `FinalizePipeline`
opens it; `RecordingLifecycle` has a capture that closes with or without media, `SegmentCapture`
opens that. `CallRoom` looks at a call from the server, with several sockets; `ClientCall` from
one browser, with one connection at a time; `MeetingChat` composes room-service, signaling,
chat-service and the panels. `RecordingPanel` composes recording-service, the SFU's webhook, the
finalize worker, signaling and the browser, and of each keeps the steps that are told or heard.

### RecordingLifecycle

One room: lock and capture are keyed by room and no handler touches two. `row`, `segs`, `lock` and
`job` are Postgres, Redis and BullMQ; `cap`, `media` and `manifest` the SFU and the volume; `call`
and `stopReq` requests on their way; `hook` the tries the webhook has left. `pc[k][r]` is the
step of handler `k` of recording `r`; its steps are named after what comes next (`unlock` is before
the GET of `releaseLock`, `del` between GET and DEL).

* `StartAcquire` … `StartConfirm` are `startRecording` cut at its awaits; `StartAccepted`,
  `StartRefused` and `StartTimesOut` are the three ends of the request to the SFU, which
  `SfuRegister` or `SfuRefuse` serves independently, also after the timeout.
* `RequestStop`, `StopReturns`, `StopFails` and `StopFindsNothing` are `requestStop`: the SFU answers when
  the files are closed, or at once when it has no live capture, one that is closing included.
* `Claim` is the transaction of `applyCaptureEnded`; `HookClaim` and `RecoverClaim` are its two
  callers. `EnqueueFinalize`, `MarkFailed` and `Release…` are the rest, an await each.
* `Recover…` are the three parts of `recoverStaleRecordings`. Times are abstracted to
  `ThresholdPassed`: with `StallsHappen` a handler may outlive the thresholds.
* `SfuCrash`, `Crash`, `LockExpires`, `…Throws` are the failures. `MaxFaults` bounds crashes and
  Redis errors.

`RecordingPromise` is what remains of all that for the host: four facts of a recording (its status, how far
the start request got, its capture, whether its footage is on record) and the moves that may be made.
The status goes forward, back only when a stop fails; PROCESSING and FAILED are set for a capture
that ended with and without footage; READY only when the footage is on record; and a verdict is left by
one step only, the end of the start request, `Confirm` or `GiveUp`, which comes at most once (the finding
`recording_resurrect` is the first, section 5 has the second). The mapping (`Promise`) reads the start request off the step of the
start handler (`StartView`) and the capture off the SFU and the volume (`CaptureView`).

### FinalizePipeline

Several workers, one recording. `row`, `seg`, `why`, `raw`, `temp`, `final` are the rows and the
files; `job`, `owner`, `made`, `stalled` what BullMQ knows of the job; `pc[w]`, `at[w]`,
`known[w]`, `again[w]`, `fd[w]` a run of `finalizeRecording`. A run keeps what it read when it began
(`LoadSegments`) and goes on when its job's lock lapses (`Stall`), next to the run that takes the job
over. `StartConversion`, `Rename`, `ConvertFails`, `SaveReady`, `SaveFailed` are `convertSegment` and
the loop around it, `Settle` STEP 4-5, `Return` and `Throw…` what the worker's events make of it.
A temporary file that two ffmpeg write at a time is `"torn"`. `act[h]` is where the requeue command,
recovery, DELETE and the cleanup stand, with the same cuts.

### SegmentLog and SegmentCapture

`SegmentLog` says what recording-service relies on: segments open with tracks no open segment has,
close, and are listed once by a manifest that comes last. `SegmentCapture` is
`recordingManager.ts` with `segmentRecorder.ts` and `ports.ts`: `queue` is `rec.queue`, the task at
its head runs and `step` says at which await it is; `timer`, `active`, `crashes`, `finished` are the
fields of `ActiveRecording`. Producers open and close and ffmpeg dies at any of the awaits. `End`,
`Finish` are `endSegment`; `Begin`, `TakePort`, `Spawn`, `BootCheck`, `Resumed` and `SetupFails` are
`startSegment` and its catch blocks. The refinement mapping (`Log`) calls a segment open while it is
in the map or being closed, and `phase = "ended"` the sealed log.

### CallRoom

`room`, `uses` are `socket.data`; `members` the Redis sets; `join`, `caps`, `trans` and `leave` where
a socket's join and its three kinds of requests to the SFU stand; `peers`, `wired`, `router` the SFU's
maps. `JoinAdd` and `JoinEnter` are the two sides of the `sadd` in `joinRoom.ts`. `CleanUp` is
`cleanUp`: the flags are cleared before its first await, so leaving twice is harmless, and `srem`
(which may fail) is the next command on the connection. A router is a promise: `ServeTransport`
waits on a pending one, `RouterReady` lets all waiters go on at once, and one whose room was
closed meanwhile still registers its peer (`StaleRouterArrives`). `FinishLeave` is the second look
at the peer count after `notifyPeerLeft`. `raced` is a history variable: the sockets that left in
the middle of a call of their own, joined twice, or whose clean-up lost a Redis or SFU request.

### ClientCall

`thread["join"]` and `thread["rejoin"]` are the two functions that run `startMedia`, cut at their
awaits (`Awaits`); every `consumeOne` is a task of its own in `tasks`. `inbox` is what signaling has
sent on the connection, in order; `Drop` loses it with the requests under way, which then time out.
`mediaReady`, `pending`, `consuming`, `remote` are the fields of the session, `tiles` the tracks of
the store. `Publish`, `StopShare`, `PeerLeaves` and their announcements are the others. `excused` is
a history variable: producers the server refused once, and everything after a rejoin gave up.

### MeetingChat

`active`, `ending`, `roomBus` are `endRoomController` and the `room-events` channel; `at[c]` where a
client's join stands (checked by room-service, admitted, in the Socket.io room). `Say` relays at once
and publishes on `chatBus`; `ChatArrives` stamps, `Persist` stores, and inserts overtake each other,
as the subscriber does not wait for them. The stamp is `Date.now` in milliseconds (`DateNow`): the clock
stands or goes on between two messages, so two of them may have one stamp. `ServeHistory` reads the
collection sorted by `createdAt` alone, equal stamps in any order, also when only one of them is within
`Limit`; `HearHistory` is `setMessages`. `excused` and `deaf` are history variables that name
exactly the losses of Redis and of a connection that is away.

### AccountSession

`row` are the refresh-token rows, `cookie` and `stored` what the tabs share, `status`, `me`,
`access` what each keeps. `call[t][k]` is a request through `api`: `HearDenied` is the interceptor's
401 branch, `refresh[t]` the single-flight promise, `HearRefreshed` replays everybody who waits.
`SocketAuth` is `getValidAccessToken`. An access token expires at any moment (`Deny`), except that a
replayed request was just given one.

### NotificationEmail

One room with a set of invitations and a set of reminders; a key is a `jobId`. `req`, `todo`, `cur`
are the invite requests in progress, `status` the rows, `job`, `tries`, `work` the BullMQ job and
the worker's place in `processEmailJob`, `mails` what really went out, `cancel`, `snap`, `togo` the
cancellation of `room-ended`. `FindRow`, `CreateRow` and `AddJob` are the awaits of
`createAndEnqueue`; `Load`, `Send` and `RecordSent` those of the worker. `Crash` restarts the
service: BullMQ gives an active job back, or fails it when it had stalled before.

### RecordingPanel

Several recordings of a room, one at a time or one beginning while the last is finalized. `row`, `lock`,
`capturing`, `ended`, `job` are what services write before they publish; `channel` is the Redis channel
`recording-events`, which several handlers append to; `room[b]`, `held[b]` and `inbox[b]` are where the
join of a browser stands, what it read of the lock and what its socket has still to deliver; `badge`,
`badgeOf` the store. The last setter wins (`SetRecording`), so every order of events, `joined` message and
REST answer counts. `astray` is a history variable and names the six ways a badge is left wrong: a lost
event, a publication that failed, a `joined` message read before and sent after the end, an answer after
the verdict, a start that failed after a joiner read the lock, a `recording-started` published last.

## 3. Runs

| run | instance | what it shows |
|---|---|---|
| `recording` | 1 recording, 2 webhook tries, 2 faults, stalls | `ReadyIsBacked`, `ConfirmedWasCaptured`, `NoLeakedLock`, `PromiseIsKept` (the refinement), `NeverStuck` |
| `finalize` | 2 workers, 1 segment, 3 attempts, 1 mishap | `ReadyIsPlayable`, `FootageKept`, `VerdictOnce`, `FailedIsLast`, `NothingLeftBehind`, `Settles` |
| `segments` | a camera and a microphone, 2 ports that other rooms may hold, 6 segments, 1 failure, 2 crashes allowed | `PortsBalance`, `SyncedWhenQuiet`, `LogIsKept` (the refinement), `StopEnds`, `TracksAreRecorded` |
| `call` | 2 sockets, 1 room | `MembersMatch`, `PeersAccounted`, `RouterUnderPeers`, `RoomsDrain` |
| `client` | another peer with a camera, 1 lost connection, 1 refusal | `NothingMissed`, `NoGhostOfLeaver`, `TilesAreRemovable`, `OneOfMe`, `JoinSettles` |
| `meeting` | 2 clients, 3 messages, a history of 2, 1 end, 1 loss | `NobodyStaysBehind`, `PanelIsComplete`, `PanelInOrder` |
| `account` | 1 tab, 2 users who log in, 1 lost request | `LogoutRevokes`, `OnlyTheSessionEnds`, `CallsSettle` |
| `email` | 1 invitation, 1 reminder, 2 requests, 2 tries, 1 fault | `OneEmailEach`, `NoStrandedRow`, `CancelledWasNotSent`, `FailedUsedAllTries`, `RowsSettle` |
| `panel` | 2 recordings, the host's browser, 1 lost connection or publication | `NoBadgeSticks`, `VerdictIsLast` |

The runs `call` and `client` also check the `TypeOK` of their modules; the theorems `TypeCorrect` (in
`NotificationEmail`, `EmailTypeCorrect`) prove the type invariant of every module. Three more runs are counterexamples: a document or a comment says one thing, TLC shows the code doing another.
`PROJECT.json` ("findings") quotes both sides.

| run | what happens |
|---|---|
| `recording_resurrect` | the start handler sets RECORDING on a row the webhook has moved to PROCESSING |
| `call_leftover` | a peer is registered after its `/peers/leave` was served |
| `client_zombie` | the page is left while `join()` awaits the REST call, and `join()` enters the meeting afterwards |

### Bounds, and why they are enough

* *Recordings*: one shows all interleavings of a recording's own handlers; the proofs cover any
  number that compete for the lock and the capture of a room.
* *Webhook tries*: a try that fails changes nothing but the count, so two stand for four.
* *Faults*: a property that assumes none (`faults = 0`) is checked with faults enabled, so that the
  bound does not hide them; two let a crash hit the recovery from the first.
* *Finalization*: two workers are the stalled run and the one that takes over. Segments meet in the
  counters of one run only (`known`, `again`); two segments with two workers are too many states for
  `Settles`, so that a segment which fails beside a READY one is covered by the proofs alone, which hold for
  any number of segments, workers, attempts and mishaps.
* *Segments*: two producers make one segment change its tracks; two ports, some of which other rooms may
  hold, make the pool empty in the middle of a segment (which of them does not matter: the constraint
  `LowPortsTaken`); a peer joins once, and no behaviour begins more than five segments, so that the bound of
  six cuts nothing off. Three producers are too many states; the proofs
  cover any number of peers, producers, ports and segments.
* *Sockets*: the last one leaving and another one coming is the whole of the hazard; the proofs cover
  any number of sockets and rooms.
* *Client*: `MaxDrops = 1` gives two connections and two `SfuClient`s, so an answer can meet the
  wrong one; a second drop would meet the same code.
* *Meeting*: three messages with a limit of two let the history overflow, and two of them, or all, may be of one
  millisecond; the proofs cover any.
* *Account*: one tab is enough for two users to overtake each other. Each login is submitted once;
  the proofs cover any number of tabs, which share the cookie and the stored key.
* *Email*: two requests are needed for the race between `findUnique` and `create`, two tries for
  "not the last".
* *Panel*: one browser, the host's, gets every event, message and answer; the others hear the same events
  and read no answers. Two recordings let the end of one meet the start of the next. The constraint
  `SomebodyFollows` stops where every browser is astray: `astray` only grows and neither property speaks
  of those in it, so nothing is left to check there.
* *One open request of a kind* per socket and room in `CallRoom`, one stop in progress per
  recording, one `leave` of a peer in the queue of `SegmentCapture`: named in the comments of the
  guards.

Symmetry is used for sets of sockets and clients in runs without a temporal property. Deadlock is
not checked where everything may stop by design: all recordings are over, everybody has left.

### Fairness, and why the code justifies it

Liveness is stated as `[]<>P`, "again and again P": what is to end, ends, whenever it begins.

* `RecordingLifecycle`: handlers that started go on (Node runs their continuations), the SFU serves
  what arrives, and the timers behind recovery and the queues fire again and again. The SFU may be
  unreachable at any call but not forever (strong fairness of `SfuStop` and of the recovery's
  question). Nothing obliges anybody to start, leave, crash or time out.
* `FinalizePipeline`: workers take jobs and finish what they do, BullMQ's checker notices the lock of
  a dead run, recovery runs every five minutes, hours go by. Nobody has to use the requeue command.
* `SegmentCapture`: the task at the head goes on, timers fire, and a process that was sent SIGINT, and
  SIGKILL ten seconds later, is gone at some point.
* `ClientCall`: requests are answered or time out after 10 s, the inbox is read, a lost connection
  comes back. The user has to do nothing.
* `AccountSession`: requests are answered or fail, and answers are heard.
* `NotificationEmail`: requests, the cancellation and the worker go on, and time passes.
* `CallRoom` and `MeetingChat` state none: `RoomsDrain` and `NobodyStaysBehind` are invariants, that
  somebody is still responsible, or the announcement on its way.

## 4. Proofs

Every invariant and every action property that a passing run checks, and both refinements, are proved for
every value of the constants, in eight proof modules. Assumptions: a
"none" value is not one of its set, functions between constants have their types, bounds are natural
numbers, and in `SegmentCapture` the peers are finitely many (`...Assumption`, where the constants are
declared).

* `RecordingLifecycle_proofs`. `CaptureBacksRows` needs `Evidence`: what a handler carries across
  an await (an accepted call, a manifest it read, a webhook that is pending) was true when it was
  taken and stays true. `LockIsNotLeaked` needs that a handler in `fail` has let go of the lock,
  and that recovery handles one recording at a time. `PromiseIsKeptAlways` is the refinement. It adds
  `RowInv` (before the row is inserted no other handler and no job works on the recording, so that nobody
  but `Ask` moves a row that is "none"), and has one case per action: `Unseen` for the steps the host
  does not notice, `StartSeen` and `CaptureSeen` for what a step of the start handler or of the capture
  looks like, `ClaimSeen` for the claim that webhook and recovery share, where `Evidence` says that the
  capture is over and `media` which of the two ends it had. `VerdictIsLeftOnce` draws from it that only the
  last step of the start handler overwrites READY or FAILED.
* `FinalizePipeline_proofs`. `PipelineInv` is nine parts: a run that keeps its lock is the only one
  (`Alone`), ffmpeg holds a temporary file only while it converts (`Writing`), nothing comes back to
  a directory that was purged (`Swept`), what the rows say is on the volume (`Media`, `Known`,
  `Kept`), and who is about to mark the row FAILED found the job over (`Judged`, `Over`). From them
  `ReadyCanBePlayed`, `NoFootageIsLost`, `OneVerdict`, `FailedComesLast`, `DeleteIsComplete`.
* `SegmentCapture_proofs`. Five parts: the tasks of a peer come before the one that stops the
  recording (`QueueInv`), what a task read is of its own peer (`SnapInv`), a segment that is starting
  or closing is the running task's and an active one is the map's (`SegInv`), what a segment in each
  state holds (`HoldInv`), and the pool of ports (`PortInv`). `PortsBalanceAlways` follows, and so does
  the refinement, `LogIsKeptAlways`: `Resumed` is `Open` (the map has no other segment for the key, and
  tracks of different keys differ), `Ended` and `EndedOne` are `Close`, `BuildManifest` is `Seal`, every
  other step is a stutter. `SyncedWhenQuietAlways` needs three more parts. A segment is set up for what
  the task read (`FreshInv`). An ffmpeg that died under an active segment is known to a task still to
  come (`DeadInv`), so that a task that finds the tracks unchanged may leave a dead segment alone. And
  when neither a timer nor a queued task is left for a peer (`SyncInv`), the running task read what the
  peer sends now and has put the sources before its own in order, or, if the peer has no running task,
  all of them are. Each step of a task is then of one of four forms (`TaskForms`): it has not read yet,
  it reads, it goes on with its source, or it is done with it and its key is in order.
* `CallRoom_proofs`. `CallInv` adds to the properties that a join in progress is for a room the
  socket is not in (`JoinInv`), that a call in flight belongs to a socket that is in the room and
  marked (`CallerInv`), and that a transport being created for a peer has a router (`CreatingInv`).
* `ClientCall_proofs`. `Inv` is twelve parts, one lemma per action. What the threads of `join()` and
  `rejoin()` may be doing on which connection (`ConnInv`, `ThreadInv`), what signaling has still to
  deliver (`MsgInv`), which of the two threads may produce the microphone (`ClaimInv`, `EnterInv`), what
  tiles and consumes under way say of the session's maps (`TileInv`, `TaskInv`), and what the browser
  knows of the others once its media are ready (`ReadyInv`, `KnownInv`). `TilesAreRemovableAlways` and
  `OneOfMeAlways` are parts of it. `NothingMissedAlways` follows from `CoverInv` (each producer of the
  others is shown, stopped, being consumed, waiting, announced in the inbox, or still to be listed by a
  thread that has not listed yet), `NoGhostOfLeaverAlways` from `GhostInv` (a tile of somebody who left,
  and an answer that will make one, has his leave behind it in the inbox, or still to be sent). The proof found an ambiguous `CASE` in
  `Throw` of an earlier version of the module.
* `MeetingChat_proofs`. `NobodyStaysBehindAlways` from `EndInv` (an announcement that is owed is in a
  handler, on the channel or on the socket). `PanelIsCompleteAlways` and `PanelInOrderAlways` from
  `StampInv` (in the order of the relay stamps never fall, though they may be equal, however inserts
  overtake), `PanelInv` (each client's live messages and inbox are in the order of the relay, and nothing
  between is lost) and, for the order, `DatedInv` (a history, read or on its way, is sorted but for
  messages of one millisecond, and what it holds has its stamp).
* `AccountSession_proofs`. `LogoutRevokesAlways` and `OnlyTheSessionEndsAlways` are action properties,
  from `FormInv` (two tabs never submit one login), `RowInv` (no session comes back) and `AskInv` (a
  request is denied once; logout, and the refresh it waits for, carry the cookie that is to be left).
* `Notices_proofs`, about `RecordingPanel`. `VerdictsStand` (`VerdictIsLast`) and `BadgesSettle`
  (`NoBadgeSticks`). A badge shows what was heard last, so neither property is inductive: what decides is
  what a browser has still to hear, `Future(b)`, the queue of its socket followed by the channel.
  `FollowInv` says of every browser outside `astray` that its future names the verdict last of each
  recording that is over and that it speaks of, and no verdict of another (`Closed`), and that its badge
  is "ready" exactly when its recording is over and not spoken of any more (`Shows`). It rests on
  `BaseInv`: nobody speaks of a recording that has not begun (`BegunInv`); the SFU, the webhook and the
  finalize job have a recording one after the other (`StageInv`); while a start may still fail, no event
  of it is published (`QuietInv`); a badge that shows something has a recording, and a socket that is out
  has nothing to deliver (`StoreInv`). Lemmas on joining, popping and lengthening a queue carry `Closed`
  through every step; `NothingLeft` and `VerdictKept` draw the two properties from it.
* `Notices_proofs`, about `NotificationEmail`. `FailedIsLast` uses `TriesInv` (a job that may still run has
  tries left, a final failure has none). `EmailOnlyOnce`, `NoRowIsStranded` and `CancelledIsTrue` add
  `CleanInv`: without faults, the worker at its third step has just sent the one email of its row, and
  a PENDING row has somebody working on it.

Only model-checked: liveness (`NeverStuck`, `Settles`, `StopEnds`, `TracksAreRecorded`, `JoinSettles`,
`CallsSettle`, `RowsSettle`), which is out of the prover's reach; and the
counterexamples, which are facts about single behaviours.

## 5. Divergences met while modelling and not turned into a run

### Recording

* `recording-service/src/config/redis.ts:31-32`: `releaseLock` is GET then DEL; a DEL that is late by
  one release and one start takes the lock of the new recording.
* `recording-service/src/controllers/recordingController.ts`: a start that times out after 5 s is
  served by the SFU all the same, which then captures for a row that is FAILED.
* `recording-service/src/controllers/recordingController.ts:57-60`: a start that was given up marks its row
  by id alone; when the capture ran and ended meanwhile, a READY recording becomes FAILED.
* `sfu-service`: the stop is keyed by room, so a stop that is late ends the next recording.
* `recording-service/src/maintenance/recovery.ts:84-94`: the SFU answers "inactive" from the moment
  it begins to close the files, so recovery can fail a recording whose manifest is seconds away.
* `recording-service/src/services/captureEnded.ts:52-77`: after the resurrected row of section 3, a
  repeated webhook claims again and inserts the segments a second time.
* `recording-service/src/queue/autoStop.ts:23-29`: the comment on the processor says BullMQ retries a
  failing stop, and the job is added without `attempts`, so it runs once; recovery is what remains.
* `recording-service/src/processing/finalizeRecording.ts:243`: a segment that failed for a retryable
  reason is not retried when another one is READY, where the comment on `@throws` (lines 183-184)
  promises a plain Error "when a retry might help".
* `FinalizePipeline` with `lapses > 0` (a run outlives its job's lock): two ffmpeg write one temporary
  file and the torn file is renamed; the slower run may set a READY segment to FAILED, so a recording
  can be READY without any READY segment. This is what the guard `lapses = 0` in `ReadyIsPlayable`
  and `FootageKept` leaves out.
* `recording-service/src/tools/requeueFinalize.ts:27-33`: the status is read before and written
  unconditionally, so a row that became READY meanwhile is PROCESSING again, and its verdict is
  published twice.
* `sfu-service/src/recording/recordingManager.ts:150-158`: the exit of an ffmpeg queues a task for its
  key, not for its segment, so it may close a newer segment whose ffmpeg lives; the sync behind it
  opens another one.
* `sfu-service/src/recording/recordingManager.ts:152`: an ffmpeg that dies between its spawn and the entry
  of its segment into `active` is ignored by `onUnexpectedExit`; the check after 800 ms
  (`segmentRecorder.ts:163`) sees an exit code, but not a death by signal or one that comes after it, and
  what it sees is only logged. Until the peer's producers change, the track is not recorded, where the
  comment at `recordingManager.ts:151` says "Close this segment and let sync start a fresh one" (`gaveUp`
  in `SegmentCapture`).
* The badge (`RecordingPanel`, the exceptions in `astray`): `callStore.ts:70` sets whatever comes last, so
  the verdict of an earlier recording overwrites the badge of the one that runs, and the Stop button
  disappears; the host's answer to "stop" may come after the verdict, and the panel is left on
  "processing" and polls forever (`RecordingPanel.tsx:38-39`, where the example at
  `src/FRONTEND/docs/Phase_F_frontend_guide.md:2905` goes from "Processing…" to "Play appears"); a start that fails after somebody who joined has read the lock
  publishes nothing, and his badge stays on "recording" (`recordingController.ts:55-63`); the lock of a
  joiner may be sent after the events that ended the recording (`joinRoom.ts:54-62`);
  `recording-started` may be published after `recording-stopped` and even the verdict
  (`recordingController.ts:66-75`); and a rejoin never clears a badge (`CallSession.ts:113-127`).

### Calls

* `signaling-service/src/handlers/joinRoom.ts:14` says "Check the room exists and is active";
  `getActiveRoom` (`config/roomServiceClient.ts:9-15`) asks for the room and never looks at `isActive`.
  `joinRoomController.ts:37-43` does, one await before it adds the participant, so who was checked
  before the end may enter after its announcement (`deaf` in `MeetingChat`).
* `signaling-service/src/handlers/sfu.ts:113-118`: `close-producer` only tells the room; nothing asks the
  SFU to close the producer, where `sfu-service/src/mediasoup/producerManager.ts` (STEP 5) describes its
  close. A screen that is no longer shared is recorded until its transport closes.
* `sfu-service/src/mediasoup/transportManager.ts:16-22`: a peer's one transport of each direction is
  checked before the `await` that creates it.
* `src/FRONTEND/web/src/call/CallSession.ts:233-235`: `producer-closed` of a producer whose `consume`
  is under way finds nothing in `remote` and is forgotten; its tile appears afterwards and stays
  (why `NoGhostOfLeaver` speaks of those who left, and `NothingMissed` allows `stopped`).
* `CallSession.ts:78-107` and `269-292`: a `join()` whose `enterSignalingRoom` is waiting when the
  connection drops runs beside `rejoin()`; when the rejoin fails, the join may still end "joined"
  without media. `rejoin()` keeps `peers`, whose keys may be socket ids, so somebody may be there
  twice after it. A room that ends during the join ends it as an error. After a failed join the page
  shows the lobby while the session of an earlier click lives. Two joins that overlap do not see each
  other in `existingMembers`.
* `chat-service/src/controllers/getMessagesController.ts:11-13` sorts ascending and then limits: the
  history is the OLDEST 50 messages, where `src/FRONTEND/docs/Phase_F_frontend_guide.md:2799` says "loads
  the last 50 messages" and `src/FRONTEND/web/src/api/chat.ts:8` "fetch the latest messages".
* `chat-service/src/models/ChatMessage.ts:16`: `createdAt` is `Date.now`, in milliseconds;
  `chatMessageSubscriber.ts:35` does not wait for an insert before the next one, and
  `getMessagesController.ts:11-13` sorts by `createdAt` alone. Two messages of one millisecond may be read
  back in the wrong order, and at the limit either may be the one that is cut, where
  `ChatMessage.ts:19-20` says "oldest to newest". This is what `PanelInOrder` leaves out.
* `signaling-service/src/handlers/joinRoom.ts:50-52`: a socket that disconnects during one of the awaits
  of its join has no `roomCode` yet, so `leaveRoom.ts:31-36` finds nothing to clean; the join then goes on to add it
  to the Redis set, where it stays (`raced` in `CallRoom`).
* `callStore.ts:114-122`: neither live messages nor the history (`_id`) carry an `id`, so a message
  between join and history is on the panel twice. What is said while the socket is away, or is not
  stored yet when the history is read, is never shown (`excused` in `MeetingChat`).

### Accounts

* `src/FRONTEND/web/src/lib/apiClient.ts:62`: a refresh that ends after "Sign out" stores an access
  token in a tab that says anonymous; a refresh started for one user and finished after the login of
  another makes a tab show one and act as the other, where `AuthContext.tsx:4` is the "Single source
  of truth".
* `apiClient.ts:87-97`: the failure of a refresh that was started for an earlier session signs out the
  one that was begun by a login meanwhile; `OnlyTheSessionEnds` speaks of the session the refresh was
  sent with.
* `apiClient.ts:94-97`: any failure of a refresh signs the tab out, a 500 and a lost connection too.
  `AuthContext.tsx:42-45`: so does any failure of the first `getMe`.
* `src/FRONTEND/web/src/api/auth.ts:22`: the failure of logout is swallowed; the row and the cookie
  live on. A `clearCookie` that arrives after the next login takes that one's cookie. A second login
  leaves the row of the first. `AuthContext.tsx:59-62`: a login whose `getMe` fails leaves tokens in an
  anonymous tab.
* `auth-service/README.md:33` describes a mismatch of the logout path that the code no longer has.

### Notifications

* `notification-service/src/queue/emailWorker.ts:55-60`: the email is out before the row says so; when
  the update fails, the retry sends it again.
* `notification-service/src/controllers/inviteController.ts:25-36`: the room is read, and the reminders
  are created later; those created after the end of the room was handled are sent.
* `emailWorker.ts:57`: the update is by id alone, so a reminder cancelled during the sending goes from
  CANCELLED to SENT, which is then the truth.
* `notification-service/src/services/notificationService.ts:50-69`: after a crash between the insert
  and the enqueue, the row stays PENDING and a repeated invite skips it.

## 6. Not modelled, and why

* *Generated code* (`generated/prisma` of five services) and the copies of the logger, metrics and
  tracing set-up in each service: no behaviour of the system's own. They are the larger part of the
  lines no definition is mapped to.
* *User service* and signup: one row per user, upserted from the `user-created` event and by its
  owner; no two steps of it interact. When the event cannot be published, signup answers 500 and a
  second attempt 409, with the account there.
* *The gateway's rate limiters and proxies, TURN credentials, templates, validation of input,
  rendering, metrics*: pure I/O or data without control. A request that a limiter refuses is one of
  the failing requests of `AccountSession`.
* *mediasoup and ffmpeg themselves*; in `CallRoom` also connect, produce and consume, which need the
  transport they are asked for and change no map of peers or routers.
* *Peer-to-peer mode* of signaling: a relay; the key `room:<code>:mode` is set once per room.
* *The 60 s de-duplication* of recording events in signaling, thumbnails, the disk guard, and the
  streaming of files.

## 7. Plan

1. `FinalizePipeline` against `RecordingPromise`: it starts where `Apply` has been, and adds two moves that
   are not promised, the operator's requeue and DELETE.
2. Producers and consumers in `CallRoom`, and a composition with `ClientCall` in which several
   browsers are peers of each other.
