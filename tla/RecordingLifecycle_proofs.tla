---------------------- MODULE RecordingLifecycle_proofs ----------------------
(***************************************************************************)
(* Safety of RecordingLifecycle for any set of recordings, any number of   *)
(* faults and webhook tries, with and without stalls, and that it          *)
(* implements RecordingPromise.                                            *)
(***************************************************************************)
EXTENDS RecordingLifecycle, TLAPS

USE DEF rowVars, sfuVars, Goto, At, SetRow, Fault, Answer, Live, Handlers,
        Senders, Status, Terminal, Claimable

LEMMA TypeInit == Init => TypeOK
  BY BoundsAssumption DEF Init, TypeOK, Steps

LEMMA TypeNext == TypeOK /\ [Next]_vars => TypeOK'
<1> SUFFICES ASSUME TypeOK, [Next]_vars PROVE TypeOK'
  OBVIOUS
<1> USE BoundsAssumption DEF TypeOK, Steps
<1>1. ASSUME NEW r \in Recs, StartStep(r) PROVE TypeOK'
  <2>1. CASE StartAcquire(r)
    BY <2>1 DEF StartAcquire
  <2>2. CASE StartCreate(r)
    BY <2>2 DEF StartCreate
  <2>3. CASE StartCreateThrows(r)
    BY <2>3 DEF StartCreateThrows
  <2>4. CASE StartAccepted(r)
    BY <2>4 DEF StartAccepted
  <2>5. CASE StartRefused(r)
    BY <2>5 DEF StartRefused
  <2>6. CASE StartTimesOut(r)
    BY <2>6 DEF StartTimesOut
  <2>7. CASE StartMarkFailed(r)
    BY <2>7 DEF StartMarkFailed
  <2>8. CASE StartConfirm(r)
    BY <2>8 DEF StartConfirm
  <2> QED
    BY <1>1, <2>1, <2>2, <2>3, <2>4, <2>5, <2>6, <2>7, <2>8 DEF StartStep
<1>2. ASSUME NEW r \in Recs, StopStep(r) PROVE TypeOK'
  <2>1. CASE RequestStop(r)
    BY <2>1 DEF RequestStop
  <2>2. CASE StopReturns(r)
    BY <2>2 DEF StopReturns
  <2>3. CASE StopFails(r)
    BY <2>3 DEF StopFails
  <2>4. CASE StopFindsNothing(r)
    BY <2>4 DEF StopFindsNothing
  <2> QED
    BY <1>2, <2>1, <2>2, <2>3, <2>4 DEF StopStep
<1>3. ASSUME NEW r \in Recs, SfuStep(r) PROVE TypeOK'
  <2>1. CASE SfuRegister(r)
    BY <2>1 DEF SfuRegister
  <2>2. CASE SfuRefuse(r)
    BY <2>2 DEF SfuRefuse
  <2>3. CASE SfuRoomEmpty(r)
    BY <2>3 DEF SfuRoomEmpty
  <2>4. CASE SfuClosed(r)
    BY <2>4 DEF SfuClosed
  <2>5. ASSUME NEW s \in Senders, SfuStop(r, s) PROVE TypeOK'
    BY <2>5 DEF SfuStop
  <2> QED
    BY <1>3, <2>1, <2>2, <2>3, <2>4, <2>5 DEF SfuStep
<1>4. ASSUME NEW r \in Recs, HookStep(r) PROVE TypeOK'
  <2>1. CASE HookClaim(r)
    BY <2>1 DEF HookClaim, Claim
  <2>2. CASE HookDuplicate(r)
    BY <2>2 DEF HookDuplicate
  <2>3. CASE HookFails(r)
    BY <2>3 DEF HookFails
  <2> QED
    BY <1>4, <2>1, <2>2, <2>3 DEF HookStep
<1>5. ASSUME NEW r \in Recs, ReleaseStep(r) PROVE TypeOK'
  <2>1. ASSUME NEW k \in Handlers, ReleaseGet(k, r) PROVE TypeOK'
    BY <2>1 DEF ReleaseGet, AfterRelease
  <2>2. ASSUME NEW k \in Handlers, ReleaseDel(k, r) PROVE TypeOK'
    BY <2>2 DEF ReleaseDel, AfterRelease
  <2>3. ASSUME NEW k \in Handlers, ReleaseThrows(k, r) PROVE TypeOK'
    BY <2>3 DEF ReleaseThrows
  <2> QED
    BY <1>5, <2>1, <2>2, <2>3 DEF ReleaseStep
<1>6. ASSUME NEW r \in Recs, RecoverStep(r) PROVE TypeOK'
  <2>1. CASE RecoverStarting(r)
    BY <2>1 DEF RecoverStarting
  <2>2. CASE RecoverCapturing(r)
    BY <2>2 DEF RecoverCapturing
  <2>3. CASE RecoverUnreachable(r)
    BY <2>3 DEF RecoverUnreachable
  <2>4. CASE RecoverStillLive(r)
    BY <2>4 DEF RecoverStillLive
  <2>5. CASE RecoverNotLive(r)
    BY <2>5 DEF RecoverNotLive
  <2>6. CASE RecoverReadManifest(r)
    BY <2>6 DEF RecoverReadManifest
  <2>7. CASE RecoverClaim(r)
    BY <2>7 DEF RecoverClaim, Claim
  <2>8. CASE RecoverDuplicate(r)
    BY <2>8 DEF RecoverDuplicate
  <2>9. CASE RecoverProcessing(r)
    BY <2>9 DEF RecoverProcessing
  <2> QED
    BY <1>6, <2>1, <2>2, <2>3, <2>4, <2>5, <2>6, <2>7, <2>8, <2>9 DEF RecoverStep
<1>7. ASSUME NEW r \in Recs, FinalizeStep(r) PROVE TypeOK'
  <2>1. CASE FinalizeBegin(r)
    BY <2>1 DEF FinalizeBegin
  <2>2. CASE FinalizeAlreadyReady(r)
    BY <2>2 DEF FinalizeAlreadyReady
  <2>3. CASE FinalizeFails(r)
    BY <2>3 DEF FinalizeFails
  <2>4. CASE FinalizeReady(r)
    BY <2>4 DEF FinalizeReady
  <2>5. CASE FinalizeReturns(r)
    BY <2>5 DEF FinalizeReturns
  <2> QED
    BY <1>7, <2>1, <2>2, <2>3, <2>4, <2>5 DEF FinalizeStep
<1>8. ASSUME NEW r \in Recs, TailStep(r) PROVE TypeOK'
  <2>1. ASSUME NEW k \in Handlers, EnqueueFinalize(k, r) PROVE TypeOK'
    BY <2>1 DEF EnqueueFinalize
  <2>2. ASSUME NEW k \in Handlers, MarkFailed(k, r) PROVE TypeOK'
    <3>1. CASE row[r] \notin Terminal
      <4>1. row' \in [Recs -> Status \cup {"none"}]
        BY <2>2, <3>1 DEF MarkFailed
      <4>2. pc' = [pc EXCEPT ![k][r] = "unlock"]
        BY <2>2, <3>1 DEF MarkFailed
      <4>3. pc' \in [Handlers -> [Recs -> Steps]]
        BY <4>2
      <4>4. UNCHANGED <<segs, lock, call, stopReq, sfuVars, hook, job, faults>>
        BY <2>2 DEF MarkFailed
      <4> QED
        BY <4>1, <4>3, <4>4
    <3>2. CASE row[r] \in Terminal
      BY <2>2, <3>2 DEF MarkFailed
    <3> QED
      BY <3>1, <3>2
  <2> QED
    BY <1>8, <2>1, <2>2 DEF TailStep
<1>9. CASE LockExpires
  BY <1>9 DEF LockExpires
<1>10. CASE SfuCrash
  BY <1>10 DEF SfuCrash
<1>11. CASE Crash
  BY <1>11 DEF Crash
<1>12. CASE UNCHANGED vars
  BY <1>12 DEF vars
<1> QED
  BY <1>1, <1>2, <1>3, <1>4, <1>5, <1>6,
     <1>7, <1>8, <1>9, <1>10, <1>11, <1>12 DEF Next

\* Every reachable state has the declared shape: no handler leaves its steps and
\* no status, webhook or fault counter its range.
THEOREM TypeCorrect == Spec => []TypeOK
<1>1. Init => TypeOK
  BY TypeInit
<1>2. TypeOK /\ [Next]_vars => TypeOK'
  BY TypeNext
<1> QED
  BY <1>1, <1>2, PTL DEF Spec

-----------------------------------------------------------------------------
(* ReadyIsBacked and ConfirmedWasCaptured.  Their strengthening follows the *)
(* evidence of a capture from the SFU to the row: an accepted start request  *)
(* and a confirming handler imply a capture; a webhook that may still be     *)
(* tried, a manifest, and a recovery about to apply it imply a closed one.   *)
(* The request reaches the SFU once: until then there is no capture.         *)

Evidence ==
    \A r \in Recs :
        /\ pc["start"][r] \in {"idle", "create"} => cap[r] = "none" /\ call[r] = "none"
        /\ call[r] = "sent" => cap[r] = "none"
        /\ call[r] = "ok" \/ At("start", r, "confirm") => cap[r] # "none"
        /\ hook[r] > 0 \/ manifest[r] \/ At("recover", r, "apply") => cap[r] = "closed"

CaptureInv == TypeOK /\ ReadyIsBacked /\ ConfirmedWasCaptured /\ Evidence

LEMMA CaptureInit == Init => CaptureInv
  BY TypeInit DEF Init, CaptureInv, ReadyIsBacked, ConfirmedWasCaptured, Evidence

LEMMA CaptureNext == CaptureInv /\ [Next]_vars => CaptureInv'
<1> SUFFICES ASSUME CaptureInv, [Next]_vars PROVE CaptureInv'
  OBVIOUS
<1> DEFINE Facts == ReadyIsBacked /\ ConfirmedWasCaptured /\ Evidence
<1>t. TypeOK'
  BY TypeNext DEF CaptureInv
<1> SUFFICES Facts'
  BY <1>t DEF CaptureInv
<1> USE DEF CaptureInv, TypeOK, Steps, ReadyIsBacked, ConfirmedWasCaptured, Evidence
<1>1. ASSUME NEW r \in Recs, StartStep(r) PROVE Facts'
  <2>1. CASE StartAcquire(r)
    BY <2>1 DEF StartAcquire
  <2>2. CASE StartCreate(r)
    BY <2>2 DEF StartCreate
  <2>3. CASE StartCreateThrows(r)
    BY <2>3 DEF StartCreateThrows
  <2>4. CASE StartAccepted(r)
    BY <2>4 DEF StartAccepted
  <2>5. CASE StartRefused(r)
    BY <2>5 DEF StartRefused
  <2>6. CASE StartTimesOut(r)
    BY <2>6 DEF StartTimesOut
  <2>7. CASE StartMarkFailed(r)
    BY <2>7 DEF StartMarkFailed
  <2>8. CASE StartConfirm(r)
    BY <2>8 DEF StartConfirm
  <2> QED
    BY <1>1, <2>1, <2>2, <2>3, <2>4, <2>5, <2>6, <2>7, <2>8 DEF StartStep
<1>2. ASSUME NEW r \in Recs, StopStep(r) PROVE Facts'
  <2>1. CASE RequestStop(r)
    BY <2>1 DEF RequestStop
  <2>2. CASE StopReturns(r)
    BY <2>2 DEF StopReturns
  <2>3. CASE StopFails(r)
    BY <2>3 DEF StopFails
  <2>4. CASE StopFindsNothing(r)
    BY <2>4 DEF StopFindsNothing
  <2> QED
    BY <1>2, <2>1, <2>2, <2>3, <2>4 DEF StopStep
<1>3. ASSUME NEW r \in Recs, SfuStep(r) PROVE Facts'
  <2>1. CASE SfuRegister(r)
    BY <2>1 DEF SfuRegister
  <2>2. CASE SfuRefuse(r)
    BY <2>2 DEF SfuRefuse
  <2>3. CASE SfuRoomEmpty(r)
    BY <2>3 DEF SfuRoomEmpty
  <2>4. CASE SfuClosed(r)
    BY <2>4 DEF SfuClosed
  <2>5. ASSUME NEW s \in Senders, SfuStop(r, s) PROVE Facts'
    BY <2>5 DEF SfuStop
  <2> QED
    BY <1>3, <2>1, <2>2, <2>3, <2>4, <2>5 DEF SfuStep
<1>4. ASSUME NEW r \in Recs, HookStep(r) PROVE Facts'
  <2>1. CASE HookClaim(r)
    BY <2>1 DEF HookClaim, Claim
  <2>2. CASE HookDuplicate(r)
    BY <2>2 DEF HookDuplicate
  <2>3. CASE HookFails(r)
    BY <2>3 DEF HookFails
  <2> QED
    BY <1>4, <2>1, <2>2, <2>3 DEF HookStep
<1>5. ASSUME NEW r \in Recs, ReleaseStep(r) PROVE Facts'
  <2>1. ASSUME NEW k \in Handlers, ReleaseGet(k, r) PROVE Facts'
    BY <2>1 DEF ReleaseGet, AfterRelease
  <2>2. ASSUME NEW k \in Handlers, ReleaseDel(k, r) PROVE Facts'
    BY <2>2 DEF ReleaseDel, AfterRelease
  <2>3. ASSUME NEW k \in Handlers, ReleaseThrows(k, r) PROVE Facts'
    BY <2>3 DEF ReleaseThrows
  <2> QED
    BY <1>5, <2>1, <2>2, <2>3 DEF ReleaseStep
<1>6. ASSUME NEW r \in Recs, RecoverStep(r) PROVE Facts'
  <2>1. CASE RecoverStarting(r)
    BY <2>1 DEF RecoverStarting
  <2>2. CASE RecoverCapturing(r)
    BY <2>2 DEF RecoverCapturing
  <2>3. CASE RecoverUnreachable(r)
    BY <2>3 DEF RecoverUnreachable
  <2>4. CASE RecoverStillLive(r)
    BY <2>4 DEF RecoverStillLive
  <2>5. CASE RecoverNotLive(r)
    BY <2>5 DEF RecoverNotLive
  <2>6. CASE RecoverReadManifest(r)
    BY <2>6 DEF RecoverReadManifest
  <2>7. CASE RecoverClaim(r)
    BY <2>7 DEF RecoverClaim, Claim
  <2>8. CASE RecoverDuplicate(r)
    BY <2>8 DEF RecoverDuplicate
  <2>9. CASE RecoverProcessing(r)
    BY <2>9 DEF RecoverProcessing
  <2> QED
    BY <1>6, <2>1, <2>2, <2>3, <2>4, <2>5, <2>6, <2>7, <2>8, <2>9 DEF RecoverStep
<1>7. ASSUME NEW r \in Recs, FinalizeStep(r) PROVE Facts'
  <2>1. CASE FinalizeBegin(r)
    BY <2>1 DEF FinalizeBegin
  <2>2. CASE FinalizeAlreadyReady(r)
    BY <2>2 DEF FinalizeAlreadyReady
  <2>3. CASE FinalizeFails(r)
    BY <2>3 DEF FinalizeFails
  <2>4. CASE FinalizeReady(r)
    BY <2>4 DEF FinalizeReady
  <2>5. CASE FinalizeReturns(r)
    BY <2>5 DEF FinalizeReturns
  <2> QED
    BY <1>7, <2>1, <2>2, <2>3, <2>4, <2>5 DEF FinalizeStep
<1>8. ASSUME NEW r \in Recs, TailStep(r) PROVE Facts'
  <2>1. ASSUME NEW k \in Handlers, EnqueueFinalize(k, r) PROVE Facts'
    BY <2>1 DEF EnqueueFinalize
  <2>2. ASSUME NEW k \in Handlers, MarkFailed(k, r) PROVE Facts'
    BY <2>2 DEF MarkFailed
  <2> QED
    BY <1>8, <2>1, <2>2 DEF TailStep
<1>9. CASE LockExpires
  BY <1>9 DEF LockExpires
<1>10. CASE SfuCrash
  BY <1>10 DEF SfuCrash
<1>11. CASE Crash
  BY <1>11 DEF Crash
<1>12. CASE UNCHANGED vars
  BY <1>12 DEF vars
<1> QED
  BY <1>1, <1>2, <1>3, <1>4, <1>5, <1>6,
     <1>7, <1>8, <1>9, <1>10, <1>11, <1>12 DEF Next


\* applyCaptureEnded: nothing is offered for download that was not captured,
\* whatever stalls, crashes, lost webhooks and other recordings of the room do.
THEOREM CaptureBacksRows == Spec => []ReadyIsBacked
<1>1. CaptureInv => ReadyIsBacked
  BY DEF CaptureInv
<1> QED
  BY <1>1, CaptureInit, CaptureNext, PTL DEF Spec

\* startRecording: RECORDING is never shown for a recording the SFU refused.
THEOREM ConfirmationIsTrue == Spec => []ConfirmedWasCaptured
<1>1. CaptureInv => ConfirmedWasCaptured
  BY DEF CaptureInv
<1> QED
  BY <1>1, CaptureInit, CaptureNext, PTL DEF Spec

-----------------------------------------------------------------------------
(* NoLeakedLock.  The strengthening: a start handler that has released the   *)
(* lock and goes to mark its row FAILED does not hold it any more, and        *)
(* recovery, which works on one record at a time, does not begin to mark a   *)
(* row FAILED while it still unlocks for it.                                 *)

OneRecovery == \A r \in Recs : At("recover", r, "idle") \/ At("lost", r, "idle")

LockInv ==
    /\ TypeOK
    /\ NoLeakedLock
    /\ \A r \in Recs : At("start", r, "fail") => lock # r
    /\ OneRecovery

LEMMA LockInit == Init => LockInv
  BY TypeInit, RecsAssumption DEF Init, LockInv, NoLeakedLock, OneRecovery

LEMMA LockNext == LockInv /\ [Next]_vars => LockInv'
<1> SUFFICES ASSUME LockInv, [Next]_vars PROVE LockInv'
  OBVIOUS
<1> DEFINE Facts ==
      /\ NoLeakedLock
      /\ \A r \in Recs : At("start", r, "fail") => lock # r
      /\ OneRecovery
<1>t. TypeOK'
  BY TypeNext DEF LockInv
<1> SUFFICES Facts'
  BY <1>t DEF LockInv
<1> USE RecsAssumption DEF LockInv, TypeOK, Steps, NoLeakedLock, Releasing, OneRecovery
<1>1. ASSUME NEW r \in Recs, StartStep(r) PROVE Facts'
  <2>1. CASE StartAcquire(r)
    BY <2>1 DEF StartAcquire
  <2>2. CASE StartCreate(r)
    BY <2>2 DEF StartCreate
  <2>3. CASE StartCreateThrows(r)
    BY <2>3 DEF StartCreateThrows
  <2>4. CASE StartAccepted(r)
    BY <2>4 DEF StartAccepted
  <2>5. CASE StartRefused(r)
    BY <2>5 DEF StartRefused
  <2>6. CASE StartTimesOut(r)
    BY <2>6 DEF StartTimesOut
  <2>7. CASE StartMarkFailed(r)
    BY <2>7 DEF StartMarkFailed
  <2>8. CASE StartConfirm(r)
    BY <2>8 DEF StartConfirm
  <2> QED
    BY <1>1, <2>1, <2>2, <2>3, <2>4, <2>5, <2>6, <2>7, <2>8 DEF StartStep
<1>2. ASSUME NEW r \in Recs, StopStep(r) PROVE Facts'
  <2>1. CASE RequestStop(r)
    BY <2>1 DEF RequestStop
  <2>2. CASE StopReturns(r)
    BY <2>2 DEF StopReturns
  <2>3. CASE StopFails(r)
    BY <2>3 DEF StopFails
  <2>4. CASE StopFindsNothing(r)
    BY <2>4 DEF StopFindsNothing
  <2> QED
    BY <1>2, <2>1, <2>2, <2>3, <2>4 DEF StopStep
<1>3. ASSUME NEW r \in Recs, SfuStep(r) PROVE Facts'
  <2>1. CASE SfuRegister(r)
    BY <2>1 DEF SfuRegister
  <2>2. CASE SfuRefuse(r)
    BY <2>2 DEF SfuRefuse
  <2>3. CASE SfuRoomEmpty(r)
    BY <2>3 DEF SfuRoomEmpty
  <2>4. CASE SfuClosed(r)
    BY <2>4 DEF SfuClosed
  <2>5. ASSUME NEW s \in Senders, SfuStop(r, s) PROVE Facts'
    BY <2>5 DEF SfuStop
  <2> QED
    BY <1>3, <2>1, <2>2, <2>3, <2>4, <2>5 DEF SfuStep
<1>4. ASSUME NEW r \in Recs, HookStep(r) PROVE Facts'
  <2>1. CASE HookClaim(r)
    BY <2>1 DEF HookClaim, Claim
  <2>2. CASE HookDuplicate(r)
    BY <2>2 DEF HookDuplicate
  <2>3. CASE HookFails(r)
    BY <2>3 DEF HookFails
  <2> QED
    BY <1>4, <2>1, <2>2, <2>3 DEF HookStep
<1>5. ASSUME NEW r \in Recs, ReleaseStep(r) PROVE Facts'
  <2>1. ASSUME NEW k \in Handlers, ReleaseGet(k, r) PROVE Facts'
    BY <2>1 DEF ReleaseGet, AfterRelease
  <2>2. ASSUME NEW k \in Handlers, ReleaseDel(k, r) PROVE Facts'
    BY <2>2 DEF ReleaseDel, AfterRelease
  <2>3. ASSUME NEW k \in Handlers, ReleaseThrows(k, r) PROVE Facts'
    BY <2>3 DEF ReleaseThrows
  <2> QED
    BY <1>5, <2>1, <2>2, <2>3 DEF ReleaseStep
<1>6. ASSUME NEW r \in Recs, RecoverStep(r) PROVE Facts'
  <2>1. CASE RecoverStarting(r)
    BY <2>1 DEF RecoverStarting, RecoveryFree
  <2>2. CASE RecoverCapturing(r)
    BY <2>2 DEF RecoverCapturing, RecoveryFree
  <2>3. CASE RecoverUnreachable(r)
    BY <2>3 DEF RecoverUnreachable
  <2>4. CASE RecoverStillLive(r)
    BY <2>4 DEF RecoverStillLive
  <2>5. CASE RecoverNotLive(r)
    BY <2>5 DEF RecoverNotLive
  <2>6. CASE RecoverReadManifest(r)
    BY <2>6 DEF RecoverReadManifest
  <2>7. CASE RecoverClaim(r)
    BY <2>7 DEF RecoverClaim, Claim
  <2>8. CASE RecoverDuplicate(r)
    BY <2>8 DEF RecoverDuplicate
  <2>9. CASE RecoverProcessing(r)
    BY <2>9 DEF RecoverProcessing, RecoveryFree
  <2> QED
    BY <1>6, <2>1, <2>2, <2>3, <2>4, <2>5, <2>6, <2>7, <2>8, <2>9 DEF RecoverStep
<1>7. ASSUME NEW r \in Recs, FinalizeStep(r) PROVE Facts'
  <2>1. CASE FinalizeBegin(r)
    BY <2>1 DEF FinalizeBegin
  <2>2. CASE FinalizeAlreadyReady(r)
    BY <2>2 DEF FinalizeAlreadyReady
  <2>3. CASE FinalizeFails(r)
    BY <2>3 DEF FinalizeFails
  <2>4. CASE FinalizeReady(r)
    BY <2>4 DEF FinalizeReady
  <2>5. CASE FinalizeReturns(r)
    BY <2>5 DEF FinalizeReturns
  <2> QED
    BY <1>7, <2>1, <2>2, <2>3, <2>4, <2>5 DEF FinalizeStep
<1>8. ASSUME NEW r \in Recs, TailStep(r) PROVE Facts'
  <2>1. ASSUME NEW k \in Handlers, EnqueueFinalize(k, r) PROVE Facts'
    BY <2>1 DEF EnqueueFinalize
  <2>2. ASSUME NEW k \in Handlers, MarkFailed(k, r) PROVE Facts'
    BY <2>2 DEF MarkFailed
  <2> QED
    BY <1>8, <2>1, <2>2 DEF TailStep
<1>9. CASE LockExpires
  BY <1>9 DEF LockExpires
<1>10. CASE SfuCrash
  BY <1>10 DEF SfuCrash
<1>11. CASE Crash
  BY <1>11 DEF Crash
<1>12. CASE UNCHANGED vars
  BY <1>12 DEF vars
<1> QED
  BY <1>1, <1>2, <1>3, <1>4, <1>5, <1>6,
     <1>7, <1>8, <1>9, <1>10, <1>11, <1>12 DEF Next


\* Without a crash no interleaving of the handlers forgets a room's lock: it is
\* held for a recording that starts, may still capture, or is being unlocked.
THEOREM LockIsNotLeaked == Spec => []NoLeakedLock
<1>1. Init => LockInv
  BY LockInit
<1>2. LockInv /\ [Next]_vars => LockInv'
  BY LockNext
<1>3. LockInv => NoLeakedLock
  BY DEF LockInv
<1> QED
  BY <1>1, <1>2, <1>3, PTL DEF Spec

-----------------------------------------------------------------------------
(* The refinement of RecordingPromise.  It needs one more invariant: until   *)
(* the start handler has inserted the row, no other handler and no job works  *)
(* on the recording.                                                          *)

RowInv ==
    \A r \in Recs :
        /\ pc["start"][r] \in {"idle", "create"} => row[r] = "none"
        /\ pc["start"][r] \in {"call", "confirm"} => row[r] # "none"
        /\ row[r] = "none" =>
              job[r] = "none" /\ \A k \in Handlers \ {"start"} : At(k, r, "idle")

LEMMA RowInit == Init => RowInv
<1> SUFFICES ASSUME Init, NEW r \in Recs, NEW k \in Handlers
             PROVE  pc[k][r] = "idle" /\ row[r] = "none" /\ job[r] = "none"
  BY DEF RowInv
<1> QED
  BY DEF Init

LEMMA RowNext == TypeOK /\ RowInv /\ [Next]_vars => RowInv'
<1> SUFFICES ASSUME TypeOK, RowInv, [Next]_vars PROVE RowInv'
  OBVIOUS
<1> USE DEF TypeOK, Steps, RowInv
<1>1. ASSUME NEW r \in Recs, StartStep(r) PROVE RowInv'
  <2>1. CASE StartAcquire(r)
    BY <2>1 DEF StartAcquire
  <2>2. CASE StartCreate(r)
    BY <2>2 DEF StartCreate
  <2>3. CASE StartCreateThrows(r)
    BY <2>3 DEF StartCreateThrows
  <2>4. CASE StartAccepted(r)
    BY <2>4 DEF StartAccepted
  <2>5. CASE StartRefused(r)
    BY <2>5 DEF StartRefused
  <2>6. CASE StartTimesOut(r)
    BY <2>6 DEF StartTimesOut
  <2>7. CASE StartMarkFailed(r)
    BY <2>7 DEF StartMarkFailed
  <2>8. CASE StartConfirm(r)
    BY <2>8 DEF StartConfirm
  <2> QED
    BY <1>1, <2>1, <2>2, <2>3, <2>4, <2>5, <2>6, <2>7, <2>8 DEF StartStep
<1>2. ASSUME NEW r \in Recs, StopStep(r) PROVE RowInv'
  <2>1. CASE RequestStop(r)
    BY <2>1 DEF RequestStop
  <2>2. CASE StopReturns(r)
    BY <2>2 DEF StopReturns
  <2>3. CASE StopFails(r)
    BY <2>3 DEF StopFails
  <2>4. CASE StopFindsNothing(r)
    BY <2>4 DEF StopFindsNothing
  <2> QED
    BY <1>2, <2>1, <2>2, <2>3, <2>4 DEF StopStep
<1>3. ASSUME NEW r \in Recs, SfuStep(r) PROVE RowInv'
  <2>1. CASE SfuRegister(r)
    BY <2>1 DEF SfuRegister
  <2>2. CASE SfuRefuse(r)
    BY <2>2 DEF SfuRefuse
  <2>3. CASE SfuRoomEmpty(r)
    BY <2>3 DEF SfuRoomEmpty
  <2>4. CASE SfuClosed(r)
    BY <2>4 DEF SfuClosed
  <2>5. ASSUME NEW s \in Senders, SfuStop(r, s) PROVE RowInv'
    BY <2>5 DEF SfuStop
  <2> QED
    BY <1>3, <2>1, <2>2, <2>3, <2>4, <2>5 DEF SfuStep
<1>4. ASSUME NEW r \in Recs, HookStep(r) PROVE RowInv'
  <2>1. CASE HookClaim(r)
    BY <2>1 DEF HookClaim, Claim
  <2>2. CASE HookDuplicate(r)
    BY <2>2 DEF HookDuplicate
  <2>3. CASE HookFails(r)
    BY <2>3 DEF HookFails
  <2> QED
    BY <1>4, <2>1, <2>2, <2>3 DEF HookStep
<1>5. ASSUME NEW r \in Recs, ReleaseStep(r) PROVE RowInv'
  <2>1. ASSUME NEW k \in Handlers, ReleaseGet(k, r) PROVE RowInv'
    BY <2>1 DEF ReleaseGet, AfterRelease
  <2>2. ASSUME NEW k \in Handlers, ReleaseDel(k, r) PROVE RowInv'
    BY <2>2 DEF ReleaseDel, AfterRelease
  <2>3. ASSUME NEW k \in Handlers, ReleaseThrows(k, r) PROVE RowInv'
    BY <2>3 DEF ReleaseThrows
  <2> QED
    BY <1>5, <2>1, <2>2, <2>3 DEF ReleaseStep
<1>6. ASSUME NEW r \in Recs, RecoverStep(r) PROVE RowInv'
  <2>1. CASE RecoverStarting(r)
    BY <2>1 DEF RecoverStarting
  <2>2. CASE RecoverCapturing(r)
    BY <2>2 DEF RecoverCapturing
  <2>3. CASE RecoverUnreachable(r)
    BY <2>3 DEF RecoverUnreachable
  <2>4. CASE RecoverStillLive(r)
    BY <2>4 DEF RecoverStillLive
  <2>5. CASE RecoverNotLive(r)
    BY <2>5 DEF RecoverNotLive
  <2>6. CASE RecoverReadManifest(r)
    BY <2>6 DEF RecoverReadManifest
  <2>7. CASE RecoverClaim(r)
    BY <2>7 DEF RecoverClaim, Claim
  <2>8. CASE RecoverDuplicate(r)
    BY <2>8 DEF RecoverDuplicate
  <2>9. CASE RecoverProcessing(r)
    BY <2>9 DEF RecoverProcessing
  <2> QED
    BY <1>6, <2>1, <2>2, <2>3, <2>4, <2>5, <2>6, <2>7, <2>8, <2>9 DEF RecoverStep
<1>7. ASSUME NEW r \in Recs, FinalizeStep(r) PROVE RowInv'
  <2>1. CASE FinalizeBegin(r)
    BY <2>1 DEF FinalizeBegin
  <2>2. CASE FinalizeAlreadyReady(r)
    BY <2>2 DEF FinalizeAlreadyReady
  <2>3. CASE FinalizeFails(r)
    BY <2>3 DEF FinalizeFails
  <2>4. CASE FinalizeReady(r)
    BY <2>4 DEF FinalizeReady
  <2>5. CASE FinalizeReturns(r)
    BY <2>5 DEF FinalizeReturns
  <2> QED
    BY <1>7, <2>1, <2>2, <2>3, <2>4, <2>5 DEF FinalizeStep
<1>8. ASSUME NEW r \in Recs, TailStep(r) PROVE RowInv'
  <2>1. ASSUME NEW k \in Handlers, EnqueueFinalize(k, r) PROVE RowInv'
    BY <2>1 DEF EnqueueFinalize
  <2>2. ASSUME NEW k \in Handlers, MarkFailed(k, r) PROVE RowInv'
    BY <2>2 DEF MarkFailed
  <2> QED
    BY <1>8, <2>1, <2>2 DEF TailStep
<1>9. CASE LockExpires
  BY <1>9 DEF LockExpires
<1>10. CASE SfuCrash
  BY <1>10 DEF SfuCrash
<1>11. CASE Crash
  BY <1>11 DEF Crash
<1>12. CASE UNCHANGED vars
  BY <1>12 DEF vars
<1> QED
  BY <1>1, <1>2, <1>3, <1>4, <1>5, <1>6,
     <1>7, <1>8, <1>9, <1>10, <1>11, <1>12 DEF Next

\* What the host may know of the start requests and of the captures.
Starts == [r \in Recs |-> StartView(pc["start"][r])]
Captures == [r \in Recs |-> CaptureView(cap[r], media[r])]

\* The four ways a step looks to RecordingPromise: it is not seen, the start
\* request, the row, or the capture of one recording moves.
LEMMA Unseen ==
  ASSUME UNCHANGED <<row, segs, cap, media>>, pc'["start"] = pc["start"]
  PROVE  UNCHANGED Promise!vars
<1>1. UNCHANGED Starts
  BY DEF Starts
<1>2. UNCHANGED Captures
  BY DEF Captures
<1> QED
  BY <1>1, <1>2 DEF Promise!vars, Starts, Captures

LEMMA StartSeen ==
  ASSUME TypeOK, NEW r \in Recs, NEW step, pc' = [pc EXCEPT !["start"][r] = step]
  PROVE  Starts' = [Starts EXCEPT ![r] = StartView(step)]
<1>1. pc["start"] \in [Recs -> Steps]
  BY DEF TypeOK
<1>2. pc'["start"] = [pc["start"] EXCEPT ![r] = step]
  BY DEF TypeOK
<1> QED
  BY <1>1, <1>2 DEF Starts, StartView

LEMMA CaptureSeen ==
  ASSUME TypeOK, NEW r \in Recs, NEW c, NEW m \in [Recs -> BOOLEAN],
         cap' = [cap EXCEPT ![r] = c],
         media' = m, \A q \in Recs \ {r} : m[q] = media[q]
  PROVE  Captures' = [Captures EXCEPT ![r] = CaptureView(c, m[r])]
  BY DEF TypeOK, Captures

LEMMA SameStarts == ASSUME pc'["start"] = pc["start"] PROVE UNCHANGED Starts
  BY DEF Starts

LEMMA SameCaptures == ASSUME UNCHANGED <<cap, media>> PROVE UNCHANGED Captures
  BY DEF Captures

\* A handler that is not the start handler leaves the start request alone.
LEMMA OtherHandler ==
  ASSUME TypeOK, NEW k \in Handlers \ {"start"}, NEW r \in Recs, NEW step,
         pc' = [pc EXCEPT ![k][r] = step]
  PROVE  pc'["start"] = pc["start"]
  BY DEF TypeOK

LEMMA StartOver ==
  ASSUME TypeOK, NEW r \in Recs, pc' = [pc EXCEPT !["start"][r] = "done"]
  PROVE  Starts' = [Starts EXCEPT ![r] = "over"]
<1>1. StartView("done") = "over"
  BY DEF StartView
<1>2. Starts' = [Starts EXCEPT ![r] = StartView("done")]
  BY StartSeen
<1> QED
  BY <1>1, <1>2

LEMMA ClaimSeen ==
  ASSUME TypeOK, NEW r \in Recs, Claim(r), cap[r] = "closed", UNCHANGED <<Starts, Captures>>
  PROVE  Promise!Apply(r)
<1>1. row[r] \in Promise!Unfinished \ {"PROCESSING"}
  BY DEF Claim, Promise!Unfinished
<1>2. CASE media[r]
  <2>1. row' = [row EXCEPT ![r] = "PROCESSING"] /\ segs' = [segs EXCEPT ![r] = TRUE]
    BY <1>2 DEF Claim
  <2>2. Captures[r] = "kept"
    BY <1>2 DEF Captures, CaptureView
  <2> QED
    BY <1>1, <2>1, <2>2 DEF Promise!Apply, Promise!Moves, Starts, Captures
<1>3. CASE ~media[r]
  <2>1. row' = [row EXCEPT ![r] = "FAILED"] /\ UNCHANGED segs
    BY <1>3 DEF Claim, TypeOK
  <2>2. Captures[r] = "nothing"
    BY <1>3 DEF Captures, CaptureView
  <2> QED
    BY <1>1, <2>1, <2>2 DEF Promise!Apply, Promise!Moves, Starts, Captures
<1> QED
  BY <1>2, <1>3

\* Every step of the services is one of RecordingPromise or is not seen by it.
LEMMA PromiseStep ==
  ASSUME CaptureInv, RowInv, [Next]_vars
  PROVE  UNCHANGED Promise!vars \/ Promise!Next
<1> DEFINE Goal == UNCHANGED Promise!vars \/ Promise!Next
<1>t. TypeOK
  BY DEF CaptureInv
<1> SUFFICES Goal
  OBVIOUS
<1>1. ASSUME NEW r \in Recs, StartStep(r) PROVE Goal
  <2>1. CASE StartAcquire(r)
    <3>1. Starts[r] = "new"
      BY <2>1 DEF StartAcquire, Starts, StartView
    <3>2. Starts' = [Starts EXCEPT ![r] = "new"]
      BY <2>1, <1>t, StartSeen DEF StartAcquire, StartView
    <3>3. UNCHANGED <<segs, cap, media>>
      BY <2>1 DEF StartAcquire
    <3>4. UNCHANGED Captures
      BY <3>3, SameCaptures
    <3>5. row' = row
      BY <2>1 DEF StartAcquire
    <3> QED
      BY <3>1, <3>2, <3>3, <3>4, <3>5 DEF Promise!vars, Starts, Captures
  <2>2. CASE StartCreate(r)
    <3>1. Starts[r] = "new"
      BY <2>2 DEF StartCreate, Starts, StartView
    <3>2. Starts' = [Starts EXCEPT ![r] = "asked"]
      BY <2>2, <1>t, StartSeen DEF StartCreate, StartView
    <3>3. UNCHANGED <<segs, cap, media>>
      BY <2>2 DEF StartCreate
    <3>4. UNCHANGED Captures
      BY <3>3, SameCaptures
    <3>5. row[r] = "none" /\ row' = [row EXCEPT ![r] = "STARTING"]
      BY <2>2 DEF StartCreate, RowInv
    <3>6. Promise!Ask(r)
      BY <3>1, <3>2, <3>3, <3>4, <3>5 DEF Promise!Ask, Promise!Answers, Promise!Moves,
         Promise!Unfinished, Starts, Captures
    <3> QED
      BY <3>6 DEF Promise!Next
  <2>3. CASE StartCreateThrows(r)
    <3>1. Starts[r] = "new"
      BY <2>3 DEF StartCreateThrows, Starts, StartView
    <3>2. Starts' = [Starts EXCEPT ![r] = "refused"]
      BY <2>3, <1>t, StartSeen DEF StartCreateThrows, StartView
    <3>3. UNCHANGED <<segs, cap, media>>
      BY <2>3 DEF StartCreateThrows
    <3>4. UNCHANGED Captures
      BY <3>3, SameCaptures
    <3>5. row' = row
      BY <2>3 DEF StartCreateThrows
    <3>6. Promise!Refuse(r)
      BY <3>1, <3>2, <3>3, <3>4, <3>5 DEF Promise!Refuse, Promise!Answers, Promise!Moves,
         Promise!Unfinished, Starts, Captures
    <3> QED
      BY <3>6 DEF Promise!Next
  <2>4. CASE StartAccepted(r)
    <3>1. Starts[r] = "asked"
      BY <2>4 DEF StartAccepted, Starts, StartView
    <3>2. Starts' = [Starts EXCEPT ![r] = "accepted"]
      BY <2>4, <1>t, StartSeen DEF StartAccepted, StartView
    <3>3. UNCHANGED <<segs, cap, media>>
      BY <2>4 DEF StartAccepted
    <3>4. UNCHANGED Captures
      BY <3>3, SameCaptures
    <3>5. row' = row
      BY <2>4 DEF StartAccepted
    <3>6. Captures[r] # "none"
      BY <2>4 DEF StartAccepted, CaptureInv, Evidence, Captures, CaptureView
    <3>7. Promise!Accept(r)
      BY <3>1, <3>2, <3>3, <3>4, <3>5, <3>6 DEF Promise!Accept, Promise!Answers, Promise!Moves,
         Promise!Unfinished, Starts, Captures
    <3> QED
      BY <3>7 DEF Promise!Next
  <2>5. CASE StartRefused(r)
    <3>1. Starts[r] = "asked"
      BY <2>5 DEF StartRefused, Starts, StartView
    <3>2. Starts' = [Starts EXCEPT ![r] = "refused"]
      BY <2>5, <1>t, StartSeen DEF StartRefused, StartView
    <3>3. UNCHANGED <<segs, cap, media>>
      BY <2>5 DEF StartRefused
    <3>4. UNCHANGED Captures
      BY <3>3, SameCaptures
    <3>5. row' = row
      BY <2>5 DEF StartRefused
    <3>6. Promise!Refuse(r)
      BY <3>1, <3>2, <3>3, <3>4, <3>5 DEF Promise!Refuse, Promise!Answers, Promise!Moves,
         Promise!Unfinished, Starts, Captures
    <3> QED
      BY <3>6 DEF Promise!Next
  <2>6. CASE StartTimesOut(r)
    <3>1. Starts[r] = "asked"
      BY <2>6 DEF StartTimesOut, Starts, StartView
    <3>2. Starts' = [Starts EXCEPT ![r] = "refused"]
      BY <2>6, <1>t, StartSeen DEF StartTimesOut, StartView
    <3>3. UNCHANGED <<segs, cap, media>>
      BY <2>6 DEF StartTimesOut
    <3>4. UNCHANGED Captures
      BY <3>3, SameCaptures
    <3>5. row' = row
      BY <2>6 DEF StartTimesOut
    <3>6. Promise!Refuse(r)
      BY <3>1, <3>2, <3>3, <3>4, <3>5 DEF Promise!Refuse, Promise!Answers, Promise!Moves,
         Promise!Unfinished, Starts, Captures
    <3> QED
      BY <3>6 DEF Promise!Next
  <2>7. CASE StartMarkFailed(r)
    <3>1. Starts[r] = "refused"
      BY <2>7 DEF StartMarkFailed, Starts, StartView
    <3>2. Starts' = [Starts EXCEPT ![r] = "over"]
      BY <2>7, <1>t, StartOver DEF StartMarkFailed
    <3>3. UNCHANGED <<segs, cap, media>>
      BY <2>7 DEF StartMarkFailed
    <3>4. UNCHANGED Captures
      BY <3>3, SameCaptures
    <3>5. row' = [row EXCEPT ![r] = IF @ = "none" THEN "none" ELSE "FAILED"]
      BY <2>7 DEF StartMarkFailed
    <3>6. Promise!GiveUp(r)
      BY <3>1, <3>2, <3>3, <3>4, <3>5 DEF Promise!GiveUp, Promise!Answers, Promise!Moves,
         Promise!Unfinished, Starts, Captures
    <3> QED
      BY <3>6 DEF Promise!Next
  <2>8. CASE StartConfirm(r)
    <3>1. Starts[r] = "accepted"
      BY <2>8 DEF StartConfirm, Starts, StartView
    <3>2. Starts' = [Starts EXCEPT ![r] = "over"]
      BY <2>8, <1>t, StartOver DEF StartConfirm
    <3>3. UNCHANGED <<segs, cap, media>>
      BY <2>8 DEF StartConfirm
    <3>4. UNCHANGED Captures
      BY <3>3, SameCaptures
    <3>5. row' = [row EXCEPT ![r] = "RECORDING"]
      BY <2>8 DEF StartConfirm
    <3>6. row[r] \in Status
      BY <2>8, <1>t DEF StartConfirm, TypeOK, RowInv
    <3>7. Promise!Confirm(r)
      BY <3>1, <3>2, <3>3, <3>4, <3>5, <3>6 DEF Promise!Confirm, Promise!Answers, Promise!Moves,
         Promise!Unfinished, Starts, Captures
    <3> QED
      BY <3>7 DEF Promise!Next
  <2> QED
    BY <1>1, <2>1, <2>2, <2>3, <2>4, <2>5, <2>6, <2>7, <2>8 DEF StartStep
<1>2. ASSUME NEW r \in Recs, StopStep(r) PROVE Goal
  <2>1. CASE RequestStop(r)
    <3>1. UNCHANGED <<cap, media>> /\ pc'["start"] = pc["start"]
      BY <2>1, <1>t DEF RequestStop, TypeOK
    <3>2. UNCHANGED <<Starts, Captures>>
      BY <3>1, SameStarts, SameCaptures
    <3>3. row[r] = "RECORDING" /\ row' = [row EXCEPT ![r] = "STOPPING"]
      BY <2>1 DEF RequestStop
    <3>4. UNCHANGED segs
      BY <2>1 DEF RequestStop
    <3>5. Promise!Stop(r)
      BY <2>1, <3>2, <3>3, <3>4 DEF Promise!Stop, Promise!Moves, Promise!Unfinished, Starts, Captures
    <3> QED
      BY <3>5 DEF Promise!Next
  <2>2. CASE StopReturns(r)
    <3>1. UNCHANGED <<row, segs, cap, media>>
      BY <2>2 DEF StopReturns
    <3>2. pc'["start"] = pc["start"]
      BY <2>2, <1>t DEF StopReturns, TypeOK
    <3> QED
      BY <3>1, <3>2, Unseen
  <2>3. CASE StopFails(r) /\ row[r] = "STOPPING"
    <3>1. UNCHANGED <<cap, media>> /\ pc'["start"] = pc["start"]
      BY <2>3, <1>t DEF StopFails, TypeOK
    <3>2. UNCHANGED <<Starts, Captures>>
      BY <3>1, SameStarts, SameCaptures
    <3>3. row' = [row EXCEPT ![r] = "RECORDING"]
      BY <2>3 DEF StopFails
    <3>4. UNCHANGED segs
      BY <2>3 DEF StopFails
    <3>5. Promise!Stop(r)
      BY <2>3, <3>2, <3>3, <3>4 DEF Promise!Stop, Promise!Moves, Promise!Unfinished, Starts, Captures
    <3> QED
      BY <3>5 DEF Promise!Next
  <2>4. CASE StopFails(r) /\ row[r] # "STOPPING"
    <3>1. UNCHANGED <<row, segs, cap, media>>
      BY <2>4, <1>t DEF StopFails, TypeOK
    <3>2. pc'["start"] = pc["start"]
      BY <2>4, <1>t DEF StopFails, TypeOK
    <3> QED
      BY <3>1, <3>2, Unseen
  <2>5. CASE StopFindsNothing(r)
    <3>1. UNCHANGED <<row, segs, cap, media>>
      BY <2>5 DEF StopFindsNothing
    <3>2. pc'["start"] = pc["start"]
      BY <2>5, <1>t DEF StopFindsNothing, TypeOK
    <3> QED
      BY <3>1, <3>2, Unseen
  <2> QED
    BY <1>2, <2>1, <2>2, <2>3, <2>4, <2>5 DEF StopStep
<1>3. ASSUME NEW r \in Recs, SfuStep(r) PROVE Goal
  <2>1. CASE SfuRegister(r)
    <3>1. UNCHANGED <<row, segs>> /\ pc'["start"] = pc["start"]
      BY <2>1 DEF SfuRegister
    <3>2. UNCHANGED Starts
      BY <3>1, SameStarts
    <3>3. Captures[r] = "none"
      BY <2>1 DEF SfuRegister, Captures, CaptureView, CaptureInv, Evidence
    <3>4. Captures' = [Captures EXCEPT ![r] = "running"]
      BY <2>1, <1>t, CaptureSeen DEF SfuRegister, TypeOK, CaptureView
    <3>5. Starts[r] # "new"
      BY <2>1, <1>t DEF SfuRegister, Starts, StartView, CaptureInv, Evidence, TypeOK, Steps
    <3>6. Promise!Begin(r)
      BY <3>1, <3>2, <3>3, <3>4, <3>5 DEF Promise!Begin, Starts, Captures
    <3> QED
      BY <3>6 DEF Promise!Next
  <2>2. CASE SfuRefuse(r)
    <3>1. UNCHANGED <<row, segs, cap, media>>
      BY <2>2 DEF SfuRefuse
    <3>2. pc'["start"] = pc["start"]
      BY <2>2, <1>t DEF SfuRefuse, TypeOK
    <3> QED
      BY <3>1, <3>2, Unseen
  <2>3. CASE SfuRoomEmpty(r)
    <3>1. UNCHANGED <<row, segs>> /\ pc'["start"] = pc["start"]
      BY <2>3 DEF SfuRoomEmpty
    <3>2. UNCHANGED Starts
      BY <3>1, SameStarts
    <3>3. Captures[r] = "running"
      BY <2>3 DEF SfuRoomEmpty, Captures, CaptureView, CaptureInv, Evidence
    <3>4. Captures' = [Captures EXCEPT ![r] = "running"]
      BY <2>3, <1>t, CaptureSeen DEF SfuRoomEmpty, TypeOK, CaptureView
    <3> QED
      BY <3>1, <3>2, <3>3, <3>4 DEF Promise!vars, Starts, Captures
  <2>4. CASE SfuClosed(r)
    <3>1. UNCHANGED <<row, segs>> /\ pc'["start"] = pc["start"]
      BY <2>4 DEF SfuClosed
    <3>2. UNCHANGED Starts
      BY <3>1, SameStarts
    <3>3. Captures[r] = "running"
      BY <2>4 DEF SfuClosed, Captures, CaptureView, CaptureInv, Evidence
    <3>4. PICK m \in BOOLEAN : media' = [media EXCEPT ![r] = m]
      BY <2>4 DEF SfuClosed
    <3>5. media' \in [Recs -> BOOLEAN] /\ media'[r] = m /\ \A q \in Recs \ {r} : media'[q] = media[q]
      BY <3>4, <1>t DEF TypeOK
    <3>6. cap' = [cap EXCEPT ![r] = "closed"]
      BY <2>4 DEF SfuClosed
    <3>7. Captures' = [Captures EXCEPT ![r] = CaptureView("closed", m)]
      BY <1>t, <3>5, <3>6, CaptureSeen
    <3>8. CaptureView("closed", m) \in {"kept", "nothing"}
      BY DEF CaptureView
    <3>9. Promise!End(r)
      BY <3>1, <3>2, <3>3, <3>4, <3>5, <3>6, <3>7, <3>8 DEF Promise!End, Starts, Captures
    <3> QED
      BY <3>9 DEF Promise!Next
  <2>5. ASSUME NEW s \in Senders, SfuStop(r, s) PROVE Goal
    <3>1. UNCHANGED <<row, segs, media>> /\ pc'["start"] = pc["start"]
      BY <2>5 DEF SfuStop
    <3>2. UNCHANGED Starts
      BY <3>1, SameStarts
    <3>3. UNCHANGED Captures
      BY <2>5, <3>1, <1>t DEF SfuStop, Captures, CaptureView, TypeOK
    <3> QED
      BY <3>1, <3>2, <3>3 DEF Promise!vars, Starts, Captures
  <2> QED
    BY <1>3, <2>1, <2>2, <2>3, <2>4, <2>5 DEF SfuStep
<1>4. ASSUME NEW r \in Recs, HookStep(r) PROVE Goal
  <2>1. CASE HookClaim(r)
    <3>1. UNCHANGED <<cap, media>> /\ pc'["start"] = pc["start"]
      BY <2>1, <1>t DEF HookClaim, TypeOK
    <3>2. UNCHANGED <<Starts, Captures>>
      BY <3>1, SameStarts, SameCaptures
    <3>3. cap[r] = "closed"
      BY <2>1, <1>t DEF HookClaim, CaptureInv, Evidence, TypeOK
    <3>4. Claim(r)
      BY <2>1 DEF HookClaim
    <3>5. Promise!Apply(r)
      BY <3>2, <3>3, <3>4, <1>t, ClaimSeen
    <3> QED
      BY <3>5 DEF Promise!Next
  <2>2. CASE HookDuplicate(r)
    <3>1. UNCHANGED <<row, segs, cap, media>>
      BY <2>2 DEF HookDuplicate
    <3>2. pc'["start"] = pc["start"]
      BY <2>2, <1>t DEF HookDuplicate, TypeOK
    <3> QED
      BY <3>1, <3>2, Unseen
  <2>3. CASE HookFails(r)
    <3>1. UNCHANGED <<row, segs, cap, media>>
      BY <2>3 DEF HookFails
    <3>2. pc'["start"] = pc["start"]
      BY <2>3, <1>t DEF HookFails, TypeOK
    <3> QED
      BY <3>1, <3>2, Unseen
  <2> QED
    BY <1>4, <2>1, <2>2, <2>3 DEF HookStep
<1>5. ASSUME NEW r \in Recs, ReleaseStep(r) PROVE Goal
  <2>1. ASSUME NEW k \in Handlers, ReleaseGet(k, r) PROVE Goal
    <3>1. UNCHANGED <<row, segs, cap, media>>
      BY <2>1 DEF ReleaseGet
    <3>2. CASE k # "start"
      <4>1. pc'["start"] = pc["start"]
        BY <2>1, <3>2, <1>t DEF ReleaseGet, TypeOK
      <4> QED
        BY <3>1, <4>1, Unseen
    <3>3. CASE k = "start"
      <4>1. Starts[r] = "refused"
        BY <2>1, <3>3 DEF ReleaseGet, Starts, StartView
      <4>2. UNCHANGED Captures
        BY <3>1, SameCaptures
      <4>3. Starts' = [Starts EXCEPT ![r] = "refused"]
        BY <2>1, <3>3, <1>t, StartSeen DEF ReleaseGet, AfterRelease, StartView
      <4> QED
        BY <3>1, <4>1, <4>2, <4>3 DEF Promise!vars, Starts, Captures
    <3> QED
      BY <3>2, <3>3
  <2>2. ASSUME NEW k \in Handlers, ReleaseDel(k, r) PROVE Goal
    <3>1. UNCHANGED <<row, segs, cap, media>>
      BY <2>2 DEF ReleaseDel
    <3>2. CASE k # "start"
      <4>1. pc'["start"] = pc["start"]
        BY <2>2, <3>2, <1>t DEF ReleaseDel, TypeOK
      <4> QED
        BY <3>1, <4>1, Unseen
    <3>3. CASE k = "start"
      <4>1. Starts[r] = "refused"
        BY <2>2, <3>3 DEF ReleaseDel, Starts, StartView
      <4>2. UNCHANGED Captures
        BY <3>1, SameCaptures
      <4>3. Starts' = [Starts EXCEPT ![r] = "refused"]
        BY <2>2, <3>3, <1>t, StartSeen DEF ReleaseDel, AfterRelease, StartView
      <4> QED
        BY <3>1, <4>1, <4>2, <4>3 DEF Promise!vars, Starts, Captures
    <3> QED
      BY <3>2, <3>3
  <2>3. ASSUME NEW k \in Handlers, ReleaseThrows(k, r) PROVE Goal
    <3>1. UNCHANGED <<row, segs, cap, media>>
      BY <2>3 DEF ReleaseThrows
    <3>2. CASE k # "start"
      <4>1. pc'["start"] = pc["start"]
        BY <2>3, <3>2, <1>t DEF ReleaseThrows, TypeOK
      <4> QED
        BY <3>1, <4>1, Unseen
    <3>3. CASE k = "start"
      <4>1. Starts[r] = "refused"
        BY <2>3, <3>3 DEF ReleaseThrows, Starts, StartView
      <4>2. UNCHANGED Captures
        BY <3>1, SameCaptures
      <4>3. Starts' = [Starts EXCEPT ![r] = "over"]
        BY <2>3, <3>3, <1>t, StartOver DEF ReleaseThrows
      <4>4. Promise!Abandon({r})
        BY <3>1, <4>2, <4>3 DEF Promise!Abandon, Starts, Captures
      <4> QED
        BY <4>4 DEF Promise!Next
    <3> QED
      BY <3>2, <3>3
  <2> QED
    BY <1>5, <2>1, <2>2, <2>3 DEF ReleaseStep
<1>6. ASSUME NEW r \in Recs, RecoverStep(r) PROVE Goal
  <2>1. CASE RecoverStarting(r)
    <3>1. UNCHANGED <<row, segs, cap, media>>
      BY <2>1 DEF RecoverStarting
    <3>2. pc'["start"] = pc["start"]
      BY <2>1, <1>t DEF RecoverStarting, TypeOK
    <3> QED
      BY <3>1, <3>2, Unseen
  <2>2. CASE RecoverCapturing(r)
    <3>1. UNCHANGED <<row, segs, cap, media>>
      BY <2>2 DEF RecoverCapturing
    <3>2. pc'["start"] = pc["start"]
      BY <2>2, <1>t DEF RecoverCapturing, TypeOK
    <3> QED
      BY <3>1, <3>2, Unseen
  <2>3. CASE RecoverUnreachable(r)
    <3>1. UNCHANGED <<row, segs, cap, media>>
      BY <2>3 DEF RecoverUnreachable
    <3>2. pc'["start"] = pc["start"]
      BY <2>3, <1>t DEF RecoverUnreachable, TypeOK
    <3> QED
      BY <3>1, <3>2, Unseen
  <2>4. CASE RecoverStillLive(r)
    <3>1. UNCHANGED <<row, segs, cap, media>>
      BY <2>4 DEF RecoverStillLive
    <3>2. pc'["start"] = pc["start"]
      BY <2>4, <1>t DEF RecoverStillLive, TypeOK
    <3> QED
      BY <3>1, <3>2, Unseen
  <2>5. CASE RecoverNotLive(r)
    <3>1. UNCHANGED <<row, segs, cap, media>>
      BY <2>5 DEF RecoverNotLive
    <3>2. pc'["start"] = pc["start"]
      BY <2>5, <1>t DEF RecoverNotLive, TypeOK
    <3> QED
      BY <3>1, <3>2, Unseen
  <2>6. CASE RecoverReadManifest(r)
    <3>1. UNCHANGED <<row, segs, cap, media>>
      BY <2>6 DEF RecoverReadManifest
    <3>2. pc'["start"] = pc["start"]
      BY <2>6, <1>t DEF RecoverReadManifest, TypeOK
    <3> QED
      BY <3>1, <3>2, Unseen
  <2>7. CASE RecoverClaim(r)
    <3>1. UNCHANGED <<cap, media>> /\ pc'["start"] = pc["start"]
      BY <2>7, <1>t DEF RecoverClaim, TypeOK
    <3>2. UNCHANGED <<Starts, Captures>>
      BY <3>1, SameStarts, SameCaptures
    <3>3. cap[r] = "closed"
      BY <2>7, <1>t DEF RecoverClaim, CaptureInv, Evidence, TypeOK
    <3>4. Claim(r)
      BY <2>7 DEF RecoverClaim
    <3>5. Promise!Apply(r)
      BY <3>2, <3>3, <3>4, <1>t, ClaimSeen
    <3> QED
      BY <3>5 DEF Promise!Next
  <2>8. CASE RecoverDuplicate(r)
    <3>1. UNCHANGED <<row, segs, cap, media>>
      BY <2>8 DEF RecoverDuplicate
    <3>2. pc'["start"] = pc["start"]
      BY <2>8, <1>t DEF RecoverDuplicate, TypeOK
    <3> QED
      BY <3>1, <3>2, Unseen
  <2>9. CASE RecoverProcessing(r)
    <3>1. UNCHANGED <<row, segs, cap, media>>
      BY <2>9 DEF RecoverProcessing
    <3>2. pc'["start"] = pc["start"]
      BY <2>9, <1>t DEF RecoverProcessing, TypeOK
    <3> QED
      BY <3>1, <3>2, Unseen
  <2> QED
    BY <1>6, <2>1, <2>2, <2>3, <2>4, <2>5, <2>6, <2>7, <2>8, <2>9 DEF RecoverStep
<1>7. ASSUME NEW r \in Recs, FinalizeStep(r) PROVE Goal
  <2>1. CASE FinalizeBegin(r)
    <3>1. UNCHANGED <<row, segs, cap, media>>
      BY <2>1 DEF FinalizeBegin
    <3>2. pc'["start"] = pc["start"]
      BY <2>1, <1>t DEF FinalizeBegin, TypeOK
    <3> QED
      BY <3>1, <3>2, Unseen
  <2>2. CASE FinalizeAlreadyReady(r)
    <3>1. UNCHANGED <<row, segs, cap, media>>
      BY <2>2 DEF FinalizeAlreadyReady
    <3>2. pc'["start"] = pc["start"]
      BY <2>2, <1>t DEF FinalizeAlreadyReady, TypeOK
    <3> QED
      BY <3>1, <3>2, Unseen
  <2>3. CASE FinalizeFails(r)
    <3>1. UNCHANGED <<row, segs, cap, media>>
      BY <2>3 DEF FinalizeFails
    <3>2. pc'["start"] = pc["start"]
      BY <2>3, <1>t DEF FinalizeFails, TypeOK
    <3> QED
      BY <3>1, <3>2, Unseen
  <2>4. CASE FinalizeReady(r) /\ row[r] = "PROCESSING"
    <3>1. UNCHANGED <<cap, media>> /\ pc'["start"] = pc["start"]
      BY <2>4, <1>t DEF FinalizeReady, TypeOK
    <3>2. UNCHANGED <<Starts, Captures>>
      BY <3>1, SameStarts, SameCaptures
    <3>3. row' = [row EXCEPT ![r] = "READY"] /\ UNCHANGED segs
      BY <2>4 DEF FinalizeReady
    <3>4. segs[r]
      BY <2>4 DEF CaptureInv, ReadyIsBacked
    <3>5. Promise!Finish(r)
      BY <2>4, <3>2, <3>3, <3>4 DEF Promise!Finish, Promise!Moves, Promise!Unfinished, Starts, Captures
    <3> QED
      BY <3>5 DEF Promise!Next
  <2>5. CASE FinalizeReady(r) /\ row[r] # "PROCESSING"
    <3>1. UNCHANGED <<row, segs, cap, media>>
      BY <2>5, <1>t DEF FinalizeReady, TypeOK
    <3>2. pc'["start"] = pc["start"]
      BY <2>5, <1>t DEF FinalizeReady, TypeOK
    <3> QED
      BY <3>1, <3>2, Unseen
  <2>6. CASE FinalizeReturns(r)
    <3>1. UNCHANGED <<row, segs, cap, media>>
      BY <2>6 DEF FinalizeReturns
    <3>2. pc'["start"] = pc["start"]
      BY <2>6, <1>t DEF FinalizeReturns, TypeOK
    <3> QED
      BY <3>1, <3>2, Unseen
  <2> QED
    BY <1>7, <2>1, <2>2, <2>3, <2>4, <2>5, <2>6 DEF FinalizeStep
<1>8. ASSUME NEW r \in Recs, TailStep(r) PROVE Goal
  <2>1. ASSUME NEW k \in Handlers, EnqueueFinalize(k, r) PROVE Goal
    <3>1. UNCHANGED <<row, segs, cap, media>>
      BY <2>1 DEF EnqueueFinalize
    <3>2. pc'["start"] = pc["start"]
      BY <2>1, <1>t DEF EnqueueFinalize, TypeOK
    <3> QED
      BY <3>1, <3>2, Unseen
  <2>2. ASSUME NEW k \in Handlers, MarkFailed(k, r), row[r] \in Terminal PROVE Goal
    <3>1. UNCHANGED <<row, segs, cap, media>>
      BY <2>2 DEF MarkFailed
    <3>2. pc'["start"] = pc["start"]
      BY <2>2, <1>t DEF MarkFailed, TypeOK
    <3> QED
      BY <3>1, <3>2, Unseen
  <2>3. ASSUME NEW k \in Handlers, MarkFailed(k, r), row[r] \notin Terminal PROVE Goal
    <3>1. UNCHANGED <<cap, media>> /\ pc'["start"] = pc["start"]
      BY <2>3, <1>t DEF MarkFailed, TypeOK
    <3>2. UNCHANGED <<Starts, Captures>>
      BY <3>1, SameStarts, SameCaptures
    <3>3. row' = [row EXCEPT ![r] = "FAILED"] /\ UNCHANGED segs
      BY <2>3 DEF MarkFailed
    <3>4. row[r] # "none"
      BY <2>3 DEF MarkFailed, RowInv
    <3>5. row[r] \in Promise!Unfinished
      BY <2>3, <1>t, <3>4 DEF Promise!Unfinished, TypeOK
    <3>6. Promise!Fail(r)
      BY <2>3, <3>2, <3>3, <3>4, <3>5 DEF Promise!Fail, Promise!Moves, Promise!Unfinished, Starts, Captures
    <3> QED
      BY <3>6 DEF Promise!Next
  <2> QED
    BY <1>8, <2>1, <2>2, <2>3 DEF TailStep
<1>9. CASE LockExpires
  <2>1. UNCHANGED <<row, segs, cap, media>> /\ pc'["start"] = pc["start"]
    BY <1>9 DEF LockExpires
  <2> QED
    BY <2>1, Unseen
<1>10. CASE SfuCrash
  <2>1. UNCHANGED <<row, segs, media>> /\ pc'["start"] = pc["start"]
    BY <1>10, <1>t DEF SfuCrash, TypeOK
  <2>2. UNCHANGED Starts
    BY <2>1, SameStarts
  <2>3. Captures' = [r \in Recs |->
                       IF Captures[r] = "running" THEN "nothing" ELSE Captures[r]]
    BY <1>10, <2>1, <1>t DEF SfuCrash, Captures, CaptureView, TypeOK
  <2>4. Promise!Lose
    BY <2>1, <2>2, <2>3 DEF Promise!Lose, Starts, Captures
  <2> QED
    BY <2>4 DEF Promise!Next
<1>11. CASE Crash
  <2> DEFINE S == {r \in Recs : ~At("start", r, "idle")}
  <2>1. UNCHANGED <<row, segs, cap, media>>
    BY <1>11 DEF Crash
  <2>2. UNCHANGED Captures
    BY <2>1, SameCaptures
  <2>3. Starts' = [r \in Recs |-> IF r \in S THEN "over" ELSE Starts[r]]
    BY <1>11, <1>t DEF Crash, Starts, StartView, TypeOK
  <2>4. Promise!Abandon(S)
    BY <2>1, <2>2, <2>3 DEF Promise!Abandon, Starts, Captures
  <2> QED
    BY <2>4 DEF Promise!Next
<1>12. CASE UNCHANGED vars
  <2>1. UNCHANGED <<row, segs, cap, media>> /\ pc'["start"] = pc["start"]
    BY <1>12 DEF vars
  <2> QED
    BY <2>1, Unseen
<1> QED
  BY <1>1, <1>2, <1>3, <1>4, <1>5, <1>6,
     <1>7, <1>8, <1>9, <1>10, <1>11, <1>12 DEF Next

\* RecordingPromise is implemented: for any recordings that compete for a room,
\* with stalls, crashes and lost webhooks, a row is moved only by what really
\* happened to its capture, and a verdict is left only by the end of its start
\* request.
THEOREM PromiseIsKeptAlways == Spec => PromiseIsKept
<1>1. Init => Promise!Init
  <2> SUFFICES ASSUME Init PROVE Promise!Init
    OBVIOUS
  <2>1. Starts = [r \in Recs |-> "new"]
    BY DEF Init, Starts, StartView
  <2>2. Captures = [r \in Recs |-> "none"]
    BY DEF Init, Captures, CaptureView
  <2> QED
    BY <2>1, <2>2 DEF Init, Promise!Init, Starts, Captures
<1>2. CaptureInv /\ RowInv /\ [Next]_vars => UNCHANGED Promise!vars \/ Promise!Next
  BY PromiseStep
<1>3. CaptureInv /\ RowInv /\ [Next]_vars => (CaptureInv /\ RowInv)'
  BY CaptureNext, RowNext DEF CaptureInv
<1>4. Init => CaptureInv /\ RowInv
  BY CaptureInit, RowInit
<1> QED
  BY <1>1, <1>2, <1>3, <1>4, PTL DEF Spec, PromiseIsKept, Promise!Spec

\* A verdict is left at most once: only the end of the start request does it,
\* and a start request that is over stays over.
VerdictLeftOnce ==
    [][\A r \in Recs :
          /\ row[r] \in Terminal /\ row'[r] # row[r] =>
                Starts[r] \in {"accepted", "refused"} /\ Starts'[r] = "over"
          /\ Starts[r] = "over" => Starts'[r] = "over"]_vars

\* startRecording is the only code that overwrites READY or FAILED (its updates
\* are by id alone), and it does so in its last step: no webhook, stop, recovery
\* or job ever does, however late it is.
THEOREM VerdictIsLeftOnce == Spec => VerdictLeftOnce
<1> DEFINE Once(r) ==
      /\ row[r] \in Terminal /\ row'[r] # row[r] =>
            Starts[r] \in {"accepted", "refused"} /\ Starts'[r] = "over"
      /\ Starts[r] = "over" => Starts'[r] = "over"
<1>1. ASSUME CaptureInv, RowInv, [Next]_vars, NEW q \in Recs PROVE Once(q)
  <2> TypeOK
    BY <1>1 DEF CaptureInv
  <2> USE DEF Promise!Answers, Promise!Moves, Promise!Unfinished
  <2>1. UNCHANGED Promise!vars \/ Promise!Next
    BY <1>1, PromiseStep
  <2>2. CASE UNCHANGED Promise!vars
    BY <2>2 DEF Promise!vars, Starts
  <2>3. ASSUME NEW r \in Recs, Promise!Ask(r) PROVE Once(q)
    BY <2>3 DEF Promise!Ask, Starts, TypeOK
  <2>4. ASSUME NEW r \in Recs, Promise!Accept(r) \/ Promise!Refuse(r) PROVE Once(q)
    BY <2>4 DEF Promise!Accept, Promise!Refuse, Starts, TypeOK
  <2>5. ASSUME NEW r \in Recs, Promise!Confirm(r) \/ Promise!GiveUp(r) PROVE Once(q)
    BY <2>5 DEF Promise!Confirm, Promise!GiveUp, Starts, TypeOK
  <2>6. ASSUME NEW r \in Recs, Promise!Begin(r) \/ Promise!End(r) PROVE Once(q)
    BY <2>6 DEF Promise!Begin, Promise!End, Starts, TypeOK
  <2>7. ASSUME NEW r \in Recs, Promise!Stop(r) \/ Promise!Apply(r) PROVE Once(q)
    BY <2>7 DEF Promise!Stop, Promise!Apply, Starts, TypeOK
  <2>8. ASSUME NEW r \in Recs, Promise!Finish(r) \/ Promise!Fail(r) PROVE Once(q)
    BY <2>8 DEF Promise!Finish, Promise!Fail, Starts, TypeOK
  <2>9. CASE Promise!Lose
    BY <2>9 DEF Promise!Lose, Starts
  <2>10. ASSUME NEW S, Promise!Abandon(S) PROVE Once(q)
    BY <2>10 DEF Promise!Abandon, Starts
  <2> QED
    BY <2>1, <2>2, <2>3, <2>4, <2>5, <2>6, <2>7, <2>8, <2>9, <2>10 DEF Promise!Next
<1>2. CaptureInv /\ RowInv /\ [Next]_vars => (CaptureInv /\ RowInv)'
  BY CaptureNext, RowNext DEF CaptureInv
<1>3. Init => CaptureInv /\ RowInv
  BY CaptureInit, RowInit
<1>4. CaptureInv /\ RowInv /\ [Next]_vars => [\A r \in Recs : Once(r)]_vars
  BY <1>1
<1> QED
  BY <1>2, <1>3, <1>4, PTL DEF Spec, VerdictLeftOnce
=============================================================================
