-------------------------- MODULE RecordingPromise --------------------------
(***************************************************************************)
(* What recording-service promises the host about a recording, whoever     *)
(* moves its row: the status follows the capture, it goes forward except   *)
(* for a stop that fails, and a verdict is left by one step only, the end  *)
(* of the start request (Confirm, GiveUp), which comes at most once.       *)
(***************************************************************************)
EXTENDS Naturals

CONSTANT Recs

VARIABLES
    status,    \* Recording.status, "none" before the row exists
    start,     \* the start request: "new", "asked" (the SFU), "accepted",
               \* "refused", "over"
    capture,   \* "none", "running", over with footage ("kept") or without
               \* ("nothing")
    footage    \* the segments are on record

vars == <<status, start, capture, footage>>

Init ==
    /\ status = [r \in Recs |-> "none"]
    /\ start = [r \in Recs |-> "new"]
    /\ capture = [r \in Recs |-> "none"]
    /\ footage = [r \in Recs |-> FALSE]

Moves(r, from, to) == status[r] \in from /\ status' = [status EXCEPT ![r] = to]
Answers(r, from, to) == start[r] \in from /\ start' = [start EXCEPT ![r] = to]

Unfinished == {"STARTING", "RECORDING", "STOPPING", "PROCESSING"}

-----------------------------------------------------------------------------
(* The start request *)

Ask(r) ==
    /\ Moves(r, {"none"}, "STARTING")
    /\ Answers(r, {"new"}, "asked")
    /\ UNCHANGED <<capture, footage>>

Accept(r) ==
    /\ Answers(r, {"asked"}, "accepted")
    /\ capture[r] # "none"
    /\ UNCHANGED <<status, capture, footage>>

Refuse(r) ==
    /\ Answers(r, {"new", "asked"}, "refused")
    /\ UNCHANGED <<status, capture, footage>>

\* Whatever the row says by now.
Confirm(r) ==
    /\ Answers(r, {"accepted"}, "over")
    /\ Moves(r, Unfinished \cup {"READY", "FAILED"}, "RECORDING")
    /\ UNCHANGED <<capture, footage>>

\* Whatever the row says by now, if there is one.
GiveUp(r) ==
    /\ Answers(r, {"refused"}, "over")
    /\ status' = [status EXCEPT ![r] = IF @ = "none" THEN "none" ELSE "FAILED"]
    /\ UNCHANGED <<capture, footage>>

\* The service dies: nobody answers these requests any more.
Abandon(S) ==
    /\ start' = [r \in Recs |-> IF r \in S THEN "over" ELSE start[r]]
    /\ UNCHANGED <<status, capture, footage>>

-----------------------------------------------------------------------------
(* The capture and the row *)

Begin(r) ==
    /\ start[r] # "new" /\ capture[r] = "none"
    /\ capture' = [capture EXCEPT ![r] = "running"]
    /\ UNCHANGED <<status, start, footage>>

End(r) ==
    /\ capture[r] = "running"
    /\ \E c \in {"kept", "nothing"} : capture' = [capture EXCEPT ![r] = c]
    /\ UNCHANGED <<status, start, footage>>

\* The SFU dies with everything it captures.
Lose ==
    /\ capture' = [r \in Recs |-> IF capture[r] = "running" THEN "nothing" ELSE capture[r]]
    /\ UNCHANGED <<status, start, footage>>

Stop(r) ==
    /\ Moves(r, {"RECORDING"}, "STOPPING") \/ Moves(r, {"STOPPING"}, "RECORDING")
    /\ UNCHANGED <<start, capture, footage>>

\* The end of the capture is applied, with the footage it left.
Apply(r) ==
    /\ \/ /\ capture[r] = "kept"
          /\ Moves(r, Unfinished \ {"PROCESSING"}, "PROCESSING")
          /\ footage' = [footage EXCEPT ![r] = TRUE]
       \/ /\ capture[r] = "nothing"
          /\ Moves(r, Unfinished \ {"PROCESSING"}, "FAILED")
          /\ UNCHANGED footage
    /\ UNCHANGED <<start, capture>>

Finish(r) ==
    /\ Moves(r, {"PROCESSING"}, "READY") /\ footage[r]
    /\ UNCHANGED <<start, capture, footage>>

Fail(r) ==
    /\ Moves(r, Unfinished, "FAILED")
    /\ UNCHANGED <<start, capture, footage>>

Next ==
    \/ \E r \in Recs :
          \/ Ask(r) \/ Accept(r) \/ Refuse(r) \/ Confirm(r) \/ GiveUp(r)
          \/ Begin(r) \/ End(r) \/ Stop(r) \/ Apply(r) \/ Finish(r) \/ Fail(r)
    \/ Lose
    \/ \E S \in SUBSET Recs : Abandon(S)

\* Most steps of the services change nothing here; they are named first.
Spec == Init /\ [][UNCHANGED vars \/ Next]_vars
=============================================================================
