----------------------------- MODULE SegmentLog -----------------------------
(***************************************************************************)
(* What the SFU promises recording-service about one recording: a track is *)
(* in one open segment at a time, and the manifest, written once and last, *)
(* lists every segment that was opened, each of them once, with its file   *)
(* complete.                                                               *)
(***************************************************************************)
EXTENDS Naturals

CONSTANTS Segments, Tracks

VARIABLES
    state,    \* "none", "open" (its file is being written), "closed"
    tracks,   \* the producers that are recorded into it now
    sealed,   \* the manifest is built
    log       \* how often the manifest lists the segment

vars == <<state, tracks, sealed, log>>

Init ==
    /\ state = [i \in Segments |-> "none"]
    /\ tracks = [i \in Segments |-> {}]
    /\ sealed = FALSE
    /\ log = [i \in Segments |-> 0]

Open(i, T) ==
    /\ ~sealed /\ state[i] = "none"
    /\ \A j \in Segments : state[j] = "open" => T \cap tracks[j] = {}
    /\ state' = [state EXCEPT ![i] = "open"]
    /\ tracks' = [tracks EXCEPT ![i] = T]
    /\ UNCHANGED <<sealed, log>>

Close(i) ==
    /\ ~sealed /\ state[i] = "open"
    /\ state' = [state EXCEPT ![i] = "closed"]
    /\ tracks' = [tracks EXCEPT ![i] = {}]
    /\ UNCHANGED <<sealed, log>>

Seal ==
    /\ ~sealed /\ \A i \in Segments : state[i] # "open"
    /\ sealed' = TRUE
    /\ log' = [i \in Segments |-> IF state[i] = "closed" THEN 1 ELSE 0]
    /\ UNCHANGED <<state, tracks>>

Next ==
    \/ \E i \in Segments, T \in SUBSET Tracks : T # {} /\ Open(i, T)
    \/ \E i \in Segments : Close(i)
    \/ Seal

\* Most steps of a manager change nothing here; they are named first.
Spec == Init /\ [][UNCHANGED vars \/ Next]_vars
=============================================================================
