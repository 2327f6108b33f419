------------------------ MODULE MCRecordingLifecycle ------------------------
(* RecordingLifecycle for TLC: the configurations give it model values. *)
EXTENDS RecordingLifecycle, TLC
=============================================================================
