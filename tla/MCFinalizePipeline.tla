------------------------- MODULE MCFinalizePipeline -------------------------
(* FinalizePipeline for TLC: two workers as model values. *)
EXTENDS FinalizePipeline, TLC
=============================================================================
