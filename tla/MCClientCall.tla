---------------------------- MODULE MCClientCall ----------------------------
(* One other peer, with a camera. *)
EXTENDS ClientCall, TLC

CONSTANTS ann, cam

OneOwner == [p \in Producers |-> ann]
=============================================================================
