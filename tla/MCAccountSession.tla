--------------------------- MODULE MCAccountSession ---------------------------
(* Two people who share a browser. *)
EXTENDS AccountSession, TLC

CONSTANTS l1, l2, ann, bob

OwnerOf == [n \in Logins |-> IF n = l1 THEN ann ELSE bob]
=============================================================================
