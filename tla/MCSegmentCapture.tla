------------------------- MODULE MCSegmentCapture --------------------------
(* One peer with a camera and a microphone. *)
EXTENDS SegmentCapture, TLC

CONSTANTS ann, cam, mic

OneOwner == [p \in Producers |-> ann]
MediaOf == (cam :> "camera") @@ (mic :> "mic")

\* Which of the ports other rooms hold does not matter, only how many.
LowPortsTaken == \A p \in ports[0] : 1..p \subseteq ports[0]
=============================================================================
