-------------------------- MODULE MCRecordingPanel --------------------------
(* One browser, the host's: those of the others hear the same events, and    *)
(* read no answers.                                                          *)
EXTENDS RecordingPanel, TLC

\* astray only grows, and the properties are about the browsers outside it: what
\* follows when all are astray needs no check.
SomebodyFollows == astray # Browsers
=============================================================================
