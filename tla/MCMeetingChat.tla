---------------------------- MODULE MCMeetingChat ----------------------------
EXTENDS MeetingChat, TLC

\* Sound for safety only.
ClientSymmetry == Permutations(Clients)
=============================================================================
