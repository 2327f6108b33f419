------------------------------ MODULE MCCallRoom ------------------------------
EXTENDS CallRoom, TLC

\* Sound for the runs without a liveness property.
SocketSymmetry == Permutations(Sockets)
=============================================================================
