------------------------------ MODULE MCServer ------------------------------
\* Model values for the server: symmetric connections and addresses.
EXTENDS ServerStreams, TLC

Symmetry == Permutations(Conn) \cup Permutations(Addr)
=============================================================================
