---- MODULE MCEventStream ----
EXTENDS EventStream, TLC

\* Neither the server's connections nor the client's polls are told apart.
Symmetry == Permutations(Streams) \cup Permutations(Polls)
====
