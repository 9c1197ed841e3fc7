------------------------------- MODULE MCChat -------------------------------
EXTENDS Chat, TLC

CONSTANTS u1, u2, s1, s2, s3, h1, h2, r1

Symmetry == Permutations(Users) \cup Permutations(Sockets) \cup Permutations(Handlers)
=============================================================================
