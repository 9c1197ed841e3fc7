------------------------------ MODULE MCShouts ------------------------------
(* An author, a sharer and a reader, in two towns.                         *)
EXTENDS Shouts, TLC

CONSTANTS u1, u2, u3, p1, p2, h1

OneTown == {<<p, p>> : p \in Places}
Symmetry == Permutations(Users)
=============================================================================
