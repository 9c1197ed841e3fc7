----------------------------- MODULE MCAccounts -----------------------------
EXTENDS Accounts, TLC

CONSTANTS a1, a2, g1, p1, h1, h2

MCProvider == [s \in Subjects |-> IF s = g1 THEN "google" ELSE "apple"]
Newcomers == <<>>
Resident == <<a1>>
HandlerSymmetry == Permutations(Handlers)
=============================================================================
