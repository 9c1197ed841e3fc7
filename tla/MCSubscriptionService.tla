----------------------- MODULE MCSubscriptionService -----------------------
(* Small instances of SubscriptionService.  A month is one day and a trial *)
(* at most one, so that trials and periods end while calls are in flight.  *)
EXTENDS SubscriptionService, TLC

CONSTANTS u1, u2, trial, month, r1, r2, c1, c2, a1, a2, a3

MCPlanType ==
    [p \in Plans |-> IF p = trial THEN "TRIALING" ELSE "PREMIUM"]

MCPlanInterval ==
    [p \in Plans |-> IF p = trial THEN "none" ELSE "monthly"]

(* seed.command.ts gives every paid plan the interval count 1. *)
MCPlanCount == [p \in Plans |-> IF p = trial THEN 0 ELSE 1]

MCPriced == Plans \ {trial}

MCCoded == MCPriced

(* Users, references, callers and addresses are interchangeable. *)
Symmetry ==
    Permutations(Users) \cup Permutations(Refs) \cup Permutations(Callers)
        \cup Permutations(Addresses)
=============================================================================
