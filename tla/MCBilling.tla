----------------------------- MODULE MCBilling -----------------------------
(* A small instance of Billing: a store subscription that is bought,       *)
(* renewed and expires, cards, and one /auth/me call, all at once.         *)
EXTENDS Billing, TLC

CONSTANTS u1, u2, trial, month, r1, w1, c1, q1, a1, a2, a3

MCPlanType == [p \in Plans |-> IF p = trial THEN "TRIALING" ELSE "PREMIUM"]
MCPlanInterval == [p \in Plans |-> IF p = trial THEN "none" ELSE "monthly"]
MCPlanCount == [p \in Plans |-> 1]

(* Sandbox periods end within the day they start. *)
Event(type, u) ==
    [ via |-> "webhook", type |-> type, ids |-> <<u>>, from |-> <<>>,
      to |-> <<>>, product |-> month, purchasedAt |-> None,
      expiresAt |-> 0, trial |-> FALSE, ref |-> r1 ]

StoreRequests == {Event("RENEWAL", u1), Event("EXPIRATION", u1)}

(* The addresses are interchangeable. *)
Symmetry == Permutations(Addresses)
=============================================================================
