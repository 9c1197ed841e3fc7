---------------------------- MODULE MCRevenueCat ----------------------------
(* A small instance of RevenueCat: two users, one stranger, one plan, and  *)
(* the life of a store subscription that is bought on trial, cancelled,    *)
(* expires and is transferred.                                             *)
EXTENDS RevenueCat, TLC

CONSTANTS u1, u2, anon, month, r1, w1

PaidPlanType == month :> "PREMIUM"

Event(type, ids, product, start, ref) ==
    [ via |-> "webhook", type |-> type, ids |-> ids, from |-> <<>>, to |-> <<>>,
      product |-> product, purchasedAt |-> start, expiresAt |-> start + 2,
      trial |-> FALSE, ref |-> ref ]

SyncOf1    == [Event("INITIAL_PURCHASE", <<u1>>, None, 1, r1)
                   EXCEPT !.via = "sync", !.trial = TRUE]
CancelOf1  == Event("CANCELLATION", <<anon, u1>>, month, 1, r1)
ExpireOf1  == Event("EXPIRATION", <<u1>>, month, 1, r1)
Nobodys    == Event("RENEWAL", <<anon>>, month, 1, r1)
Transfer12 == [Event("TRANSFER", <<>>, None, 1, r1)
                   EXCEPT !.from = <<anon, u1>>, !.to = <<u2>>]

SerialRequests == {SyncOf1, CancelOf1, ExpireOf1, Transfer12, Nobodys}
=============================================================================
