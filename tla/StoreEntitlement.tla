-------------------------- MODULE StoreEntitlement --------------------------
(***************************************************************************)
(* What src/modules/revenuecat promises, without tables or handlers.       *)
(*                                                                         *)
(* The store sends orders: give a user premium, end it at the end of the   *)
(* paid period, take it away.  Orders arrive late, twice and out of order, *)
(* so an order stays in force for ever; but a user's premium changes only  *)
(* on an order for that very user, a period can only end for a user who    *)
(* has premium, and premium that was taken away comes back only with a new *)
(* gift, never as a side effect of a cancellation.                         *)
(***************************************************************************)
EXTENDS Naturals

CONSTANT Users

VARIABLES
    orders,     \* the orders that have arrived
    ent         \* [Users -> Entitlement]

Entitlement == {"none", "on", "ending", "off"}

Order == [op : {"give", "take", "end"}, user : Users]

vars == <<orders, ent>>

Init ==
    /\ orders = {}
    /\ ent = [u \in Users |-> "none"]

Arrive ==
    /\ orders' \in SUBSET Order
    /\ orders \subseteq orders'
    /\ UNCHANGED ent

Ordered(op, u) == [op |-> op, user |-> u] \in orders /\ UNCHANGED orders

Give(u) ==
    /\ Ordered("give", u)
    /\ ent' = [ent EXCEPT ![u] = "on"]

End(u) ==
    /\ Ordered("end", u)
    /\ ent[u] \in {"on", "ending"}
    /\ ent' = [ent EXCEPT ![u] = "ending"]

Take(u) ==
    /\ Ordered("take", u)
    /\ ent[u] \in {"on", "ending"}
    /\ ent' = [ent EXCEPT ![u] = "off"]

Next == Arrive \/ \E u \in Users : Give(u) \/ End(u) \/ Take(u)

Spec == Init /\ [][Next]_vars
=============================================================================
