------------------------- MODULE SubscriptionTable -------------------------
(***************************************************************************)
(* The database state that every billing handler of the backend shares:    *)
(* the "subscriptions" table, User.subscriptionId, the payment table and   *)
(* the notifications a billing handler writes (prisma/schema.prisma).      *)
(*                                                                         *)
(* One Prisma call is one atomic step.  A handler is a sequence of such    *)
(* calls with an await between them, so handlers of different requests     *)
(* interleave between any two calls; the modules RevenueCat and            *)
(* SubscriptionService spell those sequences out.                          *)
(*                                                                         *)
(* Rows are never deleted by the code, so the table is a sequence and a    *)
(* row's id is its position; 0 stands for "no row" (null in the code).     *)
(* Dates are whole days.                                                   *)
(***************************************************************************)
EXTENDS Naturals, Sequences

CONSTANTS
    Users,      \* the ids with a row in the users table
    Plans,      \* the ids that rows of subs_plan have or may get
    PlanType,   \* [Plans -> PlanTypes], the column SubsPlan.type
    Refs,       \* payment references (transaction or event ids)
    Addresses,  \* e-mail addresses
    None        \* null: no date, no code, no plan, no request

PlanTypes == {"FREE", "TRIALING", "BASIC", "PREMIUM"}

ASSUME PlansAreTyped == PlanType \in [Plans -> PlanTypes]
ASSUME NoneIsNull == None \notin Nat \cup Plans

VARIABLES
    now,        \* the day
    plans,      \* the plans that exist: the rows of subs_plan
    subs,       \* the table of subscriptions
    linked,     \* [Users -> row]: User.subscriptionId
    payments,   \* [Users \X Refs -> Nat]: successful payment_transactions rows
    notices     \* the <<user, type>> pairs some billing handler has notified

tableVars == <<now, plans, subs, linked, payments, notices>>

---------------------------------------------------------------------------
(* Rows *)

Date == Nat \cup {None}

(* Paystack's own code of a recurring plan, or the code's fallback         *)
(* paystack_ref_<reference>.  Both stem from a transaction of a Paystack   *)
(* customer, and Paystack knows its customers by their e-mail address.     *)
Code == [kind : {"SUB", "ref"}, email : Addresses, ref : Refs] \cup {None}

(* Every status string the code writes.  RevenueCat writes 'cancelled',    *)
(* the Paystack service 'canceled'; the two mean different things.         *)
LiveStatus == {"active", "trialing", "cancelled"}
DeadStatus == {"expired", "transferred", "canceled"}

Row == [ userId            : Users,
         planId            : Plans,
         type              : PlanTypes,
         status            : LiveStatus \cup DeadStatus,
         isActive          : BOOLEAN,
         startDate         : Nat,
         endDate           : Date,
         isTrial           : BOOLEAN,
         trialEndsAt       : BOOLEAN,    \* only "is it null" is ever asked
         cancelAtPeriodEnd : BOOLEAN,
         paystackSubId     : Code ]

TableInit ==
    /\ now = 0
    /\ plans \in SUBSET Plans
    /\ subs = <<>>
    /\ linked = [u \in Users |-> 0]
    /\ payments = [k \in Users \X Refs |-> 0]
    /\ notices = {}

NoticeTypes == {"ACTIVATED", "RENEWED", "CANCELLED"}

TableTypeOK ==
    /\ now \in Nat
    /\ plans \subseteq Plans
    /\ subs \in Seq(Row)
    /\ linked \in [Users -> Nat]
    /\ payments \in [Users \X Refs -> Nat]
    /\ notices \subseteq Users \X NoticeTypes

---------------------------------------------------------------------------
(* Queries *)

RowsOf(u) == {i \in 1..Len(subs) : subs[i].userId = u}

(* where: { userId, isActive: true } *)
ActiveRows(u) == {i \in RowsOf(u) : subs[i].isActive}

(* orderBy: { startDate: 'desc' }; rows with equal dates come in any order *)
Newest(S) == {i \in S : \A j \in S : subs[j].startDate <= subs[i].startDate}

(* The answer of a findFirst over the matching rows: any of them, or null. *)
FindFirst(S) == IF S = {} THEN {0} ELSE S

---------------------------------------------------------------------------
(* Writes *)

Create(row) == subs' = Append(subs, row)

Update(r, row) == subs' = [subs EXCEPT ![r] = row]

RecordPayment(u, ref) ==
    payments' = [payments EXCEPT ![<<u, ref>>] = @ + 1]

---------------------------------------------------------------------------
(* Properties every billing handler has to keep, however handlers          *)
(* interleave.                                                             *)

(* isActive is what the guards trust; status is what people read.  A row   *)
(* that still opens the premium features never carries a status that says  *)
(* the subscription is over.                                               *)
ActiveRowsAreLive ==
    \A i \in 1..Len(subs) : subs[i].isActive => subs[i].status \in LiveStatus

(* User.subscriptionId is null or names a row that belongs to that user.   *)
LinkedToOwnRow ==
    \A u \in Users : linked[u] # 0 => linked[u] \in RowsOf(u)

(* Nobody is recorded as having paid, or told that a subscription is       *)
(* active, renewed or cancelled, before a subscription row of theirs       *)
(* exists.                                                                 *)
NoMoneyWithoutSubscription ==
    \A u \in Users :
        (\/ \E ref \in Refs : payments[<<u, ref>>] > 0
         \/ \E n \in NoticeTypes : <<u, n>> \in notices) => RowsOf(u) # {}
=============================================================================
