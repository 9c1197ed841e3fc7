------------------------------- MODULE Billing -------------------------------
(***************************************************************************)
(* Everything that touches one user's premium, together: the store's       *)
(* handlers (RevenueCat), the card handlers (SubscriptionService) and the  *)
(* readers that decide by the table: GET /auth/me, which also writes, the  *)
(* SubscriptionGuard and the check in front of creating a shout.  They     *)
(* share the table and nothing else: no lock, no transaction.              *)
(***************************************************************************)
EXTENDS SubscriptionTable, FiniteSets

CONSTANTS
    Strangers, Requests, Workers, SubscriptionRequired,     \* RevenueCat
    MaxDuplicates, MaxFailures,
    Callers, PlanInterval, PlanCount, Priced, Coded,        \* Subscription-
    MonthDays, TrialDays, MaxDay, MaxMoves, MaxMishaps,     \* Service
    Readers,        \* the /auth/me calls that can be in flight
    GraceDays       \* the days after its end that an active row still counts

ASSUME GraceIsDays == GraceDays \in Nat

VARIABLES
    job, delivered, answered, duplicates, failures,         \* RevenueCat
    call, charges, remote, hooks, mishaps,                  \* the service
    email, held, moves,
    latest,     \* [Users -> row]: the user's row with the newest updatedAt
    expiring    \* [Readers -> row]: the row a /auth/me call is about to expire

RC == INSTANCE RevenueCat
PS == INSTANCE SubscriptionService

(* What the two services assume of their constants.                        *)
ASSUME StoreConstants ==
    RC!RequestsAreRequests /\ RC!StrangersAreNotUsers /\ RC!RevenueCatBounds
ASSUME CardConstants == PS!PlanPeriods /\ PS!NoneIsNoCharge

storeVars == <<job, delivered, answered, duplicates, failures>>
cardVars == <<call, charges, remote, hooks, mishaps, email, held, moves>>
readVars == <<latest, expiring>>
vars == <<tableVars, storeVars, cardVars, readVars>>

TypeOK ==
    /\ RC!TypeOK
    /\ PS!TypeOK
    /\ latest \in [Users -> Nat]
    /\ expiring \in [Readers -> Nat]

Init ==
    /\ TableInit /\ RC!RcInit /\ PS!PsInit
    /\ latest = [u \in Users |-> 0]
    /\ expiring = [q \in Readers |-> 0]

(* Prisma stamps updatedAt on every write (@updatedAt); see Refresh for a  *)
(* write that changes no column of Row.                                    *)
Stamp ==
    LET written(u) == {i \in DOMAIN subs' :
                          /\ subs'[i].userId = u
                          /\ i \in DOMAIN subs => subs'[i] # subs[i]}
    IN latest' = [u \in Users |-> IF written(u) = {} THEN latest[u]
                                  ELSE CHOOSE i \in written(u) : TRUE]

---------------------------------------------------------------------------
(* Readers *)

Lapsed(r) == subs[r].endDate # None /\ now > subs[r].endDate + GraceDays

(* GET /auth/me trusts the row that was written last.                      *)
MeActive(u) ==
    /\ latest[u] # 0
    /\ subs[latest[u]].isActive
    /\ subs[latest[u]].type # "FREE"

(* data.premium of the answer.                                             *)
MePremium(u) ==
    SubscriptionRequired => MeActive(u) /\ ~Lapsed(latest[u])

(* SubscriptionGuard.canActivate and ShoutService.checkSubscription: some  *)
(* active row, whichever the database returns.                             *)
MayPass(u) ==
    SubscriptionRequired => \E r \in ActiveRows(u) : ~Lapsed(r)

(* A call that finds the newest row active and lapsed will expire it.      *)
Me(q, u) ==
    /\ expiring[q] = 0
    /\ MeActive(u)
    /\ Lapsed(latest[u])
    /\ expiring' = [expiring EXCEPT ![q] = latest[u]]
    /\ UNCHANGED <<tableVars, storeVars, cardVars, latest>>

(* Mutant: isActive is missing from the update.                            *)
MeExpireKeepsFlag(q) ==
    /\ expiring[q] # 0
    /\ Update(expiring[q], [subs[expiring[q]] EXCEPT !.status = "expired"])
    /\ expiring' = [expiring EXCEPT ![q] = 0]
    /\ Stamp
    /\ UNCHANGED <<now, plans, linked, payments, notices,
                   storeVars, cardVars>>

(* The write goes by the id of the row alone, whatever it has become.      *)
MeExpire(q) ==
    /\ expiring[q] # 0
    /\ Update(expiring[q], [subs[expiring[q]] EXCEPT !.isActive = FALSE,
                                                     !.status = "expired"])
    /\ expiring' = [expiring EXCEPT ![q] = 0]
    /\ Stamp
    /\ UNCHANGED <<now, plans, linked, payments, notices,
                   storeVars, cardVars>>

(* getSubscriptionStatus found a row active and not past its end, and now  *)
(* writes its remainingDays: the row's date of change is all that moves.   *)
(* Every row begins active, so it may be any row whatever it is by now.    *)
Refresh(u) ==
    /\ \E r \in RowsOf(u) : latest' = [latest EXCEPT ![u] = r]
    /\ UNCHANGED <<tableVars, storeVars, cardVars, expiring>>

---------------------------------------------------------------------------
Store == RC!RcNext /\ Stamp /\ UNCHANGED <<cardVars, expiring>>

Cards == PS!PsNext /\ Stamp /\ UNCHANGED <<storeVars, expiring>>

Read ==
    \/ \E q \in Readers : MeExpire(q) \/ \E u \in Users : Me(q, u)
    \/ \E u \in Users : Refresh(u)

Tick ==
    /\ now < MaxDay
    /\ now' = now + 1
    /\ UNCHANGED <<plans, subs, linked, payments, notices,
                   storeVars, cardVars, readVars>>

Next == Store \/ Cards \/ Read \/ Tick

Spec == Init /\ [][Next]_vars

---------------------------------------------------------------------------
(* Properties of all the writers of a row together (besides those of       *)
(* SubscriptionTable)                                                      *)

(* The two services and /auth/me update one another's rows.  A row never   *)
(* changes hands: what User.subscriptionId names stays its own.            *)
RowsKeepTheirOwner ==
    [][\A i \in DOMAIN subs : subs'[i].userId = subs[i].userId]_vars

(* Premium that was taken away comes back by a gift of the store or by a   *)
(* charged card only; nothing late or stale of the other service wakes it. *)
OnlyGiftsAndChargesWakeRows ==
    [][\A i \in DOMAIN subs :
          ~subs[i].isActive /\ subs'[i].isActive =>
              \/ \E c \in Callers : PS!At(c, "write") /\ call[c].row = i
              \/ \E w \in Workers : RC!WritingTask(w, "give") /\ job[w].row = i
      ]_vars

(* A payment row comes from a charge of Paystack's, of a customer whose    *)
(* address this user has had, or from a delivered store request that names *)
(* this user and has a price.                                              *)
PaymentsHaveASource ==
    \A u \in Users, ref \in Refs :
        payments[<<u, ref>>] > 0 =>
            \/ /\ charges[ref] # None
               /\ charges[ref].state = "paid"
               /\ <<u, charges[ref].email>> \in held
            \/ \E e \in delivered :
                  /\ e.type \in RC!PaidTypes
                  /\ e.ref = ref
                  /\ u \in RC!ResolvedUsers(e)

(* Also when a store purchase takes the row over, the Paystack code in it  *)
(* is of a customer whose address the row's owner has had.                 *)
CodeOfAddress == PS!CodeOfAddress

---------------------------------------------------------------------------
(* What the documents say and the code does not do                         *)

(* auth.service.ts: "Soft-expire only when clearly past AND no recent      *)
(* renewal path left it active with a stale endDate".                      *)
OnlyLapsedRowsExpire ==
    [][\A q \in Readers :
          expiring[q] # 0 /\ expiring'[q] = 0 => Lapsed(expiring[q])]_vars

(* subscription.guard.ts: "Match /auth/me": whom the guard lets pass,      *)
(* /auth/me calls premium, when no handler is half-way.                    *)
GuardMatchesMe ==
    /\ \A w \in Workers : job[w].pc = "idle"
    /\ \A c \in Callers : call[c].pc = "idle"
    => \A u \in Users : MayPass(u) => MePremium(u)
=============================================================================
