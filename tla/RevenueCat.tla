----------------------------- MODULE RevenueCat -----------------------------
(***************************************************************************)
(* src/modules/revenuecat: the store's webhook and the client's sync call. *)
(*                                                                         *)
(* RevenueCat delivers a webhook event at least once, in no particular     *)
(* order, and again after any answer that is not 200.  Each request runs   *)
(* in one of the Workers, the handlers in flight at the same time; a       *)
(* worker is taken for a request and free again after its answer.  The     *)
(* body of a handler is a list of tasks (todo): take premium away from a   *)
(* user, find the plan, give premium to a user, mark a subscription as     *)
(* ending.  Every await in the code is a step boundary here.               *)
(***************************************************************************)
EXTENDS SubscriptionTable, FiniteSets

CONSTANTS
    Strangers,      \* ids a request may name that are not users: unknown
                    \* accounts and the store's $RCAnonymousID: names
    Requests,       \* every webhook event and sync call there is
    Workers,        \* the handlers that can be in flight together
    SubscriptionRequired,   \* appConfig().app.subscriptionRequired
    MaxDuplicates,  \* bound: deliveries beyond those the code asks for
    MaxFailures     \* bound: database errors and crashes of handlers

Ids == Users \cup Strangers

GivingTypes == {"INITIAL_PURCHASE", "RENEWAL", "UNCANCELLATION",
                "PRODUCT_CHANGE", "NON_RENEWING_PURCHASE",
                "SUBSCRIPTION_EXTENDED", "TEMPORARY_ENTITLEMENT_GRANT"}
PaidTypes   == {"INITIAL_PURCHASE", "RENEWAL", "PRODUCT_CHANGE",
                "NON_RENEWING_PURCHASE"}
EndingTypes == {"EXPIRATION", "BILLING_ISSUE"}
ToldTypes   == {"INITIAL_PURCHASE", "PRODUCT_CHANGE", "UNCANCELLATION",
                "TRANSFER"}
EventTypes  == GivingTypes \cup EndingTypes
                   \cup {"CANCELLATION", "TRANSFER", "OTHER"}

(* A request: ids is app_user_id, original_app_user_id and the aliases in  *)
(* the order resolveUser tries them; product stands for all the product    *)
(* and entitlement ids of the event.                                       *)
Request == [ via         : {"webhook", "sync"},
             type        : EventTypes,
             ids         : Seq(Ids),
             from        : Seq(Ids),
             to          : Seq(Ids),
             product     : Plans \cup {None},
             purchasedAt : Date,
             expiresAt   : Date,
             trial       : BOOLEAN,
             ref         : Refs ]

ASSUME RequestsAreRequests ==
    /\ Requests \subseteq Request
    /\ None \notin Requests
    /\ \A e \in Requests : e.via = "sync" =>
          e.type = "INITIAL_PURCHASE" /\ \E u \in Users : e.ids = <<u>>
ASSUME StrangersAreNotUsers == Strangers \cap Users = {}
ASSUME RevenueCatBounds ==
    /\ SubscriptionRequired \in BOOLEAN
    /\ MaxDuplicates \in Nat
    /\ MaxFailures \in Nat

VARIABLES
    job,        \* [Workers -> Job]: the handlers in flight
    delivered,  \* the requests that have reached the backend at least once
    answered,   \* the requests the backend has answered with success
    duplicates, \* how many surplus deliveries there were
    failures    \* how many handlers have failed half-way

rcVars == <<job, delivered, answered, duplicates, failures>>
vars == <<tableVars, rcVars>>

---------------------------------------------------------------------------
(* Handlers in flight *)

Task == [op : {"plan"}] \cup [op : {"give", "take", "end"}, user : Ids]

(* pc: the await the handler is suspended in.                              *)
PCs == {"idle", "next", "write", "link", "pay", "notify"}

Job == [ pc   : PCs,
         req  : Requests \cup {None},
         todo : Seq(Task),
         plan : Plans \cup {None},
         row  : Nat ]

Idle == [pc |-> "idle", req |-> None, todo |-> <<>>,
         plan |-> None, row |-> 0]

RcInit ==
    /\ job = [w \in Workers |-> Idle]
    /\ delivered = {}
    /\ answered = {}
    /\ duplicates = 0
    /\ failures = 0

TypeOK ==
    /\ TableTypeOK
    /\ job \in [Workers -> Job]
    /\ delivered \subseteq Requests
    /\ answered \subseteq delivered
    /\ duplicates \in 0..MaxDuplicates
    /\ failures \in 0..MaxFailures

AtTask(w, op) ==
    /\ job[w].pc = "next"
    /\ job[w].todo # <<>>
    /\ Head(job[w].todo).op = op

TaskUser(w) == Head(job[w].todo).user

Step(w, pc) == job' = [job EXCEPT ![w].pc = pc]

StepWithRow(w, pc, r) == job' = [job EXCEPT ![w].pc = pc, ![w].row = r]

TaskDone(w) ==
    job' = [job EXCEPT ![w].pc = "next", ![w].todo = Tail(@), ![w].row = 0]

---------------------------------------------------------------------------
(* What a request asks for *)

(* resolveUser: the first candidate id that is a user.                     *)
ResolvedUsers(e) ==
    {e.ids[i] : i \in {i \in DOMAIN e.ids :
                          /\ e.ids[i] \in Users
                          /\ \A j \in 1..(i - 1) : e.ids[j] \notin Users}}

TransferTargets(e) ==
    IF e.to # <<>> THEN e.to
    ELSE IF e.ids # <<>> THEN <<Head(e.ids)>> ELSE <<>>

Each(op, ids) == [i \in DOMAIN ids |-> [op |-> op, user |-> ids[i]]]

FindPlan == <<[op |-> "plan"]>>

(* handleTransfer: every source first, then the plan, then every target.   *)
TransferTasks(e) ==
    Each("take", e.from) \o FindPlan \o Each("give", TransferTargets(e))

UserTasks(e, u) ==
    CASE e.type \in GivingTypes   -> FindPlan \o Each("give", <<u>>)
      [] e.type = "CANCELLATION"  -> FindPlan \o Each("end", <<u>>)
      [] e.type \in EndingTypes   -> FindPlan \o Each("take", <<u>>)
      [] OTHER                    -> FindPlan

(* Mutant: an event for an unknown user makes the handler throw.           *)
TaskListsThrows(e) ==
    IF e.type = "TRANSFER" THEN {TransferTasks(e)}
    ELSE {UserTasks(e, u) : u \in ResolvedUsers(e)}

(* The tasks of a request.  An event nobody here has to act on (the        *)
(* feature is off, no such user) is answered with success and no task.     *)
TaskLists(e) ==
    IF ~SubscriptionRequired THEN {<<>>}
    ELSE IF e.type = "TRANSFER" THEN {TransferTasks(e)}
    ELSE IF ResolvedUsers(e) = {} THEN {<<>>}
    ELSE {UserTasks(e, u) : u \in ResolvedUsers(e)}

(* resolvePlan: the matching plan, else any plan that is not free.         *)
ResolvedPlans(e) ==
    IF e.product \in plans THEN {e.product}
    ELSE {p \in plans : PlanType[p] # "FREE"}

---------------------------------------------------------------------------
(* Requests arrive *)

Start(w, e) ==
    /\ job[w] = Idle
    /\ \E tasks \in TaskLists(e) :
          job' = [job EXCEPT ![w] = [Idle EXCEPT !.pc = "next", !.req = e,
                                                 !.todo = tasks]]
    /\ delivered' = delivered \cup {e}
    /\ UNCHANGED <<tableVars, answered, failures>>

InFlight(e) == \E w \in Workers : job[w].req = e

(* The store delivers an event, or delivers it again because it has had no *)
(* success for it; a client makes its sync call.                           *)
Receive(w, e) ==
    /\ e \notin answered
    /\ ~InFlight(e)
    /\ Start(w, e)
    /\ UNCHANGED duplicates

(* At-least-once delivery: a second copy although the first is in flight   *)
(* or was answered.                                                        *)
Duplicate(w, e) ==
    /\ e \in delivered
    /\ e \in answered \/ InFlight(e)
    /\ duplicates < MaxDuplicates
    /\ duplicates' = duplicates + 1
    /\ Start(w, e)

(* Mutant: the controller does not answer 200.                             *)
AnswerWithoutSuccess(w) ==
    /\ job[w].pc = "next"
    /\ job[w].todo = <<>>
    /\ job' = [job EXCEPT ![w] = Idle]
    /\ UNCHANGED <<tableVars, delivered, answered, duplicates, failures>>

(* The handler has returned: the controller answers.                       *)
Answer(w) ==
    /\ job[w].pc = "next"
    /\ job[w].todo = <<>>
    /\ job' = [job EXCEPT ![w] = Idle]
    /\ answered' = answered \cup {job[w].req}
    /\ UNCHANGED <<tableVars, delivered, duplicates, failures>>

(* A handler throws or its process dies at any await: what it has written  *)
(* stays, and the request is not answered with success.                    *)
Fail(w) ==
    /\ job[w].pc # "idle"
    /\ failures < MaxFailures
    /\ failures' = failures + 1
    /\ job' = [job EXCEPT ![w] = Idle]
    /\ UNCHANGED <<tableVars, delivered, answered, duplicates>>

---------------------------------------------------------------------------
(* Tasks.  The requests' bookkeeping moves only with Start, Answer, Fail.  *)

Plan(w) ==
    /\ AtTask(w, "plan")
    /\ \E p \in ResolvedPlans(job[w].req) :
          job' = [job EXCEPT ![w].plan = p, ![w].todo = Tail(@)]
    /\ UNCHANGED <<tableVars, delivered, answered, duplicates, failures>>

(* 'No SubsPlan available in DB' is thrown: whatever was taken stays so.   *)
NoPlanToGive(w) ==
    /\ AtTask(w, "plan")
    /\ ResolvedPlans(job[w].req) = {}
    /\ job' = [job EXCEPT ![w] = Idle]
    /\ UNCHANGED <<tableVars, delivered, answered, duplicates, failures>>

(* Mutant: the loop over the sources breaks where it should continue.      *)
SkipStrangerBreaks(w) ==
    /\ AtTask(w, "give") \/ AtTask(w, "take")
    /\ TaskUser(w) \in Strangers
    /\ job' = [job EXCEPT ![w].todo =
                  FindPlan \o Each("give", TransferTargets(job[w].req))]
    /\ UNCHANGED <<tableVars, delivered, answered, duplicates, failures>>

(* A transfer names an id that is anonymous or has no account.             *)
SkipStranger(w) ==
    /\ AtTask(w, "give") \/ AtTask(w, "take")
    /\ TaskUser(w) \in Strangers
    /\ TaskDone(w)
    /\ UNCHANGED <<tableVars, delivered, answered, duplicates, failures>>

(* Mutants: only an active row is looked for; the user is not asked for.   *)
RowsToGiveActive(u) == Newest(ActiveRows(u))
RowsToGiveAnybodys(u) == Newest(1..Len(subs))

(* activateSubscription reads the user's newest row, active or not.        *)
RowsToGive(u) == Newest(RowsOf(u))

(* Mutant: the branch that creates a row is missing.                       *)
FindToGiveOnlyUpdates(w) ==
    /\ AtTask(w, "give")
    /\ TaskUser(w) \in Users
    /\ \E r \in FindFirst(RowsToGive(TaskUser(w))) :
          StepWithRow(w, IF r = 0 THEN "pay" ELSE "write", r)
    /\ UNCHANGED <<tableVars, delivered, answered, duplicates, failures>>

FindToGive(w) ==
    /\ AtTask(w, "give")
    /\ TaskUser(w) \in Users
    /\ \E r \in FindFirst(RowsToGive(TaskUser(w))) : StepWithRow(w, "write", r)
    /\ UNCHANGED <<tableVars, delivered, answered, duplicates, failures>>

(* deactivateSubscription and CANCELLATION read the newest active row and  *)
(* do nothing when there is none.                                          *)
FindActive(w) ==
    /\ AtTask(w, "take") \/ AtTask(w, "end")
    /\ TaskUser(w) \in Users
    /\ LET found == Newest(ActiveRows(TaskUser(w))) IN
          \/ found = {} /\ TaskDone(w)
          \/ \E r \in found : StepWithRow(w, "write", r)
    /\ UNCHANGED <<tableVars, delivered, answered, duplicates, failures>>

WritingTask(w, op) == job[w].pc = "write" /\ Head(job[w].todo).op = op

(* The row a create starts from: what subData does not set.                *)
BlankRow(u) ==
    [ userId |-> u, planId |-> None, type |-> "FREE", status |-> "active",
      isActive |-> TRUE, startDate |-> 0, endDate |-> None, isTrial |-> FALSE,
      trialEndsAt |-> FALSE, cancelAtPeriodEnd |-> FALSE, paystackSubId |-> None ]

StartOf(e) == IF e.purchasedAt = None THEN now ELSE e.purchasedAt

(* Mutant: isActive is missing from subData.                               *)
GivenRowKeepsFlag(w, old) ==
    LET e == job[w].req IN
    [old EXCEPT !.planId = job[w].plan, !.type = PlanType[job[w].plan],
                !.status = "active", !.startDate = StartOf(e),
                !.endDate = e.expiresAt, !.cancelAtPeriodEnd = FALSE]

(* subData of activateSubscription over the row that was found; the owner  *)
(* and the Paystack code are not among its columns.                        *)
GivenRow(w, old) ==
    LET e == job[w].req IN
    [old EXCEPT !.planId            = job[w].plan,
                !.type              = PlanType[job[w].plan],
                !.status            = IF e.trial THEN "trialing" ELSE "active",
                !.isActive          = TRUE,
                !.startDate         = StartOf(e),
                !.endDate           = e.expiresAt,
                !.isTrial           = e.trial,
                !.trialEndsAt       = e.trial /\ e.expiresAt # None,
                !.cancelAtPeriodEnd = FALSE]

Give(w) ==
    /\ WritingTask(w, "give")
    /\ LET r == job[w].row IN
          \/ /\ r = 0
             /\ Create(GivenRow(w, BlankRow(TaskUser(w))))
             /\ StepWithRow(w, "link", Len(subs) + 1)
          \/ /\ r # 0
             /\ Update(r, GivenRow(w, subs[r]))
             /\ Step(w, "link")
    /\ UNCHANGED <<now, plans, linked, payments, notices,
                   delivered, answered, duplicates, failures>>

(* user.update({ subscriptionId }) *)
Link(w) ==
    /\ job[w].pc = "link"
    /\ linked' = [linked EXCEPT ![TaskUser(w)] = job[w].row]
    /\ Step(w, "pay")
    /\ UNCHANGED <<now, plans, subs, payments, notices,
                   delivered, answered, duplicates, failures>>

(* recordPayment.  An error of the insert is caught and logged.            *)
Pay(w) ==
    /\ job[w].pc = "pay"
    /\ \/ /\ job[w].req.type \in PaidTypes
          /\ RecordPayment(TaskUser(w), job[w].req.ref)
          /\ UNCHANGED failures
       \/ job[w].req.type \notin PaidTypes /\ UNCHANGED <<payments, failures>>
       \/ /\ job[w].req.type \in PaidTypes
          /\ failures < MaxFailures
          /\ failures' = failures + 1
          /\ UNCHANGED payments
    /\ Step(w, "notify")
    /\ UNCHANGED <<now, plans, subs, linked, notices,
                   delivered, answered, duplicates>>

(* Mutants: isActive is forgotten; the reason is stored as it comes.       *)
TakenRowKeepsActive(w, r) == [subs[r] EXCEPT !.status = "expired"]
TakenRowRawReason(w, r) ==
    [subs[r] EXCEPT !.isActive = FALSE, !.status = job[w].req.type]

TakenRow(w, r) ==
    [subs[r] EXCEPT !.isActive = FALSE,
                    !.status = IF job[w].req.type = "TRANSFER"
                               THEN "transferred" ELSE "expired"]

Take(w) ==
    /\ WritingTask(w, "take")
    /\ Update(job[w].row, TakenRow(w, job[w].row))
    /\ TaskDone(w)
    /\ UNCHANGED <<now, plans, linked, payments, notices,
                   delivered, answered, duplicates, failures>>

(* Mutant: the subscription ends at once.                                  *)
EndingRowAtOnce(r) ==
    [subs[r] EXCEPT !.isActive = FALSE, !.status = "cancelled"]

EndingRow(r) ==
    [subs[r] EXCEPT !.cancelAtPeriodEnd = TRUE, !.status = "cancelled"]

(* CANCELLATION: renewal is off, the paid period goes on.                  *)
End(w) ==
    /\ WritingTask(w, "end")
    /\ Update(job[w].row, EndingRow(job[w].row))
    /\ Step(w, "notify")
    /\ UNCHANGED <<now, plans, linked, payments, notices,
                   delivered, answered, duplicates, failures>>

NoticeOf(w) ==
    IF Head(job[w].todo).op = "end" THEN {"CANCELLED"}
    ELSE IF job[w].req.type = "RENEWAL" THEN {"RENEWED"}
    ELSE IF job[w].req.type \in ToldTypes THEN {"ACTIVATED"}
    ELSE {}

(* createNotification.  Its errors are caught and logged.                  *)
Notify(w) ==
    /\ job[w].pc = "notify"
    /\ \/ /\ notices' = notices \cup ({TaskUser(w)} \X NoticeOf(w))
          /\ UNCHANGED failures
       \/ /\ NoticeOf(w) # {}
          /\ failures < MaxFailures
          /\ failures' = failures + 1
          /\ UNCHANGED notices
    /\ TaskDone(w)
    /\ UNCHANGED <<now, plans, subs, linked, payments,
                   delivered, answered, duplicates>>

---------------------------------------------------------------------------
RcStep(w) ==
    \/ Answer(w)
    \/ Plan(w) \/ NoPlanToGive(w) \/ SkipStranger(w)
    \/ FindToGive(w) \/ Give(w) \/ Link(w) \/ Pay(w)
    \/ FindActive(w) \/ Take(w) \/ End(w)
    \/ Notify(w)

RcNext ==
    \E w \in Workers :
        \/ \E e \in Requests : Receive(w, e) \/ Duplicate(w, e)
        \/ RcStep(w)
        \/ Fail(w)

Init == TableInit /\ RcInit

Next == RcNext

Spec == Init /\ [][Next]_vars

(* Node resumes every handler whose await has completed, and RevenueCat    *)
(* repeats an event until it has had success.  The server takes any number *)
(* of requests; strong fairness makes up for the small set of Workers.     *)
(* Nothing is assumed of Fail, of duplicates or of a client's sync calls.  *)
Fairness ==
    /\ \A w \in Workers : WF_vars(RcStep(w))
    /\ \A e \in Requests : e.via = "webhook" =>
          SF_vars(\E w \in Workers : Receive(w, e))

FairSpec == Spec /\ Fairness

---------------------------------------------------------------------------
(* Properties of any interleaving (besides those of SubscriptionTable)     *)

(* A payment row is inserted once per handler run: counting the first      *)
(* delivery of every request that carries the reference, a surplus row     *)
(* needs a surplus delivery or a handler that failed and was repeated.     *)
PaymentsComeFromDeliveries ==
    \A u \in Users, ref \in Refs :
        payments[<<u, ref>>] <=
            Cardinality({e \in delivered : e.type \in PaidTypes /\ e.ref = ref})
                + duplicates + failures

---------------------------------------------------------------------------
(* Properties of handlers that run one at a time (a single worker), with   *)
(* lost answers, crashes, duplicates and any order of events               *)

(* activateSubscription looks a row up before it creates one, so a user    *)
(* has at most one.                                                        *)
OneRowPerUser ==
    \A i, j \in 1..Len(subs) : subs[i].userId = subs[j].userId => i = j

(* handleTransfer: once it is past the users the purchase is transferred   *)
(* away from, none of them has premium left (unless they are also a        *)
(* target), so one purchase never serves two accounts.                     *)
TransferSourceRetired ==
    \A w \in Workers :
        LET e == job[w].req IN
        /\ job[w].pc # "idle"
        /\ SubscriptionRequired
        /\ e.type = "TRANSFER"
        /\ \A i \in DOMAIN job[w].todo : job[w].todo[i].op # "take"
        => \A i \in DOMAIN e.from :
              e.from[i] \in Users =>
                  \/ ActiveRows(e.from[i]) = {}
                  \/ \E k \in DOMAIN TransferTargets(e) :
                        TransferTargets(e)[k] = e.from[i]

(* syncFromClient answers premium: true; "the app can call this so premium *)
(* unlocks even if the webhook is delayed": when it answers, it has.       *)
SyncAnswersTheTruth ==
    \A w \in Workers :
        /\ job[w].pc = "next"
        /\ job[w].todo = <<>>
        /\ SubscriptionRequired
        /\ job[w].req.via = "sync"
        => \E u \in ResolvedUsers(job[w].req) : \E r \in ActiveRows(u) :
              subs[r].planId = job[w].plan /\ linked[u] = r

(* The component implements StoreEntitlement.                              *)
EntOf(u) ==
    IF RowsOf(u) = {} THEN "none"
    ELSE IF ActiveRows(u) = {} THEN "off"
    ELSE IF \E r \in ActiveRows(u) : ~subs[r].cancelAtPeriodEnd THEN "on"
    ELSE "ending"

OrdersIn(todo) ==
    {todo[i] : i \in {i \in DOMAIN todo : todo[i].op # "plan"}}

Promise == INSTANCE StoreEntitlement
    WITH ent <- [u \in Users |-> EntOf(u)],
         orders <- {t \in UNION {UNION {OrdersIn(todo) : todo \in TaskLists(e)} :
                                    e \in delivered} : t.user \in Users}

(* A user's premium moves only as the store's orders for that user allow.  *)
ImplementsEntitlement == Promise!Spec

---------------------------------------------------------------------------
(* Liveness under FairSpec                                                 *)

(* Every store event is answered with success sooner or later (RevenueCat  *)
(* stops repeating it), an event for an id with no account included:       *)
(* handleWebhook does not throw for those, "RC would retry forever".  Only *)
(* a database without a paid plan keeps a handler throwing.                *)
EveryEventIsAnswered ==
    (\E p \in plans : PlanType[p] # "FREE") =>
        \A e \in Requests : e.via = "webhook" => <>(e \in answered)
=============================================================================
