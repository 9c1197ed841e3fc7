------------------------ MODULE SubscriptionService ------------------------
(***************************************************************************)
(* src/modules/subscription: trials, card charges through Paystack, the    *)
(* status call, cancelling, and the Paystack webhook.                      *)
(*                                                                         *)
(* Each call runs in one of the Callers; a step is what one call does      *)
(* between two awaits.  Paystack itself (card charges, its recurring       *)
(* subscriptions, the events it sends) is external: charges, remote and    *)
(* hooks hold what the code can learn from it.  The webhook controller     *)
(* answers 200 before it works on an event, so an event is handled at most *)
(* once per delivery and is lost if its handler fails.                     *)
(***************************************************************************)
EXTENDS SubscriptionTable

CONSTANTS
    Callers,        \* the calls and webhook events that can be in flight
    PlanInterval,   \* [Plans -> Intervals]: SubsPlan.interval
    PlanCount,      \* [Plans -> Nat]: SubsPlan.intervalCount, 0 for null
    Priced,         \* the plans with a price above 0
    Coded,          \* those Paystack knows: paystackPlanCode is not null
    MonthDays,      \* the days of a month
    TrialDays,      \* plan.trialDays or the configured default
    MaxDay,         \* bound of the clock
    MaxMoves,       \* bound: accounts that take another address
    MaxMishaps      \* bound: errors, crashes, lost and duplicated events

Intervals == {"monthly", "quarterly", "biannually", "annually", "none"}

ASSUME PlanPeriods ==
    /\ PlanInterval \in [Plans -> Intervals]
    /\ PlanCount \in [Plans -> Nat]
    /\ Priced \subseteq Plans /\ Coded \subseteq Priced
    /\ MonthDays \in Nat /\ TrialDays \in Nat
    /\ MaxDay \in Nat /\ MaxMishaps \in Nat /\ MaxMoves \in Nat

VARIABLES
    call,       \* [Callers -> Call]: the handlers in flight
    charges,    \* [Refs -> Charge]: Paystack's transactions
    remote,     \* Paystack's active recurring subscriptions, by code
    hooks,      \* webhook events on their way to the backend
    mishaps,    \* how many errors, crashes, losses and duplicates there were
    email,      \* [Users -> Addresses]: User.email, which is unique
    held,       \* <<user, address>>: every address an account has had
    moves       \* how many accounts took another address

addressVars == <<email, held, moves>>
psVars == <<call, charges, remote, hooks, mishaps, addressVars>>
vars == <<tableVars, psVars>>

---------------------------------------------------------------------------
(* Types *)

(* A transaction with its metadata {planId, userId} and its customer's     *)
(* address; None is an unused reference.  Amounts are left out.            *)
Charge == [ state : {"otp", "paid", "failed"}, user : Users,
            email : Addresses, plan : Plans ]

ASSUME NoneIsNoCharge == None \notin Charge

Hook == [event : {"create", "disable"}, code : Code] \cup
        [event : {"success"}, ref : Refs]

CallPC == {"trialActive", "trialCreate", "statusWrite", "chargeRow", "charge",
           "verify", "subscribe", "find", "write", "pay", "notify", "disable",
           "cancelWrite", "createRow", "codeWrite", "successRow", "renewWrite",
           "disableWrite"}

(* The locals a handler keeps across its awaits.                           *)
Call == [ pc   : CallPC,
          user : Users,
          email : Addresses \cup {None},  \* as it was when it was read
          plan : Plans \cup {None},
          row  : Nat,
          ref  : Refs \cup {None},
          code : Code,
          day  : Date,          \* a date worked out before the write
          says : NoticeTypes ]  \* the notification it ends with

NoCall == [pc |-> "idle"]

NewCall(pc, u) == [pc |-> pc, user |-> u, email |-> None, plan |-> None,
                   row |-> 0, ref |-> None, code |-> None, day |-> None,
                   says |-> "ACTIVATED"]

TypeOK ==
    /\ TableTypeOK
    /\ call \in [Callers -> Call \cup {NoCall}]
    /\ charges \in [Refs -> Charge \cup {None}]
    /\ remote \subseteq Code
    /\ hooks \subseteq Hook
    /\ mishaps \in 0..MaxMishaps
    /\ email \in [Users -> Addresses]
    /\ held \subseteq Users \X Addresses
    /\ moves \in 0..MaxMoves

Begins(c, newCall) == call[c] = NoCall /\ call' = [call EXCEPT ![c] = newCall]

At(c, pc) == call[c].pc = pc

Goto(c, pc) == call' = [call EXCEPT ![c].pc = pc]

Finish(c) == call' = [call EXCEPT ![c] = NoCall]

Mishap == mishaps < MaxMishaps /\ mishaps' = mishaps + 1

PsInit ==
    /\ call = [c \in Callers |-> NoCall]
    /\ charges = [ref \in Refs |-> None]
    /\ remote = {}
    /\ hooks = {}
    /\ mishaps = 0
    /\ email \in {f \in [Users -> Addresses] :
                    \A u, v \in Users : f[u] = f[v] => u = v}
    /\ held = {<<u, email[u]>> : u \in Users}
    /\ moves = 0

---------------------------------------------------------------------------
(* Modules auth and admin/user: an account takes an address nobody has:    *)
(* it is changed, or anonymized when the account is deleted, or a new      *)
(* account comes to have it.  Accounts spells those handlers out.          *)
MoveAddress(u, a) ==
    /\ moves < MaxMoves
    /\ \A v \in Users : email[v] # a
    /\ email' = [email EXCEPT ![u] = a]
    /\ held' = held \cup {<<u, a>>}
    /\ moves' = moves + 1
    /\ UNCHANGED <<tableVars, call, charges, remote, hooks, mishaps>>

---------------------------------------------------------------------------
(* startTrial *)

(* Mutant: a trial counts only while it runs.                              *)
UsedTrialsRunning(u) ==
    {i \in ActiveRows(u) : subs[i].isTrial /\ subs[i].trialEndsAt}

(* The trials on record, running or over.                                  *)
UsedTrials(u) == {i \in RowsOf(u) : subs[i].isTrial /\ subs[i].trialEndsAt}

(* The first read: a user with a trial on record is refused.               *)
StartTrial(c, u, p) ==
    /\ p \in plans /\ PlanType[p] = "TRIALING"
    /\ UsedTrials(u) = {}
    /\ Begins(c, [NewCall("trialActive", u) EXCEPT !.plan = p])
    /\ UNCHANGED <<tableVars, charges, remote, hooks, mishaps, addressVars>>

(* The second read: some active row, if there is one; only a FREE one      *)
(* lets the trial start.                                                   *)
TrialActive(c) ==
    /\ At(c, "trialActive")
    /\ \E r \in FindFirst(ActiveRows(call[c].user)) :
          \/ r # 0 /\ subs[r].type # "FREE" /\ Finish(c)
          \/ /\ r # 0 => subs[r].type = "FREE"
             /\ call' = [call EXCEPT ![c].pc = "trialCreate", ![c].row = r]
    /\ UNCHANGED <<tableVars, charges, remote, hooks, mishaps, addressVars>>

TrialRow(c) ==
    [ userId |-> call[c].user, planId |-> call[c].plan,
      type |-> PlanType[call[c].plan], status |-> "trialing",
      isActive |-> TRUE, startDate |-> now, endDate |-> now + TrialDays,
      isTrial |-> TRUE, trialEndsAt |-> TRUE, cancelAtPeriodEnd |-> FALSE,
      paystackSubId |-> None ]

(* The write.  With an active FREE row nothing is written.                 *)
TrialCreate(c) ==
    /\ At(c, "trialCreate")
    /\ \/ call[c].row = 0 /\ Create(TrialRow(c))
       \/ call[c].row # 0 /\ UNCHANGED subs
    /\ Finish(c)
    /\ UNCHANGED <<now, plans, linked, payments, notices,
                   charges, remote, hooks, mishaps, addressVars>>

---------------------------------------------------------------------------
(* getSubscriptionStatus.  A call that finds an active row before its end  *)
(* refreshes remainingDays, a column nobody decides by; Billing has that   *)
(* write, for its updatedAt.                                               *)

Status(c, u) ==
    /\ \E r \in ActiveRows(u) :
          /\ subs[r].endDate # None
          /\ now > subs[r].endDate
          /\ Begins(c, [NewCall("statusWrite", u) EXCEPT !.row = r])
    /\ UNCHANGED <<tableVars, charges, remote, hooks, mishaps, addressVars>>

(* The row that was found to have ended is downgraded.                     *)
StatusWrite(c) ==
    /\ At(c, "statusWrite")
    /\ LET r == call[c].row IN
          Update(r, [subs[r] EXCEPT !.isActive = FALSE, !.status = "expired",
                                    !.type = "FREE"])
    /\ Finish(c)
    /\ UNCHANGED <<now, plans, linked, payments, notices,
                   charges, remote, hooks, mishaps, addressVars>>

---------------------------------------------------------------------------
(* createPlanAndPrice; its Paystack counterpart is best effort.            *)
CreatePlan(p) ==
    /\ plans' = plans \cup {p}
    /\ UNCHANGED <<now, subs, linked, payments, notices, psVars>>

Or(n, default) == IF n = 0 THEN default ELSE n

(* How far plan p moves the end date, in months.                           *)
PeriodMonths(p) ==
    CASE PlanInterval[p] = "monthly"    -> Or(PlanCount[p], 1)
      [] PlanInterval[p] = "quarterly"  -> Or(PlanCount[p], 3)
      [] PlanInterval[p] = "biannually" -> Or(PlanCount[p], 6)
      [] PlanInterval[p] = "annually"   -> 12 * Or(PlanCount[p], 1)
      [] OTHER                          -> 0

PeriodEnd(p) == now + PeriodMonths(p) * MonthDays

---------------------------------------------------------------------------
(* Paystack (external) *)

Unused == {ref \in Refs : charges[ref] = None}

RemoteCode(a, ref) == [kind |-> "SUB", email |-> a, ref |-> ref]

(* The recurring subscriptions Paystack holds for a customer and a plan.   *)
RemoteOf(a, p) == {k \in remote : k.email = a /\ charges[k.ref].plan = p}

(* Paystack settles transaction ref of customer a, whose metadata name     *)
(* user u and plan p: its state, the event it sends, and the recurring     *)
(* subscription a paid one with a plan may start.  It refuses to charge    *)
(* nothing.                                                                *)
Settle(ref, state, u, a, p) ==
    /\ p \in Priced \/ state = "failed"
    /\ charges' = [charges EXCEPT ![ref] = [state |-> state, user |-> u,
                                            email |-> a, plan |-> p]]
    /\ \/ state # "paid" /\ UNCHANGED <<remote, hooks>>
       \/ /\ state = "paid"
          /\ hooks' = hooks \cup {[event |-> "success", ref |-> ref]}
          /\ UNCHANGED remote
       \/ /\ state = "paid"
          /\ p \in Coded /\ RemoteOf(a, p) = {}
          /\ remote' = remote \cup {RemoteCode(a, ref)}
          /\ hooks' = hooks \cup {[event |-> "success", ref |-> ref],
                                  [event |-> "create",
                                   code |-> RemoteCode(a, ref)]}

(* A recurring subscription is charged again: the same card, customer and  *)
(* plan.                                                                   *)
RemoteRenews(k) ==
    /\ k \in remote
    /\ \E ref \in Unused :
          /\ charges' = [charges EXCEPT ![ref] = charges[k.ref]]
          /\ hooks' = hooks \cup {[event |-> "success", ref |-> ref]}
    /\ UNCHANGED <<tableVars, call, remote, mishaps, addressVars>>

(* The event never comes, or the server dies before it works on it.        *)
LoseHook(h) ==
    /\ h \in hooks
    /\ Mishap
    /\ hooks' = hooks \ {h}
    /\ UNCHANGED <<tableVars, call, charges, remote, addressVars>>

---------------------------------------------------------------------------
(* chargeCard and submitOtp *)

(* chargeCard's check: an active row that has not ended refuses the card.  *)
MayCharge(r) ==
    ~(r # 0 /\ subs[r].endDate # None /\ now < subs[r].endDate)

(* The first read, of the user, is where the customer's address is from.   *)
ChargeCard(c, u, p) ==
    /\ p \in plans
    /\ Begins(c, [NewCall("chargeRow", u) EXCEPT !.email = email[u],
                                                 !.plan = p])
    /\ UNCHANGED <<tableVars, charges, remote, hooks, mishaps, addressVars>>

ChargeRow(c) ==
    /\ At(c, "chargeRow")
    /\ \E r \in FindFirst(ActiveRows(call[c].user)) :
          \/ MayCharge(r) /\ Goto(c, "charge")
          \/ ~MayCharge(r) /\ Finish(c)
    /\ UNCHANGED <<tableVars, charges, remote, hooks, mishaps, addressVars>>

(* Mutant: a charge that waits for its OTP is activated too.               *)
ChargedBeforeOtp(c) ==
    /\ At(c, "charge")
    /\ \E ref \in Unused, state \in {"paid", "otp", "failed"} :
          /\ Settle(ref, state, call[c].user, call[c].email, call[c].plan)
          /\ \/ /\ state # "failed"
                /\ call' = [call EXCEPT ![c].pc = "subscribe", ![c].ref = ref,
                                        ![c].day = PeriodEnd(call[c].plan)]
             \/ state = "failed" /\ Finish(c)
    /\ UNCHANGED <<tableVars, mishaps, addressVars>>

(* PaystackPayment.chargeCard answers; a paid charge is activated with the *)
(* end date worked out now.                                                *)
Charged(c) ==
    /\ At(c, "charge")
    /\ \E ref \in Unused, state \in {"paid", "otp", "failed"} :
          /\ Settle(ref, state, call[c].user, call[c].email, call[c].plan)
          /\ \/ /\ state = "paid"
                /\ call' = [call EXCEPT ![c].pc = "subscribe", ![c].ref = ref,
                                        ![c].day = PeriodEnd(call[c].plan)]
             \/ state # "paid" /\ Finish(c)
    /\ UNCHANGED <<tableVars, mishaps, addressVars>>

(* Mutant: the answer's status is not looked at.                           *)
SubmitOtpAnyAnswer(c, ref) ==
    /\ charges[ref] # None
    /\ charges[ref].state = "otp"
    /\ LET u == charges[ref].user
           a == charges[ref].email
           p == charges[ref].plan IN
          /\ \E state \in {"paid", "failed"} : Settle(ref, state, u, a, p)
          /\ Begins(c, [NewCall("verify", u) EXCEPT !.plan = p, !.ref = ref])
    /\ UNCHANGED <<tableVars, mishaps, addressVars>>

(* PaystackPayment.submitOtp answers.  The handler looks at nothing of its *)
(* own database first.                                                     *)
SubmitOtp(c, ref) ==
    /\ charges[ref] # None
    /\ charges[ref].state = "otp"
    /\ LET u == charges[ref].user
           a == charges[ref].email
           p == charges[ref].plan IN
          \/ /\ Settle(ref, "paid", u, a, p)
             /\ Begins(c, [NewCall("verify", u) EXCEPT !.plan = p, !.ref = ref])
          \/ /\ call[c] = NoCall
             /\ Settle(ref, "failed", u, a, p)
             /\ UNCHANGED call
    /\ UNCHANGED <<tableVars, mishaps, addressVars>>

(* verifyTransaction gives the user and the plan back from the metadata.   *)
Verify(c) ==
    /\ At(c, "verify")
    /\ call' = [call EXCEPT ![c].pc = "subscribe",
                            ![c].day = PeriodEnd(call[c].plan)]
    /\ UNCHANGED <<tableVars, charges, remote, hooks, mishaps, addressVars>>

---------------------------------------------------------------------------
(* activateSubscription *)

(* createSubscription for the transaction's customer, or the existing one  *)
(* if Paystack says there is one.  When neither works, as without a plan   *)
(* code, the code is paystack_ref_<reference>.                             *)
Subscribe(c) ==
    /\ At(c, "subscribe")
    /\ LET ref == call[c].ref
           p == call[c].plan
           a == charges[ref].email
           Got(code) == call' = [call EXCEPT ![c].pc = "find",
                                             ![c].code = code]
       IN \/ /\ p \in Coded /\ RemoteOf(a, p) = {}
             /\ Got(RemoteCode(a, ref))
             /\ remote' = remote \cup {RemoteCode(a, ref)}
             /\ hooks' = hooks \cup {[event |-> "create",
                                      code |-> RemoteCode(a, ref)]}
             /\ UNCHANGED mishaps
          \/ /\ \E k \in RemoteOf(a, p) : Got(k)
             /\ UNCHANGED <<remote, hooks, mishaps>>
          \/ /\ IF p \in Coded THEN Mishap ELSE UNCHANGED mishaps
             /\ Got([kind |-> "ref", email |-> a, ref |-> ref])
             /\ UNCHANGED <<remote, hooks>>
    /\ UNCHANGED <<tableVars, charges, addressVars>>

(* Mutants: the user is not asked for; only an active row is looked for.   *)
RowsToPayAnybodys(u, p) == {i \in DOMAIN subs : subs[i].type = PlanType[p]}
RowsToPayActive(u, p) == {i \in ActiveRows(u) : subs[i].type = PlanType[p]}

(* findFirst({ userId, type: plan.type }), whatever its state.             *)
RowsToPay(u, p) == {i \in RowsOf(u) : subs[i].type = PlanType[p]}

(* Mutant: the branch that creates a row is missing.                       *)
FindOnlyUpdates(c) ==
    /\ At(c, "find")
    /\ \E r \in FindFirst(RowsToPay(call[c].user, call[c].plan)) :
          call' = [call EXCEPT ![c].pc = IF r = 0 THEN "pay" ELSE "write",
                               ![c].row = r]
    /\ UNCHANGED <<tableVars, charges, remote, hooks, mishaps, addressVars>>

Find(c) ==
    /\ At(c, "find")
    /\ \E r \in FindFirst(RowsToPay(call[c].user, call[c].plan)) :
          call' = [call EXCEPT ![c].pc = "write", ![c].row = r]
    /\ UNCHANGED <<tableVars, charges, remote, hooks, mishaps, addressVars>>

(* subData over the row that was found; the trial columns stay.            *)
PaidRow(c, old) ==
    [old EXCEPT !.userId = call[c].user, !.planId = call[c].plan,
                !.type = PlanType[call[c].plan], !.status = "active",
                !.isActive = TRUE, !.startDate = now, !.endDate = call[c].day,
                !.cancelAtPeriodEnd = FALSE, !.paystackSubId = call[c].code]

BlankRow(c) ==
    [TrialRow(c) EXCEPT !.isTrial = FALSE, !.trialEndsAt = FALSE]

(* users: { connect } sets User.subscriptionId in the same statement.      *)
Write(c) ==
    /\ At(c, "write")
    /\ LET r == call[c].row
           id == IF r = 0 THEN Len(subs) + 1 ELSE r IN
          /\ \/ r = 0 /\ Create(PaidRow(c, BlankRow(c)))
             \/ r # 0 /\ Update(r, PaidRow(c, subs[r]))
          /\ linked' = [linked EXCEPT ![call[c].user] = id]
    /\ Goto(c, "pay")
    /\ UNCHANGED <<now, plans, payments, notices,
                   charges, remote, hooks, mishaps, addressVars>>

(* One try block holds the payment row and the notification: an error of   *)
(* the first skips the second.                                             *)
Pay(c) ==
    /\ At(c, "pay")
    /\ \/ /\ RecordPayment(call[c].user, call[c].ref)
          /\ Goto(c, "notify")
          /\ UNCHANGED mishaps
       \/ Mishap /\ Finish(c) /\ UNCHANGED payments
    /\ UNCHANGED <<now, plans, subs, linked, notices,
                   charges, remote, hooks, addressVars>>

Notify(c) ==
    /\ At(c, "notify")
    /\ \/ /\ notices' = notices \cup {<<call[c].user, call[c].says>>}
          /\ UNCHANGED mishaps
       \/ Mishap /\ UNCHANGED notices
    /\ Finish(c)
    /\ UNCHANGED <<now, plans, subs, linked, payments,
                   charges, remote, hooks, addressVars>>

---------------------------------------------------------------------------
(* cancelSubscription *)

Cancel(c, u) ==
    /\ \E r \in ActiveRows(u) :
          Begins(c, [NewCall("disable", u) EXCEPT
                         !.row = r, !.code = subs[r].paystackSubId,
                         !.says = "CANCELLED"])
    /\ UNCHANGED <<tableVars, charges, remote, hooks, mishaps, addressVars>>

IsRemote(code) == code # None /\ code.kind = "SUB"

(* Only a SUB_ code is disabled at Paystack; an error there is logged and  *)
(* the local cancellation goes on.                                         *)
Disable(c) ==
    /\ At(c, "disable")
    /\ LET code == call[c].code IN
          \/ /\ IsRemote(code)
             /\ remote' = remote \ {code}
             /\ hooks' = hooks \cup {[event |-> "disable", code |-> code]}
             /\ UNCHANGED mishaps
          \/ ~IsRemote(code) /\ UNCHANGED <<remote, hooks, mishaps>>
          \/ IsRemote(code) /\ Mishap /\ UNCHANGED <<remote, hooks>>
    /\ Goto(c, "cancelWrite")
    /\ UNCHANGED <<tableVars, charges, addressVars>>

(* Mutant: the status is missing from the update.                          *)
CancelWriteKeepsStatus(c) ==
    /\ At(c, "cancelWrite")
    /\ LET r == call[c].row IN
          Update(r, [subs[r] EXCEPT !.isActive = FALSE,
                                    !.cancelAtPeriodEnd = TRUE])
    /\ Goto(c, "notify")
    /\ UNCHANGED <<now, plans, linked, payments, notices,
                   charges, remote, hooks, mishaps, addressVars>>

CancelWrite(c) ==
    /\ At(c, "cancelWrite")
    /\ LET r == call[c].row IN
          Update(r, [subs[r] EXCEPT !.isActive = FALSE, !.status = "canceled",
                                    !.cancelAtPeriodEnd = TRUE])
    /\ Goto(c, "notify")
    /\ UNCHANGED <<now, plans, linked, payments, notices,
                   charges, remote, hooks, mishaps, addressVars>>

---------------------------------------------------------------------------
(* handleWebhook *)

(* An event is taken; a duplicate of it may still be on its way.           *)
Take(h) ==
    /\ h \in hooks
    /\ \/ hooks' = hooks \ {h} /\ UNCHANGED mishaps
       \/ Mishap /\ UNCHANGED hooks

(* findUnique({ email: data.customer.email }): who has the address now.    *)
Customers(a) == {u \in Users : email[u] = a}

(* Nobody has the address, or there is no row: the handler returns.        *)
Ignores(c) == call[c] = NoCall /\ UNCHANGED call

HandleSubscriptionCreate(c, h) ==
    /\ h.event = "create"
    /\ Take(h)
    /\ \/ Customers(h.code.email) = {} /\ Ignores(c)
       \/ \E u \in Customers(h.code.email) :
             Begins(c, [NewCall("createRow", u) EXCEPT !.code = h.code])
    /\ UNCHANGED <<tableVars, charges, remote, addressVars>>

(* The row of the user it found goes on to the write, if there is one.     *)
Chooses(c, r, pc) ==
    \/ r = 0 /\ Finish(c)
    \/ r # 0 /\ call' = [call EXCEPT ![c].pc = pc, ![c].row = r]

(* Mutant: userId is missing from the query.                               *)
CreateRowAnybodys(c) ==
    /\ At(c, "createRow")
    /\ \E r \in FindFirst({i \in DOMAIN subs : subs[i].isActive}) :
          Chooses(c, r, "codeWrite")
    /\ UNCHANGED <<tableVars, charges, remote, hooks, mishaps, addressVars>>

CreateRow(c) ==
    /\ At(c, "createRow")
    /\ \E r \in FindFirst(ActiveRows(call[c].user)) : Chooses(c, r, "codeWrite")
    /\ UNCHANGED <<tableVars, charges, remote, hooks, mishaps, addressVars>>

CodeWrite(c) ==
    /\ At(c, "codeWrite")
    /\ LET r == call[c].row IN
          Update(r, [subs[r] EXCEPT !.paystackSubId = call[c].code])
    /\ Finish(c)
    /\ UNCHANGED <<now, plans, linked, payments, notices,
                   charges, remote, hooks, mishaps, addressVars>>

(* A charge without a plan of Paystack's is none of the handler's.         *)
Renewed(ref) ==
    IF charges[ref].plan \in Coded THEN Customers(charges[ref].email) ELSE {}

HandleChargeSuccess(c, h) ==
    /\ h.event = "success"
    /\ Take(h)
    /\ \/ Renewed(h.ref) = {} /\ Ignores(c)
       \/ \E u \in Renewed(h.ref) :
             Begins(c, [NewCall("successRow", u) EXCEPT
                           !.ref = h.ref, !.says = "RENEWED"])
    /\ UNCHANGED <<tableVars, charges, remote, addressVars>>

(* The end date follows from the plan of the row that was read.            *)
SuccessRow(c) ==
    /\ At(c, "successRow")
    /\ \E r \in FindFirst(ActiveRows(call[c].user)) :
          \/ r = 0 /\ Finish(c)
          \/ /\ r # 0
             /\ call' = [call EXCEPT ![c].pc = "renewWrite", ![c].row = r,
                                     ![c].day = PeriodEnd(subs[r].planId)]
    /\ UNCHANGED <<tableVars, charges, remote, hooks, mishaps, addressVars>>

(* Mutant: a renewal switches the row on.                                  *)
RenewWriteWakes(c) ==
    /\ At(c, "renewWrite")
    /\ LET r == call[c].row IN
          Update(r, [subs[r] EXCEPT !.endDate = call[c].day, !.status = "active",
                                    !.isActive = TRUE])
    /\ Goto(c, "pay")
    /\ UNCHANGED <<now, plans, linked, payments, notices,
                   charges, remote, hooks, mishaps, addressVars>>

(* isActive is not among the columns.                                      *)
RenewWrite(c) ==
    /\ At(c, "renewWrite")
    /\ LET r == call[c].row IN
          Update(r, [subs[r] EXCEPT !.endDate = call[c].day,
                                    !.status = "active"])
    /\ Goto(c, "pay")
    /\ UNCHANGED <<now, plans, linked, payments, notices,
                   charges, remote, hooks, mishaps, addressVars>>

(* No user is looked up; the call is that of the row's owner.              *)
HandleSubscriptionDisable(c, h) ==
    /\ h.event = "disable"
    /\ Take(h)
    /\ \E r \in FindFirst({i \in DOMAIN subs : subs[i].paystackSubId = h.code}) :
          \/ r = 0 /\ Ignores(c)
          \/ /\ r # 0
             /\ Begins(c, [NewCall("disableWrite", subs[r].userId) EXCEPT
                               !.row = r])
    /\ UNCHANGED <<tableVars, charges, remote, addressVars>>

(* Mutants: isActive is missing from the update; the status is the event's *)
(* name.                                                                   *)
DisableWriteKeepsFlag(c) ==
    /\ At(c, "disableWrite")
    /\ LET r == call[c].row IN Update(r, [subs[r] EXCEPT !.status = "canceled"])
    /\ Finish(c)
    /\ UNCHANGED <<now, plans, linked, payments, notices,
                   charges, remote, hooks, mishaps, addressVars>>

DisableWriteRawStatus(c) ==
    /\ At(c, "disableWrite")
    /\ LET r == call[c].row IN
          Update(r, [subs[r] EXCEPT !.isActive = FALSE, !.status = "disable"])
    /\ Finish(c)
    /\ UNCHANGED <<now, plans, linked, payments, notices,
                   charges, remote, hooks, mishaps, addressVars>>

DisableWrite(c) ==
    /\ At(c, "disableWrite")
    /\ LET r == call[c].row IN
          Update(r, [subs[r] EXCEPT !.isActive = FALSE, !.status = "canceled"])
    /\ Finish(c)
    /\ UNCHANGED <<now, plans, linked, payments, notices,
                   charges, remote, hooks, mishaps, addressVars>>

---------------------------------------------------------------------------
(* A handler throws, or its process dies, at any await.                    *)
Crash(c) ==
    /\ call[c] # NoCall
    /\ Mishap
    /\ Finish(c)
    /\ UNCHANGED <<tableVars, charges, remote, hooks, addressVars>>

Tick ==
    /\ now < MaxDay
    /\ now' = now + 1
    /\ UNCHANGED <<plans, subs, linked, payments, notices, psVars>>

PsStep(c) ==
    \/ TrialActive(c) \/ TrialCreate(c) \/ StatusWrite(c)
    \/ ChargeRow(c) \/ Charged(c) \/ Verify(c)
    \/ Subscribe(c) \/ Find(c) \/ Write(c)
    \/ Pay(c) \/ Notify(c) \/ Disable(c) \/ CancelWrite(c)
    \/ CreateRow(c) \/ CodeWrite(c) \/ SuccessRow(c) \/ RenewWrite(c)
    \/ DisableWrite(c)

PsNext ==
    \/ \E c \in Callers :
          \/ \E u \in Users : Status(c, u) \/ Cancel(c, u)
          \/ \E u \in Users, p \in Plans :
                StartTrial(c, u, p) \/ ChargeCard(c, u, p)
          \/ \E ref \in Refs : SubmitOtp(c, ref)
          \/ \E h \in hooks : \/ HandleSubscriptionCreate(c, h)
                              \/ HandleChargeSuccess(c, h)
                              \/ HandleSubscriptionDisable(c, h)
          \/ PsStep(c)
          \/ Crash(c)
    \/ \E p \in Plans : CreatePlan(p)
    \/ \E k \in remote : RemoteRenews(k)
    \/ \E h \in hooks : LoseHook(h)
    \/ \E u \in Users, a \in Addresses : MoveAddress(u, a)

Init == TableInit /\ PsInit

Next == PsNext \/ Tick

Spec == Init /\ [][Next]_vars

---------------------------------------------------------------------------
(* Properties of any interleaving (besides those of SubscriptionTable)     *)

(* A payment row says that Paystack took this money under this very        *)
(* reference, never for a charge that waits for its OTP or was refused,    *)
(* and from a customer whose address the account of the row has had.  An   *)
(* event goes by that address, so where addresses change hands the account *)
(* need not be the one that was charged.                                   *)
PaymentsWereCharged ==
    \A u \in Users, ref \in Refs :
        payments[<<u, ref>>] > 0 =>
            charges[ref] # None /\ charges[ref].state = "paid"
                                /\ <<u, charges[ref].email>> \in held

(* A row this service made active is a trial, or its owner has paid for    *)
(* the plan it names.                                                      *)
PremiumWasPaid ==
    \A i \in DOMAIN subs :
        subs[i].isActive =>
            \/ subs[i].isTrial
            \/ \E ref \in Refs :
                  /\ charges[ref] # None
                  /\ charges[ref].state = "paid"
                  /\ charges[ref].user = subs[i].userId
                  /\ charges[ref].plan = subs[i].planId

(* cancelSubscription disables the code a row carries at Paystack.  The    *)
(* code is of a customer whose address the row's owner has had: whoever    *)
(* cancels ends nobody's subscription with whom he never shared one.       *)
CodeOfAddress ==
    \A i \in DOMAIN subs :
        subs[i].paystackSubId # None =>
            <<subs[i].userId, subs[i].paystackSubId.email>> \in held

(* A row that was switched off (ended, cancelled, disabled by Paystack)    *)
(* is switched on again by a new charge only: no late event and no stale   *)
(* read of another handler brings premium back.                            *)
OnlyChargesWakeRows ==
    [][\A i \in DOMAIN subs :
          ~subs[i].isActive /\ subs'[i].isActive =>
              \E c \in Callers : At(c, "write") /\ call[c].row = i]_vars

---------------------------------------------------------------------------
(* Properties of calls that run one at a time (a single caller), with      *)
(* events of Paystack late, lost, twice and in any order                   *)

(* startTrial: "Check if user has ever used a trial".                      *)
OneTrialPerUser ==
    \A i, j \in DOMAIN subs :
        /\ subs[i].userId = subs[j].userId
        /\ subs[i].isTrial /\ subs[j].isTrial
        => i = j

(* activateSubscription reuses the row of the plan's type, so a user who   *)
(* cancels and pays again keeps one row per type: chargeCard, cancel and   *)
(* the guards, which all take "some active row", then mean the same one.   *)
OneRowPerType ==
    \A i, j \in DOMAIN subs :
        /\ subs[i].userId = subs[j].userId
        /\ subs[i].type = subs[j].type
        /\ subs[i].type = "PREMIUM"
        => i = j

(* getSubscriptionStatus falls back to the latest row "to show canceled/   *)
(* expired status": a row without premium has such a status.               *)
InactiveRowsAreDead ==
    \A i \in DOMAIN subs : ~subs[i].isActive => subs[i].status \in DeadStatus

---------------------------------------------------------------------------
(* What the documents say and the code does not do                         *)

(* cancelSubscription tells the user "Your subscription has been           *)
(* cancelled".  Where no call to Paystack failed (MaxMishaps = 0),         *)
(* Paystack then holds no recurring subscription of the user.              *)
CancelledIsNotBilled ==
    \A c \in Callers :
        At(c, "notify") /\ call[c].says = "CANCELLED" =>
            \A k \in remote : charges[k.ref].user # call[c].user

(* subscription.service.ts: "Record Payment Transaction for Renewal" and   *)
(* "Update the subscription with the real subscription code", of the user  *)
(* whose card it was.  False once an address has changed hands.            *)
EventsReachThePayer ==
    /\ \A u \in Users, ref \in Refs :
          payments[<<u, ref>>] > 0 => charges[ref].user = u
    /\ \A i \in DOMAIN subs :
          subs[i].paystackSubId # None =>
              charges[subs[i].paystackSubId.ref].user = subs[i].userId

(* What the interval of a plan says a paid period is.                      *)
IntervalMonths(p) ==
    CASE PlanInterval[p] = "quarterly"  -> 3
      [] PlanInterval[p] = "biannually" -> 6
      [] PlanInterval[p] = "annually"   -> 12
      [] OTHER                          -> 1

(* seed.command.ts sells the quarterly plan as "3 month premium": a row    *)
(* that a charge has just activated lasts for its plan's whole interval.   *)
PaidPeriodIsWhole ==
    \A c \in Callers :
        At(c, "write") =>
            call[c].day >= now + IntervalMonths(call[c].plan) * MonthDays
=============================================================================
