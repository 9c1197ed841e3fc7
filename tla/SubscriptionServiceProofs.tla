--------------------- MODULE SubscriptionServiceProofs ---------------------
(***************************************************************************)
(* Safety of SubscriptionService for any number of users, plans, charges   *)
(* and calls in flight, and any bound on errors, crashes and lost or       *)
(* repeated events.                                                        *)
(*                                                                         *)
(* A call decides by what it read some awaits ago.  KeepsOK says what the  *)
(* locals of a call are still worth when it resumes: the row it holds      *)
(* belongs to its user, the charge it is about to activate is paid, by     *)
(* that user and for that plan, and the address that an event or a code    *)
(* goes by is one the user has had.  It survives the steps of the others   *)
(* because a paid charge stays as it is, what accounts have held is kept   *)
(* and no step takes a row from its owner.                                 *)
(***************************************************************************)
EXTENDS SubscriptionService, SequenceTheorems, TLAPS

PaidBy(ref, u) ==
    /\ ref \in Refs
    /\ charges[ref] # None
    /\ charges[ref].state = "paid"
    /\ charges[ref].user = u

PaidFrom(ref, a) ==
    /\ ref \in Refs
    /\ charges[ref] # None
    /\ charges[ref].state = "paid"
    /\ charges[ref].email = a

BilledTo(ref, u) ==
    PaidFrom(ref, charges[ref].email) /\ <<u, charges[ref].email>> \in held

OwnCode(code, u) == code # None => <<u, code.email>> \in held

WithPlan == {"trialActive", "trialCreate", "chargeRow", "charge", "verify",
             "subscribe", "find", "write"}
Charging == {"verify", "subscribe", "find", "write"}
Holding  == {"statusWrite", "disable", "cancelWrite", "codeWrite", "renewWrite"}

(* What the locals k of a call are worth.                                  *)
KeepsOK(k) ==
    /\ k.pc \in WithPlan => k.plan \in Plans
    /\ k.pc \in Charging => PaidBy(k.ref, k.user) /\ charges[k.ref].plan = k.plan
    /\ k.pc \in {"chargeRow", "charge"} =>
          k.email \in Addresses /\ <<k.user, k.email>> \in held
    /\ k.pc \in {"successRow", "renewWrite", "pay"} => BilledTo(k.ref, k.user)
    /\ k.pc \in Holding => k.row \in RowsOf(k.user)
    /\ k.pc \in {"trialCreate", "write"} => k.row = 0 \/ k.row \in RowsOf(k.user)
    /\ k.pc = "disableWrite" => k.row \in 1..Len(subs)
    /\ k.pc \in {"find", "write", "createRow", "codeWrite"} =>
          OwnCode(k.code, k.user)
    /\ k.pc \in {"pay", "notify"} => RowsOf(k.user) # {}

CallOK(c) == KeepsOK(call[c])

(* Nobody is charged under an address he never had.                        *)
HeldOK ==
    /\ \A u \in Users : <<u, email[u]>> \in held
    /\ \A ref \in Refs :
          charges[ref] # None => <<charges[ref].user, charges[ref].email>> \in held

(* Paystack renews and reports what was paid for.                          *)
RemoteKey == [kind : {"SUB"}, email : Addresses, ref : Refs]

RemoteOK == \A k \in remote : k \in RemoteKey /\ PaidFrom(k.ref, k.email)

HookOK(h) == h.event = "success" => PaidFrom(h.ref, charges[h.ref].email)

HooksOK == \A h \in hooks : HookOK(h)

(* What every single row satisfies: ActiveRowsAreLive, CodeOfAddress and   *)
(* PremiumWasPaid, of one row.                                             *)
RowOK(row) ==
    /\ row.isActive => row.status \in LiveStatus
    /\ OwnCode(row.paystackSubId, row.userId)
    /\ row.isActive =>
          \/ row.isTrial
          \/ \E ref \in Refs : /\ PaidBy(ref, row.userId)
                               /\ charges[ref].plan = row.planId

RowsOK == \A i \in 1..Len(subs) : RowOK(subs[i])

MoneyOK == NoMoneyWithoutSubscription /\ PaymentsWereCharged

Inv ==
    /\ TypeOK
    /\ RowsOK /\ LinkedToOwnRow /\ MoneyOK
    /\ HeldOK /\ RemoteOK /\ HooksOK
    /\ \A c \in Callers : CallOK(c)

---------------------------------------------------------------------------
(* What no step undoes *)

PaidStays ==
    /\ \A ref \in Refs :
          charges[ref] # None /\ charges[ref].state = "paid" =>
              charges'[ref] = charges[ref]
    /\ held \subseteq held'

OwnersStay == \A u \in Users : RowsOf(u) \subseteq RowsOf(u)'

LEMMA PaidByStays ==
    ASSUME PaidStays, NEW ref, NEW u, PaidBy(ref, u)
    PROVE  PaidBy(ref, u)' /\ charges'[ref] = charges[ref]
BY DEF PaidStays, PaidBy

LEMMA PaidFromStays ==
    ASSUME PaidStays, NEW ref, NEW a, PaidFrom(ref, a)
    PROVE  PaidFrom(ref, a)' /\ charges'[ref] = charges[ref]
BY DEF PaidStays, PaidFrom

LEMMA BilledToStays ==
    ASSUME PaidStays, NEW ref, NEW u, BilledTo(ref, u)
    PROVE  BilledTo(ref, u)'
<1>1. charges'[ref] = charges[ref]
  BY PaidFromStays DEF BilledTo
<1> QED
  BY <1>1 DEF PaidStays, BilledTo, PaidFrom

(* Who pays for a charge is billed for it.                                 *)
LEMMA PaidIsBilled ==
    ASSUME HeldOK, NEW ref, NEW u, PaidBy(ref, u)
    PROVE  BilledTo(ref, u)
BY DEF HeldOK, PaidBy, PaidFrom, BilledTo

LEMMA OwnCodeStays ==
    ASSUME PaidStays, NEW code, NEW u, OwnCode(code, u)
    PROVE  OwnCode(code, u)'
BY DEF PaidStays, OwnCode

LEMMA SubsStay ==
    ASSUME UNCHANGED subs
    PROVE  /\ OwnersStay
           /\ \A u : RowsOf(u)' = RowsOf(u)
BY DEF OwnersStay, RowsOf

LEMMA ChargesStay ==
    ASSUME UNCHANGED <<charges, addressVars>>
    PROVE  /\ PaidStays
           /\ HeldOK' = HeldOK
           /\ \A ref, u : PaidBy(ref, u)' = PaidBy(ref, u)
BY DEF PaidStays, PaidBy, HeldOK, addressVars

LEMMA CallTypes ==
    ASSUME TypeOK, NEW c \in Callers, call[c].pc # "idle"
    PROVE  call[c] \in Call
BY DEF TypeOK, NoCall

LEMMA KeepsStayOK ==
    ASSUME PaidStays, OwnersStay, Len(subs) <= Len(subs'),
           Len(subs) \in Nat, Len(subs') \in Nat,
           NEW k \in Call \cup {NoCall}, KeepsOK(k)
    PROVE  KeepsOK(k)'
<1>1. CASE k = NoCall
  BY <1>1 DEF NoCall, KeepsOK, WithPlan, Charging, Holding
<1>2. CASE k \in Call
  <2>1. k.user \in Users
    BY <1>2 DEF Call
  <2>2. k.pc \in Charging => PaidBy(k.ref, k.user)' /\ charges'[k.ref].plan = k.plan
    BY PaidByStays DEF KeepsOK
  <2>3. /\ k.pc \in {"successRow", "renewWrite", "pay"} =>
              BilledTo(k.ref, k.user)'
        /\ k.pc \in {"chargeRow", "charge"} => <<k.user, k.email>> \in held'
    BY BilledToStays DEF KeepsOK, PaidStays
  <2>4. RowsOf(k.user) \subseteq RowsOf(k.user)'
    BY <2>1 DEF OwnersStay
  <2>5. OwnCode(k.code, k.user) => OwnCode(k.code, k.user)'
    BY OwnCodeStays
  <2> QED
    BY <2>2, <2>3, <2>4, <2>5 DEF KeepsOK
<1> QED
  BY <1>1, <1>2

(* The one way an invariant is shown after a step: nothing is undone, and  *)
(* the call that moved, if one did, may rely on its new locals.            *)
LEMMA Keeps ==
    ASSUME Inv, TypeOK', PaidStays, OwnersStay, Len(subs) <= Len(subs'),
           RowsOK', LinkedToOwnRow', MoneyOK', HeldOK', RemoteOK', HooksOK',
           \A c \in Callers : call'[c] = call[c] \/ CallOK(c)'
    PROVE  Inv'
<1>1. Len(subs) \in Nat /\ Len(subs') \in Nat
  BY LenProperties DEF Inv, TypeOK, TableTypeOK
<1>2. ASSUME NEW c \in Callers, call'[c] = call[c]
      PROVE  CallOK(c)'
  <2>1. PICK k : k = call[c]
    OBVIOUS
  <2>2. k \in Call \cup {NoCall} /\ KeepsOK(k)
    BY <2>1 DEF Inv, TypeOK, CallOK
  <2>3. KeepsOK(k)'
    BY <1>1, <2>2, KeepsStayOK
  <2>4. call'[c] = k
    BY <1>2, <2>1
  <2> HIDE <2>1, <1>2
  <2> QED
    BY <2>3, <2>4 DEF CallOK, KeepsOK
<1> QED
  BY <1>2 DEF Inv

---------------------------------------------------------------------------
(* Locals *)

LEMMA CallMoves ==
    ASSUME TypeOK, NEW c \in Callers, NEW k \in Call \cup {NoCall},
           call' = [call EXCEPT ![c] = k]
    PROVE  /\ call' \in [Callers -> Call \cup {NoCall}]
           /\ call'[c] = k
           /\ \A d \in Callers \ {c} : call'[d] = call[d]
BY DEF TypeOK

LEMMA NoCallIsOK == KeepsOK(NoCall)
BY DEF KeepsOK, NoCall, WithPlan, Charging, Holding

LEMMA NewCallIsCall ==
    ASSUME NEW pc \in CallPC, NEW u \in Users
    PROVE  /\ NewCall(pc, u) \in Call
           /\ NewCall(pc, u).pc = pc /\ NewCall(pc, u).user = u
           /\ NewCall(pc, u).row = 0 /\ NewCall(pc, u).code = None
           /\ NewCall(pc, u).ref = None /\ NewCall(pc, u).says = "ACTIVATED"
BY DEF NewCall, Call, Code, Date, NoticeTypes

(* What an event or a cancellation adds to a new call.                     *)
LEMMA CallWithCode ==
    ASSUME NEW k \in Call, NEW r \in Nat, NEW code \in Code,
           NEW says \in NoticeTypes
    PROVE  /\ [k EXCEPT !.row = r, !.code = code] \in Call
           /\ [k EXCEPT !.row = r, !.code = code, !.says = says] \in Call
BY DEF Call

LEMMA CallWithEmail ==
    ASSUME NEW k \in Call, NEW a \in Addresses, NEW p \in Plans
    PROVE  [k EXCEPT !.email = a, !.plan = p] \in Call
BY DEF Call

LEMMA CallWithRef ==
    ASSUME NEW k \in Call, NEW ref \in Refs, NEW says \in NoticeTypes
    PROVE  [k EXCEPT !.ref = ref, !.says = says] \in Call
BY DEF Call

(* A step that is a matter of one call alone, or takes events to it.       *)
LEMMA OwnStepKeeps ==
    ASSUME Inv, NEW c \in Callers, NEW k \in Call \cup {NoCall}, KeepsOK(k),
           call' = [call EXCEPT ![c] = k],
           UNCHANGED <<tableVars, charges, remote, addressVars>>,
           hooks' \subseteq hooks, mishaps' \in 0..MaxMishaps
    PROVE  Inv'
<1>1. /\ UNCHANGED <<now, plans, subs, linked, payments, notices>>
      /\ UNCHANGED <<charges, remote, email, held, moves>>
  BY DEF tableVars, addressVars
<1>2. TypeOK'
  BY <1>1, CallMoves DEF Inv, TypeOK, TableTypeOK
<1>3. PaidStays /\ HeldOK' /\ OwnersStay /\ Len(subs) <= Len(subs')
  BY <1>1, SubsStay, ChargesStay, LenProperties DEF Inv, TypeOK, TableTypeOK
<1>4. RowsOK' /\ LinkedToOwnRow' /\ MoneyOK' /\ RemoteOK'
  BY <1>1 DEF Inv, RowsOK, RowOK, OwnCode, PaidBy, PaidFrom, LinkedToOwnRow,
              RowsOf, MoneyOK, NoMoneyWithoutSubscription,
              PaymentsWereCharged, RemoteOK
<1>5. HooksOK'
  BY <1>1 DEF Inv, HooksOK, HookOK, PaidFrom
<1>6. CallOK(c)'
  <2>1. call'[c] = k
    BY CallMoves DEF Inv
  <2> QED
    BY <1>1, <2>1 DEF CallOK, KeepsOK, PaidBy, PaidFrom, BilledTo, RowsOf,
                      OwnCode
<1> QED
  BY <1>2, <1>3, <1>4, <1>5, <1>6, CallMoves, Keeps DEF Inv

---------------------------------------------------------------------------
(* Calls begin *)

LEMMA RowIsRow ==
    ASSUME TypeOK, NEW r \in 1..Len(subs)
    PROVE  /\ subs[r] \in Row /\ subs \in Seq(Row)
           /\ r \in Nat /\ r # 0 /\ Len(subs) \in Nat
BY ElementOfSeq, LenProperties DEF TypeOK, TableTypeOK

LEMMA SubsDomain ==
    ASSUME TypeOK
    PROVE  DOMAIN subs = 1..Len(subs)
BY LenProperties DEF TypeOK, TableTypeOK

LEMMA StartTrialKeeps ==
    ASSUME Inv, NEW c \in Callers, NEW u \in Users, NEW p \in Plans,
           StartTrial(c, u, p)
    PROVE  Inv'
<1> DEFINE k == [NewCall("trialActive", u) EXCEPT !.plan = p]
<1>1. call' = [call EXCEPT ![c] = k]
      /\ UNCHANGED <<tableVars, charges, remote, hooks, mishaps,
                     addressVars>>
  BY DEF StartTrial, Begins
<1>2. k \in Call /\ k.pc = "trialActive" /\ k.plan = p
  BY NewCallIsCall DEF Call, CallPC
<1>3. KeepsOK(k)
  <2> HIDE DEF k
  <2> QED
    BY <1>2 DEF KeepsOK, Charging, Holding
<1> QED
  BY <1>1, <1>2, <1>3, OwnStepKeeps DEF Inv, TypeOK

LEMMA ChargeCardKeeps ==
    ASSUME Inv, NEW c \in Callers, NEW u \in Users, NEW p \in Plans,
           ChargeCard(c, u, p)
    PROVE  Inv'
<1>1. PICK a \in Addresses : a = email[u] /\ <<u, a>> \in held
  BY DEF Inv, TypeOK, HeldOK
<1> DEFINE k == [NewCall("chargeRow", u) EXCEPT !.email = a, !.plan = p]
<1>2. call' = [call EXCEPT ![c] = k]
      /\ UNCHANGED <<tableVars, charges, remote, hooks, mishaps, addressVars>>
  BY <1>1 DEF ChargeCard, Begins
<1>3. /\ k \in Call /\ k.pc = "chargeRow" /\ k.plan = p
      /\ k.user = u /\ k.email = a
  <2>1. NewCall("chargeRow", u) \in Call
    BY NewCallIsCall DEF CallPC
  <2>2. k \in Call
    BY <2>1, CallWithEmail, Zenon
  <2> QED
    BY <2>2 DEF NewCall
<1>4. KeepsOK(k)
  <2> HIDE DEF k
  <2> QED
    BY <1>1, <1>3 DEF KeepsOK, Charging, Holding
<1> QED
  BY <1>2, <1>3, <1>4, OwnStepKeeps DEF Inv, TypeOK

LEMMA StatusKeeps ==
    ASSUME Inv, NEW c \in Callers, NEW u \in Users, Status(c, u)
    PROVE  Inv'
<1>1. PICK r \in ActiveRows(u) :
         call' = [call EXCEPT ![c] = [NewCall("statusWrite", u) EXCEPT !.row = r]]
  BY DEF Status, Begins
<1> DEFINE k == [NewCall("statusWrite", u) EXCEPT !.row = r]
<1>2. r \in RowsOf(u) /\ r \in Nat
  BY RowIsRow DEF ActiveRows, RowsOf, Inv
<1>3. k \in Call /\ k.pc = "statusWrite" /\ k.user = u /\ k.row = r
  BY <1>2, NewCallIsCall DEF Call, CallPC
<1>4. KeepsOK(k)
  <2> HIDE DEF k
  <2> QED
    BY <1>2, <1>3 DEF KeepsOK, Charging, Holding, WithPlan
<1>5. UNCHANGED <<tableVars, charges, remote, hooks, mishaps,
                  addressVars>>
  BY DEF Status
<1> QED
  BY <1>1, <1>3, <1>4, <1>5, OwnStepKeeps DEF Inv, TypeOK

LEMMA CancelKeeps ==
    ASSUME Inv, NEW c \in Callers, NEW u \in Users, Cancel(c, u)
    PROVE  Inv'
<1>1. PICK r \in ActiveRows(u) :
         call' = [call EXCEPT ![c] =
                     [NewCall("disable", u) EXCEPT
                         !.row = r, !.code = subs[r].paystackSubId,
                         !.says = "CANCELLED"]]
  BY DEF Cancel, Begins
<1> DEFINE k == [NewCall("disable", u) EXCEPT
                    !.row = r, !.code = subs[r].paystackSubId,
                    !.says = "CANCELLED"]
<1>2. r \in RowsOf(u) /\ r \in Nat /\ subs[r].paystackSubId \in Code
  BY RowIsRow DEF ActiveRows, RowsOf, Inv, Row
<1>3. k \in Call /\ k.pc = "disable" /\ k.user = u /\ k.row = r
  <2>1. NewCall("disable", u) \in Call
    BY NewCallIsCall DEF CallPC
  <2>2. k \in Call
    BY <1>2, <2>1, CallWithCode, Zenon DEF NoticeTypes
  <2> QED
    BY <2>2 DEF NewCall
<1>4. KeepsOK(k)
  <2> HIDE DEF k
  <2> QED
    BY <1>2, <1>3 DEF KeepsOK, Charging, Holding, WithPlan
<1>5. UNCHANGED <<tableVars, charges, remote, hooks, mishaps,
                  addressVars>>
  BY DEF Cancel
<1> QED
  BY <1>1, <1>3, <1>4, <1>5, OwnStepKeeps, Zenon DEF Inv, TypeOK

(* A webhook event is taken; there may be nobody and no row for it.        *)
LEMMA TakeMoves ==
    ASSUME Inv, NEW h, Take(h)
    PROVE  hooks' \subseteq hooks /\ mishaps' \in 0..MaxMishaps
BY PlanPeriods DEF Take, Mishap, Inv, TypeOK

LEMMA IgnoresKeeps ==
    ASSUME Inv, NEW c \in Callers, NEW h, Take(h), Ignores(c),
           UNCHANGED <<tableVars, charges, remote, addressVars>>
    PROVE  Inv'
<1>1. call' = [call EXCEPT ![c] = NoCall]
  BY DEF Ignores, Inv, TypeOK
<1> QED
  BY <1>1, TakeMoves, NoCallIsOK, OwnStepKeeps

LEMMA SubscriptionCreateKeeps ==
    ASSUME Inv, NEW c \in Callers, NEW h \in hooks,
           HandleSubscriptionCreate(c, h)
    PROVE  Inv'
<1>1. h.event = "create" /\ h \in Hook /\ h.code \in Code
  BY DEF HandleSubscriptionCreate, Inv, TypeOK, Hook
<1>2. Take(h) /\ UNCHANGED <<tableVars, charges, remote, addressVars>>
  BY DEF HandleSubscriptionCreate
<1>3. CASE Ignores(c)
  BY <1>2, <1>3, IgnoresKeeps
<1>4. CASE ~Ignores(c)
  <2>1. PICK u \in Customers(h.code.email) :
           Begins(c, [NewCall("createRow", u) EXCEPT !.code = h.code])
    BY <1>4 DEF HandleSubscriptionCreate
  <2> DEFINE k == [NewCall("createRow", u) EXCEPT !.code = h.code]
  <2>2. u \in Users /\ OwnCode(h.code, u)
    BY DEF Customers, OwnCode, Inv, HeldOK
  <2>3. k \in Call /\ k.pc = "createRow" /\ k.user = u /\ k.code = h.code
    BY <1>1, <2>2, NewCallIsCall DEF Call, CallPC
  <2>4. call' = [call EXCEPT ![c] = k]
    BY <2>1 DEF Begins
  <2> HIDE DEF k
  <2>5. KeepsOK(k)
    BY <2>2, <2>3 DEF KeepsOK, Charging, Holding, WithPlan
  <2> QED
    BY <1>2, <2>3, <2>4, <2>5, TakeMoves, OwnStepKeeps
<1> QED
  BY <1>3, <1>4

LEMMA PeriodEndIsDate ==
    ASSUME TypeOK, NEW p \in Plans
    PROVE  PeriodEnd(p) \in Date
<1>1. PlanCount[p] \in Nat /\ MonthDays \in Nat /\ now \in Nat
  BY PlanPeriods DEF TypeOK, TableTypeOK
<1>2. \A d \in Nat : Or(PlanCount[p], d) \in Nat
  BY <1>1 DEF Or
<1>3. PeriodMonths(p) \in Nat
  BY <1>2 DEF PeriodMonths
<1> QED
  BY <1>1, <1>3 DEF PeriodEnd, Date

LEMMA ChargeSuccessKeeps ==
    ASSUME Inv, NEW c \in Callers, NEW h \in hooks, HandleChargeSuccess(c, h)
    PROVE  Inv'
<1>1. PaidFrom(h.ref, charges[h.ref].email) /\ h.ref \in Refs
  BY DEF HandleChargeSuccess, Inv, HooksOK, HookOK, PaidFrom
<1>2. Take(h) /\ UNCHANGED <<tableVars, charges, remote, addressVars>>
  BY DEF HandleChargeSuccess
<1>3. CASE Ignores(c)
  BY <1>2, <1>3, IgnoresKeeps
<1>4. CASE ~Ignores(c)
  <2>1. PICK u \in Renewed(h.ref) :
           Begins(c, [NewCall("successRow", u) EXCEPT
                         !.ref = h.ref, !.says = "RENEWED"])
    BY <1>4 DEF HandleChargeSuccess
  <2> DEFINE k == [NewCall("successRow", u) EXCEPT
                      !.ref = h.ref, !.says = "RENEWED"]
  <2>2. u \in Users /\ BilledTo(h.ref, u)
    BY <1>1 DEF Renewed, Customers, BilledTo, Inv, HeldOK
  <2>3. k \in Call /\ k.pc = "successRow" /\ k.user = u /\ k.ref = h.ref
    <3>1. NewCall("successRow", u) \in Call
      BY <2>2, NewCallIsCall DEF CallPC
    <3>2. k \in Call
      BY <1>1, <3>1, CallWithRef, Zenon DEF NoticeTypes
    <3> QED
      BY <3>2 DEF NewCall
  <2>4. call' = [call EXCEPT ![c] = k]
    BY <2>1 DEF Begins
  <2> HIDE DEF k
  <2>5. KeepsOK(k)
    BY <2>2, <2>3 DEF KeepsOK, Charging, Holding, WithPlan
  <2> QED
    BY <1>2, <2>3, <2>4, <2>5, TakeMoves, OwnStepKeeps
<1> QED
  BY <1>3, <1>4

LEMMA SubscriptionDisableKeeps ==
    ASSUME Inv, NEW c \in Callers, NEW h \in hooks,
           HandleSubscriptionDisable(c, h)
    PROVE  Inv'
<1>1. Take(h) /\ UNCHANGED <<tableVars, charges, remote, addressVars>>
  BY DEF HandleSubscriptionDisable
<1>2. CASE Ignores(c)
  BY <1>1, <1>2, IgnoresKeeps
<1>3. CASE ~Ignores(c)
  <2>1. PICK r \in DOMAIN subs :
           Begins(c, [NewCall("disableWrite", subs[r].userId) EXCEPT !.row = r])
    BY <1>3 DEF HandleSubscriptionDisable, FindFirst
  <2>2. r \in 1..Len(subs) /\ r \in Nat /\ subs[r].userId \in Users
    BY <2>1, RowIsRow, SubsDomain DEF Inv, Row
  <2>3. PICK u \in Users : u = subs[r].userId
    BY <2>2
  <2> DEFINE k == [NewCall("disableWrite", u) EXCEPT !.row = r]
  <2>4. k \in Call /\ k.pc = "disableWrite" /\ k.row = r
    BY <2>2, NewCallIsCall DEF Call, CallPC
  <2>5. call' = [call EXCEPT ![c] = k]
    BY <2>1, <2>3 DEF Begins
  <2> HIDE DEF k
  <2>6. KeepsOK(k)
    BY <2>2, <2>4 DEF KeepsOK, Charging, Holding, WithPlan
  <2> QED
    BY <1>1, <2>4, <2>5, <2>6, TakeMoves, OwnStepKeeps
<1> QED
  BY <1>2, <1>3

---------------------------------------------------------------------------
(* Calls go on *)

LEMMA GoesOn ==
    ASSUME TypeOK, NEW c \in Callers, call[c].pc # "idle", NEW pc \in CallPC
    PROVE  /\ Goto(c, pc) =>
                 call' = [call EXCEPT ![c] = [call[c] EXCEPT !.pc = pc]]
           /\ [call[c] EXCEPT !.pc = pc] \in Call
<1>1. call[c] \in Call /\ call \in [Callers -> Call \cup {NoCall}]
  BY CallTypes DEF TypeOK
<1>2. [call[c] EXCEPT !.pc = pc] \in Call
  BY <1>1 DEF Call
<1> QED
  BY <1>1, <1>2, Zenon DEF Goto

LEMMA GoesOnWithRow ==
    ASSUME TypeOK, NEW c \in Callers, call[c].pc # "idle", NEW pc \in CallPC,
           NEW r \in Nat,
           call' = [call EXCEPT ![c].pc = pc, ![c].row = r]
    PROVE  /\ call' = [call EXCEPT ![c] = [call[c] EXCEPT !.pc = pc, !.row = r]]
           /\ [call[c] EXCEPT !.pc = pc, !.row = r] \in Call
<1>1. call[c] \in Call /\ call \in [Callers -> Call \cup {NoCall}]
  BY CallTypes DEF TypeOK
<1>2. [call[c] EXCEPT !.pc = pc, !.row = r] \in Call
  BY <1>1 DEF Call
<1> QED
  BY <1>1, <1>2, Zenon

LEMMA GoesOnWithDay ==
    ASSUME TypeOK, NEW c \in Callers, call[c].pc # "idle", NEW pc \in CallPC,
           NEW day \in Date,
           call' = [call EXCEPT ![c].pc = pc, ![c].day = day]
    PROVE  /\ call' = [call EXCEPT ![c] = [call[c] EXCEPT !.pc = pc, !.day = day]]
           /\ [call[c] EXCEPT !.pc = pc, !.day = day] \in Call
<1>1. call[c] \in Call /\ call \in [Callers -> Call \cup {NoCall}]
  BY CallTypes DEF TypeOK
<1>2. [call[c] EXCEPT !.pc = pc, !.day = day] \in Call
  BY <1>1 DEF Call
<1> QED
  BY <1>1, <1>2, Zenon

LEMMA GoesOnWithCode ==
    ASSUME TypeOK, NEW c \in Callers, call[c].pc # "idle", NEW pc \in CallPC,
           NEW code \in Code,
           call' = [call EXCEPT ![c].pc = pc, ![c].code = code]
    PROVE  /\ call' = [call EXCEPT ![c] = [call[c] EXCEPT !.pc = pc, !.code = code]]
           /\ [call[c] EXCEPT !.pc = pc, !.code = code] \in Call
<1>1. call[c] \in Call /\ call \in [Callers -> Call \cup {NoCall}]
  BY CallTypes DEF TypeOK
<1>2. [call[c] EXCEPT !.pc = pc, !.code = code] \in Call
  BY <1>1 DEF Call
<1> QED
  BY <1>1, <1>2, Zenon

LEMMA GoesOnWithCharge ==
    ASSUME TypeOK, NEW c \in Callers, call[c].pc # "idle", NEW pc \in CallPC,
           NEW ref \in Refs, NEW day \in Date,
           call' = [call EXCEPT ![c].pc = pc, ![c].ref = ref, ![c].day = day]
    PROVE  /\ call' = [call EXCEPT ![c] =
                          [call[c] EXCEPT !.pc = pc, !.ref = ref, !.day = day]]
           /\ [call[c] EXCEPT !.pc = pc, !.ref = ref, !.day = day] \in Call
<1>1. call[c] \in Call /\ call \in [Callers -> Call \cup {NoCall}]
  BY CallTypes DEF TypeOK
<1>2. [call[c] EXCEPT !.pc = pc, !.ref = ref, !.day = day] \in Call
  BY <1>1 DEF Call
<1> QED
  BY <1>1, <1>2, Zenon

LEMMA GoesOnWithRowAndDay ==
    ASSUME TypeOK, NEW c \in Callers, call[c].pc # "idle", NEW pc \in CallPC,
           NEW r \in Nat, NEW day \in Date,
           call' = [call EXCEPT ![c].pc = pc, ![c].row = r, ![c].day = day]
    PROVE  /\ call' = [call EXCEPT ![c] =
                          [call[c] EXCEPT !.pc = pc, !.row = r, !.day = day]]
           /\ [call[c] EXCEPT !.pc = pc, !.row = r, !.day = day] \in Call
<1>1. call[c] \in Call /\ call \in [Callers -> Call \cup {NoCall}]
  BY CallTypes DEF TypeOK
<1>2. [call[c] EXCEPT !.pc = pc, !.row = r, !.day = day] \in Call
  BY <1>1 DEF Call
<1> QED
  BY <1>1, <1>2, Zenon

LEMMA TrialActiveKeeps ==
    ASSUME Inv, NEW c \in Callers, TrialActive(c)
    PROVE  Inv'
<1>1. /\ call[c].pc = "trialActive"
      /\ UNCHANGED <<tableVars, charges, remote, hooks, mishaps,
                     addressVars>>
  BY DEF TrialActive, At
<1>2. CASE Finish(c)
  BY <1>1, <1>2, NoCallIsOK, OwnStepKeeps DEF Finish, Inv, TypeOK
<1>3. CASE ~Finish(c)
  <2>1. PICK r \in FindFirst(ActiveRows(call[c].user)) :
           call' = [call EXCEPT ![c].pc = "trialCreate", ![c].row = r]
    BY <1>3 DEF TrialActive
  <2>2. r = 0 \/ r \in RowsOf(call[c].user)
    BY DEF FindFirst, ActiveRows
  <2>3. r \in Nat
    BY <2>2, RowIsRow DEF RowsOf, Inv
  <2> DEFINE k == [call[c] EXCEPT !.pc = "trialCreate", !.row = r]
  <2>4. call' = [call EXCEPT ![c] = k] /\ k \in Call
    BY <1>1, <2>1, <2>3, GoesOnWithRow DEF Inv, CallPC
  <2>5. /\ k.pc = "trialCreate" /\ k.row = r
        /\ k.user = call[c].user /\ k.plan = call[c].plan
    BY <1>1, CallTypes DEF Inv, Call
  <2>6. call[c].plan \in Plans
    BY <1>1 DEF Inv, CallOK, KeepsOK, WithPlan
  <2> HIDE DEF k
  <2>7. KeepsOK(k)
    BY <2>2, <2>5, <2>6 DEF KeepsOK, Charging, Holding
  <2> QED
    BY <1>1, <2>4, <2>7, OwnStepKeeps DEF Inv, TypeOK
<1> QED
  BY <1>2, <1>3

LEMMA VerifyKeeps ==
    ASSUME Inv, NEW c \in Callers, Verify(c)
    PROVE  Inv'
<1>1. /\ call[c].pc = "verify"
      /\ call' = [call EXCEPT ![c].pc = "subscribe",
                              ![c].day = PeriodEnd(call[c].plan)]
      /\ UNCHANGED <<tableVars, charges, remote, hooks, mishaps,
                     addressVars>>
  BY DEF Verify, At
<1>2. /\ call[c].plan \in Plans /\ PaidBy(call[c].ref, call[c].user)
      /\ charges[call[c].ref].plan = call[c].plan
  BY <1>1 DEF Inv, CallOK, KeepsOK, WithPlan, Charging
<1>3. PeriodEnd(call[c].plan) \in Date
  BY <1>2, PeriodEndIsDate DEF Inv
<1> DEFINE k == [call[c] EXCEPT !.pc = "subscribe", !.day = PeriodEnd(call[c].plan)]
<1>4. call' = [call EXCEPT ![c] = k] /\ k \in Call
  BY <1>1, <1>3, GoesOnWithDay DEF Inv, CallPC
<1>5. /\ k.pc = "subscribe" /\ k.user = call[c].user
      /\ k.plan = call[c].plan /\ k.ref = call[c].ref
  BY <1>1, CallTypes DEF Inv, Call
<1> HIDE DEF k
<1>6. KeepsOK(k)
  BY <1>2, <1>5 DEF KeepsOK, Holding
<1> QED
  BY <1>1, <1>4, <1>6, OwnStepKeeps DEF Inv, TypeOK

LEMMA FindKeeps ==
    ASSUME Inv, NEW c \in Callers, Find(c)
    PROVE  Inv'
<1>1. /\ call[c].pc = "find"
      /\ UNCHANGED <<tableVars, charges, remote, hooks, mishaps,
                     addressVars>>
  BY DEF Find, At
<1>2. PICK r \in FindFirst(RowsToPay(call[c].user, call[c].plan)) :
         call' = [call EXCEPT ![c].pc = "write", ![c].row = r]
  BY DEF Find
<1>3. r = 0 \/ r \in RowsOf(call[c].user)
  BY DEF FindFirst, RowsToPay
<1>4. r \in Nat
  BY <1>3, RowIsRow DEF RowsOf, Inv
<1>5. /\ call[c].plan \in Plans /\ PaidBy(call[c].ref, call[c].user)
      /\ charges[call[c].ref].plan = call[c].plan
      /\ OwnCode(call[c].code, call[c].user)
  BY <1>1 DEF Inv, CallOK, KeepsOK, WithPlan, Charging
<1> DEFINE k == [call[c] EXCEPT !.pc = "write", !.row = r]
<1>6. call' = [call EXCEPT ![c] = k] /\ k \in Call
  BY <1>1, <1>2, <1>4, GoesOnWithRow DEF Inv, CallPC
<1>7. /\ k.pc = "write" /\ k.row = r /\ k.user = call[c].user
      /\ k.plan = call[c].plan /\ k.ref = call[c].ref /\ k.code = call[c].code
  BY <1>1, CallTypes DEF Inv, Call
<1> HIDE DEF k
<1>8. KeepsOK(k)
  BY <1>3, <1>5, <1>7 DEF KeepsOK, Holding
<1> QED
  BY <1>1, <1>6, <1>8, OwnStepKeeps DEF Inv, TypeOK

LEMMA ChargeRowKeeps ==
    ASSUME Inv, NEW c \in Callers, ChargeRow(c)
    PROVE  Inv'
<1>1. /\ call[c].pc = "chargeRow"
      /\ UNCHANGED <<tableVars, charges, remote, hooks, mishaps, addressVars>>
      /\ Goto(c, "charge") \/ Finish(c)
  BY DEF ChargeRow, At
<1>2. CASE Finish(c)
  BY <1>1, <1>2, NoCallIsOK, OwnStepKeeps DEF Finish, Inv, TypeOK
<1>3. CASE Goto(c, "charge")
  <2>1. /\ call[c] \in Call /\ call[c].plan \in Plans
        /\ call[c].email \in Addresses
        /\ <<call[c].user, call[c].email>> \in held
    BY <1>1, CallTypes DEF Inv, CallOK, KeepsOK, WithPlan
  <2> DEFINE k == [call[c] EXCEPT !.pc = "charge"]
  <2>2. call' = [call EXCEPT ![c] = k] /\ k \in Call
    BY <1>1, <1>3, GoesOn DEF Inv, CallPC
  <2>3. /\ k.pc = "charge" /\ k.user = call[c].user
        /\ k.plan = call[c].plan /\ k.email = call[c].email
    BY <2>1 DEF Call
  <2> HIDE DEF k
  <2>4. KeepsOK(k)
    BY <2>1, <2>3 DEF KeepsOK, Charging, Holding
  <2> QED
    BY <1>1, <2>2, <2>4, OwnStepKeeps DEF Inv, TypeOK
<1> QED
  BY <1>1, <1>2, <1>3

LEMMA CreateRowKeeps ==
    ASSUME Inv, NEW c \in Callers, CreateRow(c)
    PROVE  Inv'
<1>1. /\ call[c].pc = "createRow"
      /\ UNCHANGED <<tableVars, charges, remote, hooks, mishaps, addressVars>>
  BY DEF CreateRow, At
<1>2. CASE Finish(c)
  BY <1>1, <1>2, NoCallIsOK, OwnStepKeeps DEF Finish, Inv, TypeOK
<1>3. CASE ~Finish(c)
  <2>1. PICK r \in ActiveRows(call[c].user) :
           call' = [call EXCEPT ![c].pc = "codeWrite", ![c].row = r]
    BY <1>3 DEF CreateRow, Chooses, FindFirst
  <2>2. r \in RowsOf(call[c].user) /\ r \in Nat
    BY RowIsRow DEF ActiveRows, RowsOf, Inv
  <2>3. call[c] \in Call /\ OwnCode(call[c].code, call[c].user)
    BY <1>1, CallTypes DEF Inv, CallOK, KeepsOK
  <2> DEFINE k == [call[c] EXCEPT !.pc = "codeWrite", !.row = r]
  <2>4. call' = [call EXCEPT ![c] = k] /\ k \in Call
    BY <1>1, <2>1, <2>2, GoesOnWithRow DEF Inv, CallPC
  <2>5. /\ k.pc = "codeWrite" /\ k.row = r
        /\ k.user = call[c].user /\ k.code = call[c].code
    BY <2>3 DEF Call
  <2> HIDE DEF k
  <2>6. KeepsOK(k)
    BY <2>2, <2>3, <2>5 DEF KeepsOK, WithPlan, Charging, Holding
  <2> QED
    BY <1>1, <2>4, <2>6, OwnStepKeeps DEF Inv, TypeOK
<1> QED
  BY <1>2, <1>3

LEMMA SuccessRowKeeps ==
    ASSUME Inv, NEW c \in Callers, SuccessRow(c)
    PROVE  Inv'
<1>1. /\ call[c].pc = "successRow"
      /\ UNCHANGED <<tableVars, charges, remote, hooks, mishaps, addressVars>>
  BY DEF SuccessRow, At
<1>2. CASE Finish(c)
  BY <1>1, <1>2, NoCallIsOK, OwnStepKeeps DEF Finish, Inv, TypeOK
<1>3. CASE ~Finish(c)
  <2>1. PICK r \in ActiveRows(call[c].user) :
           call' = [call EXCEPT ![c].pc = "renewWrite", ![c].row = r,
                                ![c].day = PeriodEnd(subs[r].planId)]
    BY <1>3 DEF SuccessRow, FindFirst
  <2>2. r \in RowsOf(call[c].user) /\ r \in Nat
    BY RowIsRow DEF ActiveRows, RowsOf, Inv
  <2>3. PICK day \in Date : day = PeriodEnd(subs[r].planId)
    BY <2>2, RowIsRow, PeriodEndIsDate DEF RowsOf, Inv, Row
  <2>4. call[c] \in Call /\ BilledTo(call[c].ref, call[c].user)
    BY <1>1, CallTypes DEF Inv, CallOK, KeepsOK
  <2> DEFINE k == [call[c] EXCEPT !.pc = "renewWrite", !.row = r, !.day = day]
  <2>5. call' = [call EXCEPT ![c] = k] /\ k \in Call
    <3>1. call' = [call EXCEPT ![c].pc = "renewWrite", ![c].row = r,
                               ![c].day = day]
      BY <2>1, <2>3
    <3> QED
      BY <1>1, <2>2, <3>1, GoesOnWithRowAndDay DEF Inv, CallPC
  <2>6. /\ k.pc = "renewWrite" /\ k.row = r
        /\ k.user = call[c].user /\ k.ref = call[c].ref
    BY <2>4 DEF Call
  <2> HIDE DEF k
  <2>7. KeepsOK(k)
    BY <2>2, <2>4, <2>6 DEF KeepsOK, WithPlan, Charging, Holding
  <2> QED
    BY <1>1, <2>5, <2>7, OwnStepKeeps DEF Inv, TypeOK
<1> QED
  BY <1>2, <1>3

LEMMA CrashKeeps ==
    ASSUME Inv, NEW c \in Callers, Crash(c)
    PROVE  Inv'
<1>1. mishaps' \in 0..MaxMishaps
  BY PlanPeriods DEF Crash, Mishap, Inv, TypeOK
<1> QED
  BY <1>1, NoCallIsOK, OwnStepKeeps DEF Crash, Finish

---------------------------------------------------------------------------
(* Paystack *)

LEMMA RowStaysOK ==
    ASSUME PaidStays, NEW row, RowOK(row)
    PROVE  RowOK(row)'
<1>1. ASSUME NEW ref \in Refs, PaidBy(ref, row.userId),
             charges[ref].plan = row.planId
      PROVE  PaidBy(ref, row.userId)' /\ charges'[ref].plan = row.planId
  BY <1>1, PaidByStays
<1>2. OwnCode(row.paystackSubId, row.userId)'
  BY OwnCodeStays DEF RowOK
<1> QED
  BY <1>1, <1>2 DEF RowOK

(* A step that leaves the table alone, whatever Paystack does meanwhile.   *)
LEMMA TableStays ==
    ASSUME Inv, PaidStays, UNCHANGED <<subs, linked, payments, notices>>
    PROVE  RowsOK' /\ LinkedToOwnRow' /\ MoneyOK'
<1>1. \A u : RowsOf(u)' = RowsOf(u)
  BY SubsStay
<1>2. RowsOK'
  BY RowStaysOK DEF Inv, RowsOK
<1>3. LinkedToOwnRow'
  BY <1>1 DEF Inv, LinkedToOwnRow
<1>4. NoMoneyWithoutSubscription'
  BY <1>1 DEF Inv, MoneyOK, NoMoneyWithoutSubscription
<1>5. PaymentsWereCharged'
  BY DEF Inv, MoneyOK, PaymentsWereCharged, PaidStays
<1> QED
  BY <1>2, <1>3, <1>4, <1>5 DEF MoneyOK

LEMMA HookStaysOK ==
    ASSUME PaidStays, NEW h, HookOK(h)
    PROVE  HookOK(h)'
<1>1. h.event = "success" => charges'[h.ref] = charges[h.ref]
  BY PaidFromStays DEF HookOK
<1> QED
  BY <1>1 DEF HookOK, PaidFrom

LEMMA RemoteStaysOK ==
    ASSUME Inv, PaidStays, NEW k \in remote
    PROVE  k \in RemoteKey /\ PaidFrom(k.ref, k.email)'
BY PaidFromStays DEF Inv, RemoteOK

LEMMA RemoteCodeTypes ==
    ASSUME NEW a \in Addresses, NEW ref \in Refs
    PROVE  /\ RemoteCode(a, ref) \in RemoteKey
           /\ RemoteCode(a, ref) \in Code
           /\ RemoteCode(a, ref).email = a /\ RemoteCode(a, ref).ref = ref
           /\ [event |-> "success", ref |-> ref] \in Hook
           /\ [event |-> "create", code |-> RemoteCode(a, ref)] \in Hook
BY DEF RemoteCode, RemoteKey, Code, Hook

(* A charge that was not settled before is: Paystack's books stay in order.*)
LEMMA ChargeSettles ==
    ASSUME Inv, NEW ref \in Refs,
           charges[ref] = None \/ charges[ref].state # "paid",
           NEW charge \in Charge, <<charge.user, charge.email>> \in held,
           charges' = [charges EXCEPT ![ref] = charge], UNCHANGED addressVars
    PROVE  /\ charges' \in [Refs -> Charge \cup {None}]
           /\ PaidStays /\ HeldOK'
           /\ charge.state = "paid" =>
                 /\ PaidBy(ref, charge.user)' /\ PaidFrom(ref, charge.email)'
                 /\ charges'[ref].plan = charge.plan
<1>1. charge # None /\ UNCHANGED <<email, held>>
  BY NoneIsNoCharge DEF addressVars
<1>2. /\ charges' \in [Refs -> Charge \cup {None}]
      /\ charges'[ref] = charge
      /\ \A other \in Refs \ {ref} : charges'[other] = charges[other]
  BY DEF Inv, TypeOK
<1>3. HeldOK'
  BY <1>1, <1>2 DEF Inv, HeldOK
<1> QED
  BY <1>1, <1>2, <1>3 DEF PaidStays, PaidBy, PaidFrom

LEMMA SettleKeeps ==
    ASSUME Inv, NEW ref \in Refs,
           charges[ref] = None \/ charges[ref].state # "paid",
           NEW state \in {"otp", "paid", "failed"},
           NEW u \in Users, NEW a \in Addresses, NEW p \in Plans,
           <<u, a>> \in held, UNCHANGED addressVars,
           Settle(ref, state, u, a, p)
    PROVE  /\ charges' \in [Refs -> Charge \cup {None}]
           /\ remote' \subseteq Code /\ hooks' \subseteq Hook
           /\ PaidStays /\ HeldOK' /\ RemoteOK' /\ HooksOK'
           /\ state = "paid" => PaidBy(ref, u)' /\ charges'[ref].plan = p
<1> DEFINE charge == [state |-> state, user |-> u, email |-> a, plan |-> p]
<1>1. charges' = [charges EXCEPT ![ref] = charge]
  BY DEF Settle
<1>2. /\ charge \in Charge
      /\ charge.state = state /\ charge.user = u
      /\ charge.email = a /\ charge.plan = p
  BY DEF Charge
<1> HIDE DEF charge
<1>3. /\ charges' \in [Refs -> Charge \cup {None}]
      /\ PaidStays /\ HeldOK'
      /\ state = "paid" => /\ PaidBy(ref, u)' /\ PaidFrom(ref, a)'
                           /\ charges'[ref].plan = p
  BY <1>1, <1>2, ChargeSettles
<1> DEFINE success == [event |-> "success", ref |-> ref]
           key == RemoteCode(a, ref)
           create == [event |-> "create", code |-> key]
<1>4. /\ remote' \subseteq remote \cup {key}
      /\ hooks' \subseteq hooks \cup {success, create}
      /\ state # "paid" => remote' = remote /\ hooks' = hooks
  BY DEF Settle
<1>5. /\ key \in RemoteKey /\ key \in Code /\ key.email = a /\ key.ref = ref
      /\ success \in Hook /\ create \in Hook
  BY RemoteCodeTypes
<1>6. success.event = "success" /\ success.ref = ref
  OBVIOUS
<1>7. create.event = "create"
  OBVIOUS
<1> HIDE DEF success, key, create
<1>8. RemoteOK'
  BY <1>3, <1>4, <1>5, RemoteStaysOK DEF RemoteOK
<1>9. state = "paid" => HookOK(success)' /\ HookOK(create)'
  BY <1>3, <1>6, <1>7 DEF HookOK, PaidFrom
<1>10. HooksOK'
  BY <1>3, <1>4, <1>9, HookStaysOK DEF Inv, HooksOK
<1> QED
  BY <1>3, <1>4, <1>5, <1>8, <1>10 DEF Inv, TypeOK

(* Paystack moved, and perhaps call c with it.                             *)
LEMMA PaystackMoves ==
    ASSUME Inv, UNCHANGED tableVars, PaidStays, HeldOK', RemoteOK', HooksOK',
           charges' \in [Refs -> Charge \cup {None}],
           remote' \subseteq Code, hooks' \subseteq Hook,
           mishaps' \in 0..MaxMishaps,
           email' \in [Users -> Addresses], moves' \in 0..MaxMoves,
           held' \subseteq Users \X Addresses,
           call' \in [Callers -> Call \cup {NoCall}],
           \A d \in Callers : call'[d] = call[d] \/ CallOK(d)'
    PROVE  Inv'
<1>1. UNCHANGED <<now, plans, subs, linked, payments, notices>>
  BY DEF tableVars
<1>2. TypeOK'
  BY <1>1 DEF Inv, TypeOK, TableTypeOK
<1>3. OwnersStay /\ Len(subs) <= Len(subs')
  BY <1>1, SubsStay, LenProperties DEF Inv, TypeOK, TableTypeOK
<1>4. RowsOK' /\ LinkedToOwnRow' /\ MoneyOK'
  BY <1>1, TableStays
<1> QED
  BY <1>2, <1>3, <1>4, Keeps

LEMMA NewLocalsOK ==
    ASSUME NEW c \in Callers, NEW k, KeepsOK(k)', call'[c] = k
    PROVE  CallOK(c)'
BY DEF CallOK, KeepsOK

LEMMA NoCallIsOKThen == KeepsOK(NoCall)'
BY DEF KeepsOK, NoCall, WithPlan, Charging, Holding

LEMMA ChargedKeeps ==
    ASSUME Inv, NEW c \in Callers, Charged(c)
    PROVE  Inv'
<1>1. call[c].pc = "charge" /\ UNCHANGED <<tableVars, mishaps, addressVars>>
  BY DEF Charged, At
<1>2. /\ call[c] \in Call /\ call[c].user \in Users
      /\ call[c].plan \in Plans /\ call[c].email \in Addresses
      /\ <<call[c].user, call[c].email>> \in held
  <2>1. call[c] \in Call
    BY <1>1, CallTypes DEF Inv
  <2> QED
    BY <1>1, <2>1 DEF Inv, CallOK, KeepsOK, WithPlan, Call
<1>3. PICK u \in Users, a \in Addresses, p \in Plans :
         u = call[c].user /\ a = call[c].email /\ p = call[c].plan
  BY <1>2
<1>4. PICK ref \in Unused, state \in {"paid", "otp", "failed"} :
         /\ Settle(ref, state, u, a, p)
         /\ \/ /\ state = "paid"
               /\ call' = [call EXCEPT ![c].pc = "subscribe", ![c].ref = ref,
                                       ![c].day = PeriodEnd(p)]
            \/ state # "paid" /\ Finish(c)
  BY <1>3 DEF Charged
<1>5. ref \in Refs /\ charges[ref] = None
  BY DEF Unused
<1>6. /\ charges' \in [Refs -> Charge \cup {None}]
      /\ remote' \subseteq Code /\ hooks' \subseteq Hook
      /\ PaidStays /\ HeldOK' /\ RemoteOK' /\ HooksOK'
      /\ state = "paid" => PaidBy(ref, u)' /\ charges'[ref].plan = p
  BY <1>1, <1>2, <1>3, <1>4, <1>5, SettleKeeps
<1>7. CASE state = "paid"
  <2> DEFINE k == [call[c] EXCEPT !.pc = "subscribe", !.ref = ref,
                                  !.day = PeriodEnd(p)]
  <2>1. call' = [call EXCEPT ![c].pc = "subscribe", ![c].ref = ref,
                             ![c].day = PeriodEnd(p)]
    BY <1>4, <1>7
  <2>2. PeriodEnd(p) \in Date
    BY PeriodEndIsDate DEF Inv
  <2>3. call' = [call EXCEPT ![c] = k] /\ k \in Call
    BY <1>1, <1>5, <2>1, <2>2, GoesOnWithCharge DEF Inv, CallPC
  <2>4. k.pc = "subscribe" /\ k.user = u /\ k.plan = p /\ k.ref = ref
    BY <1>2, <1>3 DEF Call
  <2>5. PICK l \in Call : l = k
    BY <2>3
  <2> HIDE DEF k
  <2>6. KeepsOK(l)'
    BY <1>6, <1>7, <2>4, <2>5 DEF KeepsOK, Holding
  <2>7. /\ call' \in [Callers -> Call \cup {NoCall}] /\ call'[c] = l
        /\ \A d \in Callers \ {c} : call'[d] = call[d]
    BY <2>3, <2>5, CallMoves DEF Inv
  <2> QED
    BY <1>1, <1>6, <2>6, <2>7, NewLocalsOK, PaystackMoves
       DEF Inv, TypeOK, addressVars
<1>8. CASE state # "paid"
  <2>1. /\ call' \in [Callers -> Call \cup {NoCall}] /\ call'[c] = NoCall
        /\ \A d \in Callers \ {c} : call'[d] = call[d]
    BY <1>4, <1>8, CallMoves DEF Inv, Finish
  <2>2. CallOK(c)'
    BY <2>1, NoCallIsOKThen DEF CallOK, KeepsOK
  <2> QED
    BY <1>1, <1>6, <2>1, <2>2, PaystackMoves
       DEF Inv, TypeOK, addressVars
<1> QED
  BY <1>7, <1>8

LEMMA SubmitOtpKeeps ==
    ASSUME Inv, NEW c \in Callers, NEW ref \in Refs, SubmitOtp(c, ref)
    PROVE  Inv'
<1>1. /\ charges[ref] # None /\ charges[ref].state = "otp"
      /\ UNCHANGED <<tableVars, mishaps, addressVars>>
  BY DEF SubmitOtp
<1>2. charges[ref] \in Charge
  BY <1>1 DEF Inv, TypeOK
<1>3. PICK u \in Users, a \in Addresses, p \in Plans :
         /\ u = charges[ref].user /\ a = charges[ref].email
         /\ p = charges[ref].plan /\ <<u, a>> \in held
  BY <1>1, <1>2 DEF Charge, Inv, HeldOK
<1> DEFINE k == [NewCall("verify", u) EXCEPT !.plan = p, !.ref = ref]
<1>4. CASE Settle(ref, "paid", u, a, p) /\ Begins(c, k)
  <2>1. /\ charges' \in [Refs -> Charge \cup {None}]
        /\ remote' \subseteq Code /\ hooks' \subseteq Hook
        /\ PaidStays /\ HeldOK' /\ RemoteOK' /\ HooksOK'
        /\ PaidBy(ref, u)' /\ charges'[ref].plan = p
    BY <1>1, <1>3, <1>4, SettleKeeps
  <2>2. k \in Call /\ k.pc = "verify" /\ k.user = u /\ k.plan = p /\ k.ref = ref
    <3>1. PICK l : l = NewCall("verify", u)
      OBVIOUS
    <3>2. l \in Call /\ l.pc = "verify" /\ l.user = u
      BY <3>1, NewCallIsCall DEF CallPC
    <3> DEFINE m == [l EXCEPT !.plan = p, !.ref = ref]
    <3>3. m \in Call /\ m.pc = l.pc /\ m.user = l.user /\ m.plan = p /\ m.ref = ref
      BY <3>2 DEF Call
    <3>4. m = k
      BY <3>1
    <3> HIDE DEF m, k
    <3> QED
      BY <3>2, <3>3, <3>4
  <2>3. call' = [call EXCEPT ![c] = k]
    BY <1>4 DEF Begins
  <2>4. PICK l \in Call : l = k
    BY <2>2
  <2> HIDE DEF k
  <2>5. KeepsOK(l)'
    BY <2>1, <2>2, <2>4 DEF KeepsOK, Holding
  <2>6. /\ call' \in [Callers -> Call \cup {NoCall}] /\ call'[c] = l
        /\ \A d \in Callers \ {c} : call'[d] = call[d]
    BY <2>2, <2>3, <2>4, CallMoves DEF Inv
  <2> QED
    BY <1>1, <2>1, <2>5, <2>6, NewLocalsOK, PaystackMoves
       DEF Inv, TypeOK, addressVars
<1>5. CASE Settle(ref, "failed", u, a, p) /\ UNCHANGED call
  <2>1. /\ charges' \in [Refs -> Charge \cup {None}]
        /\ remote' \subseteq Code /\ hooks' \subseteq Hook
        /\ PaidStays /\ HeldOK' /\ RemoteOK' /\ HooksOK'
    BY <1>1, <1>3, <1>5, SettleKeeps
  <2> QED
    BY <1>1, <1>5, <2>1, PaystackMoves
       DEF Inv, TypeOK, addressVars
<1> QED
  BY <1>3, <1>4, <1>5 DEF SubmitOtp

LEMMA RemoteRenewsKeeps ==
    ASSUME Inv, NEW key \in remote, RemoteRenews(key)
    PROVE  Inv'
<1>1. key \in RemoteKey /\ PaidFrom(key.ref, key.email)
  BY DEF Inv, RemoteOK
<1>2. PICK charge \in Charge :
         /\ charge = charges[key.ref] /\ charge.state = "paid"
         /\ <<charge.user, charge.email>> \in held
  BY <1>1 DEF Inv, TypeOK, PaidFrom, HeldOK
<1>3. PICK ref \in Unused :
         /\ charges' = [charges EXCEPT ![ref] = charge]
         /\ hooks' = hooks \cup {[event |-> "success", ref |-> ref]}
  BY <1>2 DEF RemoteRenews
<1>4. UNCHANGED <<tableVars, call, remote, mishaps, addressVars>>
  BY DEF RemoteRenews
<1>5. ref \in Refs /\ charges[ref] = None
  BY DEF Unused
<1>6. /\ charges' \in [Refs -> Charge \cup {None}]
      /\ PaidStays /\ HeldOK' /\ PaidFrom(ref, charge.email)'
  BY <1>2, <1>3, <1>4, <1>5, ChargeSettles
<1>7. RemoteOK'
  BY <1>4, <1>6, RemoteStaysOK DEF RemoteOK
<1> DEFINE success == [event |-> "success", ref |-> ref]
<1>8. success.event = "success" /\ success.ref = ref /\ success \in Hook
  BY <1>5 DEF Hook
<1> HIDE DEF success
<1>9. HookOK(success)'
  BY <1>6, <1>8 DEF HookOK, PaidFrom
<1>10. HooksOK' /\ hooks' \subseteq Hook
  BY <1>3, <1>6, <1>8, <1>9, HookStaysOK DEF HooksOK, Inv, TypeOK, success
<1> QED
  BY <1>4, <1>6, <1>7, <1>10, PaystackMoves DEF Inv, TypeOK, addressVars

LEMMA SubscribeKeeps ==
    ASSUME Inv, NEW c \in Callers, Subscribe(c)
    PROVE  Inv'
<1>1. call[c].pc = "subscribe" /\ UNCHANGED <<tableVars, charges, addressVars>>
  BY DEF Subscribe, At
<1>2. call[c] \in Call
  BY <1>1, CallTypes DEF Inv
<1>3. /\ PaidBy(call[c].ref, call[c].user) /\ call[c].plan \in Plans
      /\ charges[call[c].ref].plan = call[c].plan
      /\ call[c].user \in Users /\ call[c].ref \in Refs
  BY <1>1, <1>2 DEF Inv, CallOK, KeepsOK, WithPlan, Charging, Call, PaidBy
<1>4. PICK u \in Users, p \in Plans, ref \in Refs, a \in Addresses :
         /\ u = call[c].user /\ p = call[c].plan /\ ref = call[c].ref
         /\ a = charges[ref].email
  BY <1>3 DEF Inv, TypeOK, PaidBy, Charge
<1>5. /\ PaidStays /\ PaidBy(ref, u) /\ PaidBy(ref, u)'
      /\ HeldOK' /\ <<u, a>> \in held /\ <<u, a>> \in held'
  BY <1>1, <1>3, <1>4, ChargesStay DEF PaidBy, Inv, HeldOK, PaidStays
<1> DEFINE key == RemoteCode(a, ref)
           create == [event |-> "create", code |-> key]
           Got(code) == call' = [call EXCEPT ![c].pc = "find", ![c].code = code]
<1>6. /\ key \in RemoteKey /\ key \in Code /\ key.email = a /\ key.ref = ref
      /\ create \in Hook /\ create.event = "create" /\ create.code = key
  BY RemoteCodeTypes
<1>7. PICK code \in Code :
         /\ Got(code) /\ OwnCode(code, u)
         /\ remote' \subseteq remote \cup {key}
         /\ hooks' \subseteq hooks \cup {create}
         /\ mishaps' \in 0..MaxMishaps
  <2>1. mishaps \in 0..MaxMishaps /\ (Mishap => mishaps' \in 0..MaxMishaps)
    BY PlanPeriods DEF Inv, TypeOK, Mishap
  <2>2. CASE /\ Got(key)
             /\ remote' = remote \cup {key}
             /\ hooks' = hooks \cup {create}
             /\ UNCHANGED mishaps
    BY <1>5, <1>6, <2>1, <2>2 DEF OwnCode
  <2>3. CASE /\ \E k \in RemoteOf(a, p) : Got(k)
             /\ UNCHANGED <<remote, hooks, mishaps>>
    <3>1. \A k \in RemoteOf(a, p) : k \in Code /\ k.email = a
      BY DEF RemoteOf, Inv, TypeOK
    <3> QED
      BY <1>5, <2>1, <2>3, <3>1 DEF OwnCode
  <2>4. CASE /\ Mishap \/ UNCHANGED mishaps
             /\ Got([kind |-> "ref", email |-> a, ref |-> ref])
             /\ UNCHANGED <<remote, hooks>>
    <3>1. [kind |-> "ref", email |-> a, ref |-> ref] \in Code
      BY DEF Code
    <3> QED
      BY <1>5, <2>1, <2>4, <3>1 DEF OwnCode
  <2> QED
    BY <1>4, <2>2, <2>3, <2>4 DEF Subscribe
<1> HIDE DEF key, create
<1> DEFINE k == [call[c] EXCEPT !.pc = "find", !.code = code]
<1>8. call' = [call EXCEPT ![c] = k] /\ k \in Call
  BY <1>1, <1>7, GoesOnWithCode DEF Inv, CallPC
<1>9. k.pc = "find" /\ k.user = u /\ k.plan = p /\ k.ref = ref /\ k.code = code
  BY <1>2, <1>4 DEF Call
<1>10. PICK l \in Call : l = k
  BY <1>8
<1> HIDE DEF k
<1>11. KeepsOK(l)'
  <2>1. charges'[ref].plan = p
    BY <1>1, <1>3, <1>4
  <2> QED
    BY <1>5, <1>7, <1>9, <1>10, <2>1, OwnCodeStays DEF KeepsOK, Holding
<1>12. /\ call' \in [Callers -> Call \cup {NoCall}] /\ call'[c] = l
       /\ \A d \in Callers \ {c} : call'[d] = call[d]
  BY <1>8, <1>10, CallMoves DEF Inv
<1>13. RemoteOK' /\ remote' \subseteq Code
  <2>1. PaidFrom(ref, a)'
    BY <1>1, <1>4, <1>5 DEF PaidBy, PaidFrom
  <2> QED
    BY <2>1, <1>5, <1>6, <1>7, RemoteStaysOK DEF RemoteOK, Inv, TypeOK
<1>14. HooksOK' /\ hooks' \subseteq Hook
  <2>1. HookOK(create)'
    BY <1>6 DEF HookOK
  <2> QED
    BY <1>5, <1>6, <1>7, <2>1, HookStaysOK DEF HooksOK, Inv, TypeOK
<1> QED
  BY <1>1, <1>5, <1>7, <1>11, <1>12, <1>13, <1>14, NewLocalsOK, PaystackMoves
     DEF Inv, TypeOK, addressVars

LEMMA DisableKeeps ==
    ASSUME Inv, NEW c \in Callers, Disable(c)
    PROVE  Inv'
<1>1. call[c].pc = "disable" /\ Goto(c, "cancelWrite")
      /\ UNCHANGED <<tableVars, charges, addressVars>>
  BY DEF Disable, At
<1>2. call[c] \in Call
  BY <1>1, CallTypes DEF Inv
<1>3. /\ call[c].row \in RowsOf(call[c].user) /\ call[c].user \in Users
      /\ call[c].code \in Code
  BY <1>1, <1>2 DEF Inv, CallOK, KeepsOK, Holding, Call
<1> PICK code \in Code : code = call[c].code
  BY <1>3
<1> DEFINE k == [call[c] EXCEPT !.pc = "cancelWrite"]
           disable == [event |-> "disable", code |-> code]
<1>4. call' = [call EXCEPT ![c] = k] /\ k \in Call
  BY <1>1, GoesOn DEF Inv, CallPC
<1>5. k.pc = "cancelWrite" /\ k.user = call[c].user /\ k.row = call[c].row
  BY <1>2 DEF Call
<1>6. PICK l \in Call : l = k
  BY <1>4
<1> HIDE DEF k
<1>7. l.row \in RowsOf(l.user)'
  BY <1>1, <1>3, <1>5, <1>6 DEF tableVars, RowsOf
<1>8. KeepsOK(l)'
  BY <1>5, <1>6, <1>7 DEF KeepsOK, Charging, WithPlan
<1>9. /\ call' \in [Callers -> Call \cup {NoCall}] /\ call'[c] = l
      /\ \A d \in Callers \ {c} : call'[d] = call[d]
  BY <1>4, <1>6, CallMoves DEF Inv
<1>10. /\ remote' \subseteq remote
       /\ hooks' \subseteq hooks \/ (/\ IsRemote(code)
                                     /\ hooks' = hooks \cup {disable})
       /\ mishaps' \in 0..MaxMishaps
  BY PlanPeriods DEF Disable, Mishap, Inv, TypeOK
<1>11. PaidStays /\ HeldOK'
  BY <1>1, ChargesStay DEF Inv
<1>12. RemoteOK' /\ remote' \subseteq Code
  BY <1>10, <1>11, RemoteStaysOK DEF RemoteOK, Inv, TypeOK
<1>13. IsRemote(code) => disable \in Hook /\ HookOK(disable)'
  BY DEF IsRemote, Code, Hook, HookOK
<1> HIDE DEF disable
<1>14. HooksOK' /\ hooks' \subseteq Hook
  BY <1>10, <1>11, <1>13, HookStaysOK DEF HooksOK, Inv, TypeOK
<1> QED
  BY <1>1, <1>8, <1>9, <1>10, <1>11, <1>12, <1>14, NewLocalsOK, PaystackMoves
     DEF Inv, TypeOK, addressVars

---------------------------------------------------------------------------
(* Writing the table *)

LEMMA CreateWrites ==
    ASSUME Inv, NEW row \in Row, RowOK(row), Create(row),
           UNCHANGED <<charges, addressVars>>
    PROVE  /\ subs' \in Seq(Row) /\ Len(subs) <= Len(subs')
           /\ OwnersStay /\ RowsOK'
           /\ Len(subs) + 1 \in RowsOf(row.userId)'
<1>1. /\ subs \in Seq(Row) /\ subs' \in Seq(Row)
      /\ Len(subs) \in Nat /\ Len(subs') = Len(subs) + 1
      /\ \A i \in 1..Len(subs) : subs'[i] = subs[i]
      /\ subs'[Len(subs) + 1] = row
  BY AppendProperties, LenProperties DEF Inv, TypeOK, TableTypeOK, Create
<1>2. OwnersStay
  BY <1>1 DEF OwnersStay, RowsOf
<1>3. ASSUME NEW i \in 1..Len(subs')
      PROVE  RowOK(subs[i])' 
  <2>1. PICK new : new = subs'[i]
    OBVIOUS
  <2>2. RowOK(new)
    BY <1>1, <2>1 DEF Inv, RowsOK
  <2>3. RowOK(new)'
    BY <2>2, ChargesStay, RowStaysOK
  <2> QED
    BY <2>1, <2>3 DEF RowOK, OwnCode
<1>4. Len(subs) + 1 \in RowsOf(row.userId)'
  BY <1>1 DEF RowsOf
<1> QED
  BY <1>1, <1>2, <1>3, <1>4 DEF RowsOK

LEMMA UpdateWrites ==
    ASSUME Inv, NEW r \in 1..Len(subs), NEW row \in Row, RowOK(row),
           row.userId = subs[r].userId, Update(r, row),
           UNCHANGED <<charges, addressVars>>
    PROVE  /\ subs' \in Seq(Row) /\ Len(subs) <= Len(subs')
           /\ OwnersStay /\ RowsOK'
<1>1. /\ subs \in Seq(Row) /\ subs' \in Seq(Row)
      /\ Len(subs) \in Nat /\ Len(subs') = Len(subs)
      /\ \A i \in 1..Len(subs) : subs'[i] = IF i = r THEN row ELSE subs[i]
  BY ExceptSeq, LenProperties DEF Inv, TypeOK, TableTypeOK, Update
<1>2. OwnersStay
  BY <1>1 DEF OwnersStay, RowsOf
<1>3. ASSUME NEW i \in 1..Len(subs')
      PROVE  RowOK(subs[i])'
  <2>1. PICK new : new = subs'[i]
    OBVIOUS
  <2>2. RowOK(new)
    BY <1>1, <2>1 DEF Inv, RowsOK
  <2>3. RowOK(new)'
    BY <2>2, ChargesStay, RowStaysOK
  <2> QED
    BY <2>1, <2>3 DEF RowOK, OwnCode
<1> QED
  BY <1>1, <1>2, <1>3 DEF RowsOK

(* The invariant after a step of c that wrote a row.                       *)
LEMMA WroteTable ==
    ASSUME Inv, NEW c \in Callers, NEW k \in Call \cup {NoCall}, KeepsOK(k)',
           call' = [call EXCEPT ![c] = k],
           subs' \in Seq(Row), Len(subs) <= Len(subs'), OwnersStay, RowsOK',
           linked' \in [Users -> Nat], LinkedToOwnRow',
           UNCHANGED <<now, plans, payments, notices, charges, remote, hooks, mishaps,
                       addressVars>>
    PROVE  Inv'
<1>1. /\ call' \in [Callers -> Call \cup {NoCall}] /\ call'[c] = k
      /\ \A d \in Callers \ {c} : call'[d] = call[d]
  BY CallMoves DEF Inv
<1>2. TypeOK'
  BY <1>1 DEF Inv, TypeOK, TableTypeOK, addressVars
<1>3. PaidStays /\ HeldOK'
  BY ChargesStay DEF Inv
<1>4. MoneyOK'
  <2>1. NoMoneyWithoutSubscription'
    BY DEF Inv, MoneyOK, NoMoneyWithoutSubscription, OwnersStay
  <2>2. PaymentsWereCharged'
    BY DEF Inv, MoneyOK, PaymentsWereCharged, addressVars
  <2> QED
    BY <2>1, <2>2 DEF MoneyOK
<1>5. RemoteOK' /\ HooksOK'
  BY <1>3, RemoteStaysOK, HookStaysOK DEF RemoteOK, HooksOK, Inv
<1> QED
  BY <1>1, <1>2, <1>3, <1>4, <1>5, NewLocalsOK, Keeps

LEMMA LinksStay ==
    ASSUME Inv, OwnersStay, UNCHANGED linked
    PROVE  linked' \in [Users -> Nat] /\ LinkedToOwnRow'
BY DEF Inv, TypeOK, TableTypeOK, LinkedToOwnRow, OwnersStay

(* A handler writes the row it holds and goes on with the locals k.        *)
LEMMA WritesBack ==
    ASSUME Inv, NEW c \in Callers, NEW k \in Call \cup {NoCall},
           call' = [call EXCEPT ![c] = k],
           NEW r \in 1..Len(subs), NEW row \in Row, RowOK(row),
           row.userId = subs[r].userId, Update(r, row),
           KeepsOK(k),
           UNCHANGED <<now, plans, linked, payments, notices,
                       charges, remote, hooks, mishaps,
                       addressVars>>
    PROVE  Inv'
<1>1. /\ subs' \in Seq(Row) /\ Len(subs) <= Len(subs')
      /\ OwnersStay /\ RowsOK'
  BY UpdateWrites
<1>2. linked' \in [Users -> Nat] /\ LinkedToOwnRow'
  BY <1>1, LinksStay
<1>3. KeepsOK(k)'
  BY <1>1, ChargesStay, LenProperties, KeepsStayOK DEF Inv, TypeOK, TableTypeOK
<1> QED
  BY <1>1, <1>2, <1>3, WroteTable

---------------------------------------------------------------------------
(* What the handlers write *)

EndedRow(old) ==
    [old EXCEPT !.isActive = FALSE, !.status = "expired", !.type = "FREE"]

CanceledRow(old) ==
    [old EXCEPT !.isActive = FALSE, !.status = "canceled",
                !.cancelAtPeriodEnd = TRUE]

CodedRow(old, code) == [old EXCEPT !.paystackSubId = code]

RenewedRow(old, day) == [old EXCEPT !.endDate = day, !.status = "active"]

DisabledRow(old) == [old EXCEPT !.isActive = FALSE, !.status = "canceled"]

LEMMA EndedRowTypes ==
    ASSUME NEW old \in Row
    PROVE  /\ EndedRow(old) \in Row
           /\ EndedRow(old).userId = old.userId
           /\ EndedRow(old).paystackSubId = old.paystackSubId
           /\ EndedRow(old).isActive = FALSE
BY DEF EndedRow, Row, DeadStatus, PlanTypes

LEMMA CanceledRowTypes ==
    ASSUME NEW old \in Row
    PROVE  /\ CanceledRow(old) \in Row
           /\ CanceledRow(old).userId = old.userId
           /\ CanceledRow(old).paystackSubId = old.paystackSubId
           /\ CanceledRow(old).isActive = FALSE
BY DEF CanceledRow, Row, DeadStatus

LEMMA DisabledRowTypes ==
    ASSUME NEW old \in Row
    PROVE  /\ DisabledRow(old) \in Row
           /\ DisabledRow(old).userId = old.userId
           /\ DisabledRow(old).paystackSubId = old.paystackSubId
           /\ DisabledRow(old).isActive = FALSE
BY DEF DisabledRow, Row, DeadStatus

LEMMA CodedRowTypes ==
    ASSUME NEW old \in Row, NEW code \in Code
    PROVE  LET new == CodedRow(old, code) IN
           /\ new \in Row
           /\ new.userId = old.userId /\ new.planId = old.planId
           /\ new.paystackSubId = code
           /\ new.isActive = old.isActive /\ new.status = old.status
           /\ new.isTrial = old.isTrial
BY DEF CodedRow, Row

LEMMA RenewedRowTypes ==
    ASSUME NEW old \in Row, NEW day \in Date
    PROVE  LET new == RenewedRow(old, day) IN
           /\ new \in Row
           /\ new.userId = old.userId /\ new.planId = old.planId
           /\ new.paystackSubId = old.paystackSubId
           /\ new.isActive = old.isActive /\ new.status = "active"
           /\ new.isTrial = old.isTrial
BY DEF RenewedRow, Row, LiveStatus

(* A row that is switched off may keep the code it has.                    *)
LEMMA DeadRowOK ==
    ASSUME NEW old, NEW row, RowOK(old), row.userId = old.userId,
           row.paystackSubId = old.paystackSubId, row.isActive = FALSE
    PROVE  RowOK(row)
BY DEF RowOK

LEMMA CodedRowOK ==
    ASSUME NEW old \in Row, NEW code \in Code, RowOK(old),
           OwnCode(code, old.userId)
    PROVE  RowOK(CodedRow(old, code))
BY CodedRowTypes DEF RowOK

LEMMA RenewedRowOK ==
    ASSUME NEW old \in Row, NEW day \in Date, RowOK(old)
    PROVE  RowOK(RenewedRow(old, day))
BY RenewedRowTypes DEF RowOK, LiveStatus

LEMMA TrialRowOK ==
    ASSUME TypeOK, NEW c \in Callers, call[c].user \in Users,
           call[c].plan \in Plans
    PROVE  /\ TrialRow(c) \in Row /\ RowOK(TrialRow(c))
           /\ TrialRow(c).userId = call[c].user
<1>1. /\ PlanType[call[c].plan] \in PlanTypes
      /\ now \in Nat /\ now + TrialDays \in Date
      /\ None \in Code
  BY PlansAreTyped, PlanPeriods DEF TypeOK, TableTypeOK, Date, Code
<1> QED
  BY <1>1 DEF TrialRow, Row, RowOK, OwnCode, LiveStatus

LEMMA PaidRowOK ==
    ASSUME TypeOK, NEW c \in Callers, call[c] \in Call, call[c].plan \in Plans,
           PaidBy(call[c].ref, call[c].user),
           charges[call[c].ref].plan = call[c].plan,
           OwnCode(call[c].code, call[c].user),
           NEW old, old \in Row \/ old = BlankRow(c)
    PROVE  /\ PaidRow(c, old) \in Row /\ RowOK(PaidRow(c, old))
           /\ PaidRow(c, old).userId = call[c].user
<1>1. /\ call[c].user \in Users /\ call[c].code \in Code /\ call[c].day \in Date
      /\ PlanType[call[c].plan] \in PlanTypes /\ now \in Nat
      /\ call[c].ref \in Refs
  BY PlansAreTyped DEF Call, TypeOK, TableTypeOK, PaidBy
<1>2. PICK from : /\ from \in Row
                  /\ PaidRow(c, old) = PaidRow(c, from)
  <2>1. CASE old \in Row
    BY <2>1
  <2>2. CASE old = BlankRow(c)
    <3>1. TrialRow(c) \in Row
      BY <1>1, TrialRowOK
    <3>2. BlankRow(c) \in Row
      BY <3>1 DEF BlankRow, Row
    <3> QED
      BY <2>2, <3>2
  <2> QED
    BY <2>1, <2>2
<1> DEFINE new == PaidRow(c, from)
<1>3. /\ new \in Row
      /\ new.userId = call[c].user /\ new.planId = call[c].plan
      /\ new.status = "active" /\ new.paystackSubId = call[c].code
  BY <1>1, <1>2 DEF PaidRow, Row, LiveStatus
<1> HIDE DEF new
<1>4. RowOK(new)
  BY <1>1, <1>3 DEF RowOK, LiveStatus
<1> QED
  BY <1>2, <1>3, <1>4 DEF new

LEMMA TrialCreateKeeps ==
    ASSUME Inv, NEW c \in Callers, TrialCreate(c)
    PROVE  Inv'
<1>1. /\ call[c].pc = "trialCreate"
      /\ call' = [call EXCEPT ![c] = NoCall]
      /\ UNCHANGED <<now, plans, linked, payments, notices,
                     charges, remote, hooks, mishaps,
                     addressVars>>
  BY DEF TrialCreate, At, Finish
<1>2. call[c].user \in Users /\ call[c].plan \in Plans
  <2>1. call[c] \in Call
    BY <1>1, CallTypes DEF Inv
  <2> QED
    BY <1>1, <2>1 DEF Inv, CallOK, KeepsOK, WithPlan, Call
<1>3. /\ subs' \in Seq(Row) /\ Len(subs) <= Len(subs')
      /\ OwnersStay /\ RowsOK'
  <2>1. CASE Create(TrialRow(c))
    <3>1. PICK row \in Row : row = TrialRow(c)
      BY <1>2, TrialRowOK DEF Inv
    <3> QED
      BY <1>1, <1>2, <2>1, <3>1, TrialRowOK, CreateWrites DEF Inv
  <2>2. CASE UNCHANGED subs
    BY <1>1, <2>2, SubsStay, ChargesStay, LenProperties, TableStays
       DEF Inv, TypeOK, TableTypeOK
  <2> QED
    BY <2>1, <2>2 DEF TrialCreate
<1>4. linked' \in [Users -> Nat] /\ LinkedToOwnRow'
  BY <1>1, <1>3, LinksStay
<1> QED
  BY <1>1, <1>3, <1>4, NoCallIsOKThen, WroteTable

(* The row a handler holds.                                                *)
LEMMA HeldRow ==
    ASSUME Inv, NEW c \in Callers,
           call[c].pc \in Holding \cup {"disableWrite"}
    PROVE  /\ call[c].row \in 1..Len(subs)
           /\ subs[call[c].row] \in Row /\ RowOK(subs[call[c].row])
           /\ call[c].pc # "disableWrite" =>
                 /\ call[c].row \in RowsOf(call[c].user)
                 /\ subs[call[c].row].userId = call[c].user
<1>1. /\ call[c].row \in 1..Len(subs)
      /\ call[c].pc # "disableWrite" => call[c].row \in RowsOf(call[c].user)
  BY DEF Inv, CallOK, KeepsOK, RowsOf
<1> QED
  BY <1>1, RowIsRow DEF Inv, RowsOK, RowsOf

LEMMA StatusWriteKeeps ==
    ASSUME Inv, NEW c \in Callers, StatusWrite(c)
    PROVE  Inv'
<1>1. PICK r : r = call[c].row
  OBVIOUS
<1>2. /\ call[c].pc = "statusWrite"
      /\ Update(r, EndedRow(subs[r]))
      /\ call' = [call EXCEPT ![c] = NoCall]
      /\ UNCHANGED <<now, plans, linked, payments, notices,
                     charges, remote, hooks, mishaps,
                     addressVars>>
  BY <1>1 DEF StatusWrite, At, Finish, EndedRow
<1>3. r \in 1..Len(subs) /\ subs[r] \in Row /\ RowOK(subs[r])
  BY <1>1, <1>2, HeldRow DEF Holding
<1>4. PICK row : row = EndedRow(subs[r])
  OBVIOUS
<1>5. row \in Row /\ RowOK(row) /\ row.userId = subs[r].userId
  BY <1>3, <1>4, EndedRowTypes, DeadRowOK
<1> QED
  BY <1>2, <1>3, <1>4, <1>5, NoCallIsOK, WritesBack

LEMMA DisableWriteKeeps ==
    ASSUME Inv, NEW c \in Callers, DisableWrite(c)
    PROVE  Inv'
<1>1. PICK r : r = call[c].row
  OBVIOUS
<1>2. /\ call[c].pc = "disableWrite"
      /\ Update(r, DisabledRow(subs[r]))
      /\ call' = [call EXCEPT ![c] = NoCall]
      /\ UNCHANGED <<now, plans, linked, payments, notices,
                     charges, remote, hooks, mishaps,
                     addressVars>>
  BY <1>1 DEF DisableWrite, At, Finish, DisabledRow
<1>3. r \in 1..Len(subs) /\ subs[r] \in Row /\ RowOK(subs[r])
  BY <1>1, <1>2, HeldRow
<1>4. PICK row : row = DisabledRow(subs[r])
  OBVIOUS
<1>5. row \in Row /\ RowOK(row) /\ row.userId = subs[r].userId
  BY <1>3, <1>4, DisabledRowTypes, DeadRowOK
<1> QED
  BY <1>2, <1>3, <1>4, <1>5, NoCallIsOK, WritesBack

LEMMA CodeWriteKeeps ==
    ASSUME Inv, NEW c \in Callers, CodeWrite(c)
    PROVE  Inv'
<1>1. PICK r, code : r = call[c].row /\ code = call[c].code
  OBVIOUS
<1>2. /\ call[c].pc = "codeWrite"
      /\ Update(r, CodedRow(subs[r], code))
      /\ call' = [call EXCEPT ![c] = NoCall]
      /\ UNCHANGED <<now, plans, linked, payments, notices,
                     charges, remote, hooks, mishaps,
                     addressVars>>
  BY <1>1 DEF CodeWrite, At, Finish, CodedRow
<1>3. /\ r \in 1..Len(subs) /\ subs[r] \in Row /\ RowOK(subs[r])
      /\ subs[r].userId = call[c].user
  BY <1>1, <1>2, HeldRow DEF Holding
<1>4. code \in Code /\ OwnCode(code, subs[r].userId)
  <2>1. code \in Code
    BY <1>1, <1>2, CallTypes DEF Inv, Call
  <2> QED
    BY <1>1, <1>2, <1>3, <2>1 DEF Inv, CallOK, KeepsOK, OwnCode
<1>5. PICK row : row = CodedRow(subs[r], code)
  OBVIOUS
<1>6. row \in Row /\ RowOK(row) /\ row.userId = subs[r].userId
  BY <1>3, <1>4, <1>5, CodedRowTypes, CodedRowOK
<1> QED
  BY <1>2, <1>3, <1>5, <1>6, NoCallIsOK, WritesBack

LEMMA CancelWriteKeeps ==
    ASSUME Inv, NEW c \in Callers, CancelWrite(c)
    PROVE  Inv'
<1>1. PICK r : r = call[c].row
  OBVIOUS
<1>2. /\ call[c].pc = "cancelWrite"
      /\ Update(r, CanceledRow(subs[r])) /\ Goto(c, "notify")
      /\ UNCHANGED <<now, plans, linked, payments, notices,
                     charges, remote, hooks, mishaps,
                     addressVars>>
  BY <1>1 DEF CancelWrite, At, CanceledRow
<1>3. /\ r \in 1..Len(subs) /\ subs[r] \in Row /\ RowOK(subs[r])
      /\ r \in RowsOf(call[c].user)
  BY <1>1, <1>2, HeldRow DEF Holding
<1>4. PICK row : row = CanceledRow(subs[r])
  OBVIOUS
<1>5. row \in Row /\ RowOK(row) /\ row.userId = subs[r].userId
  BY <1>3, <1>4, CanceledRowTypes, DeadRowOK
<1>6. PICK k : k = [call[c] EXCEPT !.pc = "notify"]
  OBVIOUS
<1>7. call' = [call EXCEPT ![c] = k] /\ k \in Call
  BY <1>2, <1>6, GoesOn DEF Inv, CallPC
<1>8. k.pc = "notify" /\ k.user = call[c].user
  BY <1>2, <1>6, CallTypes DEF Inv, Call
<1>9. KeepsOK(k)
  BY <1>3, <1>8 DEF KeepsOK, WithPlan, Charging, Holding
<1> QED
  BY <1>2, <1>3, <1>4, <1>5, <1>7, <1>9, WritesBack

LEMMA RenewWriteKeeps ==
    ASSUME Inv, NEW c \in Callers, RenewWrite(c)
    PROVE  Inv'
<1>1. PICK r, day : r = call[c].row /\ day = call[c].day
  OBVIOUS
<1>2. /\ call[c].pc = "renewWrite"
      /\ Update(r, RenewedRow(subs[r], day)) /\ Goto(c, "pay")
      /\ UNCHANGED <<now, plans, linked, payments, notices,
                     charges, remote, hooks, mishaps,
                     addressVars>>
  BY <1>1 DEF RenewWrite, At, RenewedRow
<1>3. /\ r \in 1..Len(subs) /\ subs[r] \in Row /\ RowOK(subs[r])
      /\ r \in RowsOf(call[c].user) /\ day \in Date
  BY <1>1, <1>2, HeldRow, CallTypes DEF Holding, Inv, Call
<1>4. PICK row : row = RenewedRow(subs[r], day)
  OBVIOUS
<1>5. row \in Row /\ RowOK(row) /\ row.userId = subs[r].userId
  BY <1>3, <1>4, RenewedRowTypes, RenewedRowOK
<1>6. PICK k : k = [call[c] EXCEPT !.pc = "pay"]
  OBVIOUS
<1>7. call' = [call EXCEPT ![c] = k] /\ k \in Call
  BY <1>2, <1>6, GoesOn DEF Inv, CallPC
<1>8. k.pc = "pay" /\ k.user = call[c].user /\ k.ref = call[c].ref
  BY <1>2, <1>6, CallTypes DEF Inv, Call
<1>9. BilledTo(call[c].ref, call[c].user)
  BY <1>2 DEF Inv, CallOK, KeepsOK
<1>10. KeepsOK(k)
  BY <1>3, <1>8, <1>9 DEF KeepsOK, WithPlan, Charging, Holding
<1> QED
  BY <1>2, <1>3, <1>4, <1>5, <1>7, <1>10, WritesBack

(* The row is written and User.subscriptionId with it.                     *)
LEMMA WriteKeeps ==
    ASSUME Inv, NEW c \in Callers, Write(c)
    PROVE  Inv'
<1>1. /\ call[c].pc = "write" /\ Goto(c, "pay")
      /\ UNCHANGED <<now, plans, payments, notices, charges, remote, hooks, mishaps,
                     addressVars>>
  BY DEF Write, At
<1>2. PICK r, u : r = call[c].row /\ u = call[c].user
  OBVIOUS
<1>3. /\ call[c] \in Call /\ r \in Nat /\ u \in Users
      /\ call[c].plan \in Plans /\ PaidBy(call[c].ref, u)
      /\ charges[call[c].ref].plan = call[c].plan
      /\ OwnCode(call[c].code, u) /\ (r = 0 \/ r \in RowsOf(u))
  <2>1. call[c] \in Call
    BY <1>1, CallTypes DEF Inv
  <2> QED
    BY <1>1, <1>2, <2>1 DEF Inv, CallOK, KeepsOK, WithPlan, Charging, Call
<1> DEFINE id == IF r = 0 THEN Len(subs) + 1 ELSE r
<1>4. PICK n : n = id
  OBVIOUS
<1>5. linked' = [linked EXCEPT ![u] = n]
  BY <1>2, <1>4 DEF Write
<1>6. /\ subs' \in Seq(Row) /\ Len(subs) <= Len(subs')
      /\ OwnersStay /\ RowsOK'
      /\ n \in RowsOf(u)'
  <2>1. CASE r = 0 /\ Create(PaidRow(c, BlankRow(c)))
    <3>1. PICK row : row = PaidRow(c, BlankRow(c))
      OBVIOUS
    <3>2. row \in Row /\ RowOK(row) /\ row.userId = u
      BY <1>2, <1>3, <3>1, PaidRowOK DEF Inv
    <3> QED
      BY <1>1, <1>4, <2>1, <3>1, <3>2, CreateWrites
  <2>2. CASE r # 0 /\ Update(r, PaidRow(c, subs[r]))
    <3>1. r \in 1..Len(subs) /\ subs[r] \in Row /\ subs[r].userId = u
      BY <1>3, <2>2, RowIsRow DEF Inv, RowsOf
    <3>2. PICK row : row = PaidRow(c, subs[r])
      OBVIOUS
    <3>3. row \in Row /\ RowOK(row) /\ row.userId = u
      BY <1>2, <1>3, <3>1, <3>2, PaidRowOK DEF Inv
    <3>4. /\ subs' \in Seq(Row) /\ Len(subs) <= Len(subs')
          /\ OwnersStay /\ RowsOK'
      BY <1>1, <2>2, <3>1, <3>2, <3>3, UpdateWrites
    <3> QED
      BY <1>3, <1>4, <2>2, <3>4 DEF OwnersStay
  <2> QED
    BY <1>2, <2>1, <2>2 DEF Write
<1>7. linked' \in [Users -> Nat] /\ LinkedToOwnRow'
  <2>1. n \in Nat
    BY <1>6, LenProperties DEF RowsOf
  <2>2. linked \in [Users -> Nat]
    BY DEF Inv, TypeOK, TableTypeOK
  <2>3. \A v \in Users : linked'[v] = IF v = u THEN n ELSE linked[v]
    BY <1>3, <1>5, <2>2
  <2>4. LinkedToOwnRow'
    BY <1>6, <2>3 DEF Inv, LinkedToOwnRow, OwnersStay
  <2> QED
    BY <1>3, <1>5, <2>1, <2>2, <2>4
<1>8. PICK k : k = [call[c] EXCEPT !.pc = "pay"]
  OBVIOUS
<1>9. call' = [call EXCEPT ![c] = k] /\ k \in Call
  BY <1>1, <1>8, GoesOn DEF Inv, CallPC
<1>10. k.pc = "pay" /\ k.user = u /\ BilledTo(k.ref, u)
  BY <1>2, <1>3, <1>8, PaidIsBilled DEF Call, Inv
<1>11. RowsOf(k.user)' # {} /\ BilledTo(k.ref, k.user)'
  BY <1>1, <1>6, <1>10, ChargesStay, BilledToStays
<1>12. KeepsOK(k)'
  BY <1>10, <1>11 DEF KeepsOK, WithPlan, Charging, Holding
<1> QED
  BY <1>1, <1>6, <1>7, <1>9, <1>12, WroteTable

---------------------------------------------------------------------------
(* Payments and notices *)

LEMMA MoneyMoves ==
    ASSUME Inv, NEW c \in Callers, NEW k \in Call \cup {NoCall}, KeepsOK(k),
           call' = [call EXCEPT ![c] = k],
           payments' \in [Users \X Refs -> Nat],
           notices' \subseteq Users \X NoticeTypes, MoneyOK',
           mishaps' \in 0..MaxMishaps,
           UNCHANGED <<now, plans, subs, linked, charges, remote, hooks,
                       addressVars>>
    PROVE  Inv'
<1>1. /\ call' \in [Callers -> Call \cup {NoCall}] /\ call'[c] = k
      /\ \A d \in Callers \ {c} : call'[d] = call[d]
  BY CallMoves DEF Inv
<1>2. TypeOK'
  BY <1>1 DEF Inv, TypeOK, TableTypeOK, addressVars
<1>3. PaidStays /\ HeldOK' /\ OwnersStay /\ Len(subs) <= Len(subs')
  BY SubsStay, ChargesStay, LenProperties DEF Inv, TypeOK, TableTypeOK
<1>4. RowsOK' /\ LinkedToOwnRow'
  BY <1>3, RowStaysOK, SubsStay DEF Inv, RowsOK, LinkedToOwnRow
<1>5. RemoteOK' /\ HooksOK'
  BY <1>3, RemoteStaysOK, HookStaysOK DEF RemoteOK, HooksOK, Inv
<1>6. KeepsOK(k)'
  BY <1>3, LenProperties, KeepsStayOK DEF Inv, TypeOK, TableTypeOK
<1> QED
  BY <1>1, <1>2, <1>3, <1>4, <1>5, <1>6, NewLocalsOK, Keeps

LEMMA PayKeeps ==
    ASSUME Inv, NEW c \in Callers, Pay(c)
    PROVE  Inv'
<1>1. /\ call[c].pc = "pay"
      /\ UNCHANGED <<now, plans, subs, linked, notices, charges, remote, hooks,
                     addressVars>>
  BY DEF Pay, At
<1>2. call[c] \in Call
  BY <1>1, CallTypes DEF Inv
<1>3. /\ BilledTo(call[c].ref, call[c].user) /\ call[c].user \in Users
      /\ call[c].ref \in Refs /\ RowsOf(call[c].user) # {}
  BY <1>1, <1>2 DEF Inv, CallOK, KeepsOK, BilledTo, PaidFrom, Call
<1>4. CASE Mishap /\ Finish(c) /\ UNCHANGED payments
  <2>1. mishaps' \in 0..MaxMishaps
    BY <1>4, PlanPeriods DEF Mishap, Inv, TypeOK
  <2>2. PaidStays /\ MoneyOK'
    BY <1>1, <1>4, ChargesStay, TableStays
  <2> QED
    BY <1>1, <1>4, <2>1, <2>2, NoCallIsOK, MoneyMoves
       DEF Finish, Inv, TypeOK, TableTypeOK
<1>5. CASE /\ RecordPayment(call[c].user, call[c].ref)
           /\ Goto(c, "notify") /\ UNCHANGED mishaps
  <2>1. PICK u \in Users, ref \in Refs : u = call[c].user /\ ref = call[c].ref
    BY <1>3
  <2>2. payments' = [payments EXCEPT ![<<u, ref>>] = @ + 1]
    BY <1>5, <2>1 DEF RecordPayment
  <2>3. payments \in [Users \X Refs -> Nat]
    BY DEF Inv, TypeOK, TableTypeOK
  <2>4. /\ payments' \in [Users \X Refs -> Nat]
        /\ \A v \in Users, other \in Refs :
              v # u \/ other # ref => payments'[<<v, other>>] = payments[<<v, other>>]
    BY <2>2, <2>3
  <2>5. MoneyOK'
    <3>1. NoMoneyWithoutSubscription'
      <4>1. \A v : RowsOf(v)' = RowsOf(v)
        BY <1>1, SubsStay
      <4> QED
        BY <1>1, <1>3, <2>1, <2>4, <4>1
           DEF Inv, MoneyOK, NoMoneyWithoutSubscription
    <3>2. PaymentsWereCharged'
      BY <1>1, <1>3, <2>1, <2>4
         DEF Inv, MoneyOK, PaymentsWereCharged, BilledTo, PaidFrom, addressVars
    <3> QED
      BY <3>1, <3>2 DEF MoneyOK
  <2>6. PICK k : k = [call[c] EXCEPT !.pc = "notify"]
    OBVIOUS
  <2>7. call' = [call EXCEPT ![c] = k] /\ k \in Call
    BY <1>1, <1>5, <2>6, GoesOn DEF Inv, CallPC
  <2>8. k.pc = "notify" /\ k.user = call[c].user
    BY <1>2, <2>6 DEF Call
  <2>9. KeepsOK(k)
    BY <1>3, <2>8 DEF KeepsOK, WithPlan, Charging, Holding
  <2> QED
    BY <1>1, <1>5, <2>4, <2>5, <2>7, <2>9, MoneyMoves
       DEF Inv, TypeOK, TableTypeOK
<1> QED
  BY <1>4, <1>5 DEF Pay

LEMMA NotifyKeeps ==
    ASSUME Inv, NEW c \in Callers, Notify(c)
    PROVE  Inv'
<1>1. /\ call[c].pc = "notify"
      /\ call' = [call EXCEPT ![c] = NoCall]
      /\ notices' \subseteq notices \cup {<<call[c].user, call[c].says>>}
      /\ UNCHANGED <<now, plans, subs, linked, payments, charges, remote, hooks,
                     addressVars>>
  BY DEF Notify, At, Finish
<1>2. call[c] \in Call
  BY <1>1, CallTypes DEF Inv
<1>3. /\ call[c].user \in Users /\ call[c].says \in NoticeTypes
      /\ RowsOf(call[c].user) # {}
  BY <1>1, <1>2 DEF Inv, CallOK, KeepsOK, Call
<1>4. mishaps' \in 0..MaxMishaps
  BY PlanPeriods DEF Notify, Mishap, Inv, TypeOK
<1>5. notices' \subseteq Users \X NoticeTypes
  BY <1>1, <1>3 DEF Inv, TypeOK, TableTypeOK
<1>6. MoneyOK'
  <2>1. \A v : RowsOf(v)' = RowsOf(v)
    BY <1>1, SubsStay
  <2>2. NoMoneyWithoutSubscription'
    BY <1>1, <1>3, <2>1 DEF Inv, MoneyOK, NoMoneyWithoutSubscription
  <2>3. PaymentsWereCharged'
    BY <1>1 DEF Inv, MoneyOK, PaymentsWereCharged, addressVars
  <2> QED
    BY <2>2, <2>3 DEF MoneyOK
<1> QED
  BY <1>1, <1>4, <1>5, <1>6, NoCallIsOK, MoneyMoves DEF Inv, TypeOK, TableTypeOK

---------------------------------------------------------------------------
(* The invariant *)

(* The clock, a new plan, a lost event.                                    *)
LEMMA WorldKeeps ==
    ASSUME Inv, now' \in Nat, plans' \subseteq Plans, hooks' \subseteq hooks,
           mishaps' \in 0..MaxMishaps,
           UNCHANGED <<subs, linked, payments, notices, call, charges, remote,
                       addressVars>>
    PROVE  Inv'
<1>1. TypeOK'
  BY DEF Inv, TypeOK, TableTypeOK, addressVars
<1>2. PaidStays /\ HeldOK' /\ OwnersStay /\ Len(subs) <= Len(subs')
  BY SubsStay, ChargesStay, LenProperties DEF Inv, TypeOK, TableTypeOK
<1>3. RowsOK' /\ LinkedToOwnRow' /\ MoneyOK'
  BY <1>2, TableStays
<1>4. RemoteOK' /\ HooksOK'
  BY <1>2, RemoteStaysOK, HookStaysOK DEF RemoteOK, HooksOK, Inv
<1> QED
  BY <1>1, <1>2, <1>3, <1>4, Keeps

(* An account takes another address; nothing is forgotten.                 *)
LEMMA MoveAddressKeeps ==
    ASSUME Inv, NEW u \in Users, NEW a \in Addresses, MoveAddress(u, a)
    PROVE  Inv'
<1>1. /\ email' = [email EXCEPT ![u] = a] /\ held' = held \cup {<<u, a>>}
      /\ UNCHANGED <<tableVars, call, charges, remote, hooks, mishaps>>
  BY DEF MoveAddress
<1>2. /\ email' \in [Users -> Addresses]
      /\ held' \subseteq Users \X Addresses
      /\ moves' \in 0..MaxMoves
  BY <1>1, PlanPeriods DEF MoveAddress, Inv, TypeOK
<1>3. PaidStays
  BY <1>1 DEF PaidStays
<1>4. HeldOK'
  <2>1. email \in [Users -> Addresses]
    BY DEF Inv, TypeOK
  <2> QED
    BY <1>1, <2>1 DEF Inv, HeldOK
<1>5. RemoteOK' /\ HooksOK'
  BY <1>1, <1>3, RemoteStaysOK, HookStaysOK DEF RemoteOK, HooksOK, Inv
<1> QED
  BY <1>1, <1>2, <1>3, <1>4, <1>5, PaystackMoves DEF Inv, TypeOK

LEMMA InvInit == Init => Inv
<1> SUFFICES ASSUME Init PROVE Inv
  OBVIOUS
<1>1. TypeOK /\ HeldOK
  <2>1. email \in [Users -> Addresses] /\ held = {<<u, email[u]>> : u \in Users}
    BY DEF Init, PsInit
  <2>2. charges = [ref \in Refs |-> None]
    BY DEF Init, PsInit
  <2>3. HeldOK
    BY <2>1, <2>2 DEF HeldOK
  <2>4. held \subseteq Users \X Addresses
    BY <2>1
  <2> QED
    BY <2>1, <2>3, <2>4, EmptySeq, PlanPeriods
       DEF Init, TableInit, PsInit, TypeOK, TableTypeOK
<1>2. RowsOK
  <2>1. Len(subs) = 0
    BY DEF Init, TableInit
  <2> QED
    BY <2>1 DEF RowsOK
<1>3. LinkedToOwnRow
  BY DEF Init, TableInit, LinkedToOwnRow
<1>4. MoneyOK
  <2>1. ASSUME NEW u \in Users, NEW ref \in Refs
        PROVE  ~(payments[<<u, ref>>] > 0)
    <3>1. payments = [k \in Users \X Refs |-> 0] /\ <<u, ref>> \in Users \X Refs
      BY DEF Init, TableInit
    <3>2. payments[<<u, ref>>] = 0
      BY <3>1
    <3> QED
      BY <3>2
  <2>2. notices = {}
    BY DEF Init, TableInit
  <2> QED
    BY <2>1, <2>2 DEF MoneyOK, NoMoneyWithoutSubscription, PaymentsWereCharged
<1>5. RemoteOK /\ HooksOK
  BY DEF Init, PsInit, RemoteOK, HooksOK
<1>6. \A c \in Callers : CallOK(c)
  BY NoCallIsOK DEF Init, PsInit, CallOK, KeepsOK
<1> QED
  BY <1>1, <1>2, <1>3, <1>4, <1>5, <1>6 DEF Inv

LEMMA CallStepKeeps ==
    ASSUME Inv, NEW c \in Callers, PsStep(c)
    PROVE  Inv'
BY TrialActiveKeeps, TrialCreateKeeps, StatusWriteKeeps, ChargeRowKeeps,
   ChargedKeeps, CreateRowKeeps, SuccessRowKeeps,
   VerifyKeeps, SubscribeKeeps, FindKeeps, WriteKeeps, PayKeeps, NotifyKeeps,
   DisableKeeps, CancelWriteKeeps, CodeWriteKeeps, RenewWriteKeeps,
   DisableWriteKeeps
   DEF PsStep

LEMMA InvNext == Inv /\ [Next]_vars => Inv'
<1> SUFFICES ASSUME Inv, [Next]_vars PROVE Inv'
  OBVIOUS
<1>1. now \in Nat /\ plans \subseteq Plans /\ mishaps \in 0..MaxMishaps
  BY DEF Inv, TypeOK, TableTypeOK
<1>2. CASE UNCHANGED vars
  <2>1. /\ UNCHANGED <<now, plans, subs, linked, payments, notices>>
        /\ UNCHANGED <<call, charges, remote, hooks, mishaps,
                       addressVars>>
    BY <1>2 DEF vars, psVars, tableVars
  <2> QED
    BY <1>1, <2>1, WorldKeeps
<1>3. CASE Tick
  <2>1. /\ now' = now + 1
        /\ UNCHANGED <<plans, subs, linked, payments, notices>>
        /\ UNCHANGED <<call, charges, remote, hooks, mishaps,
                       addressVars>>
    BY <1>3 DEF Tick, psVars
  <2> QED
    BY <1>1, <2>1, WorldKeeps
<1>4. ASSUME NEW p \in Plans, CreatePlan(p)
      PROVE  Inv'
  <2>1. /\ plans' = plans \cup {p}
        /\ UNCHANGED <<now, subs, linked, payments, notices>>
        /\ UNCHANGED <<call, charges, remote, hooks, mishaps,
                       addressVars>>
    BY <1>4 DEF CreatePlan, psVars
  <2> QED
    BY <1>1, <2>1, WorldKeeps
<1>5. ASSUME NEW h \in hooks, LoseHook(h)
      PROVE  Inv'
  <2>1. /\ mishaps' \in 0..MaxMishaps /\ hooks' \subseteq hooks
        /\ UNCHANGED <<now, plans, subs, linked, payments, notices>>
        /\ UNCHANGED <<call, charges, remote, addressVars>>
    BY <1>1, <1>5, PlanPeriods DEF LoseHook, Mishap, tableVars
  <2> QED
    BY <1>1, <2>1, WorldKeeps
<1>12. ASSUME NEW u \in Users, NEW a \in Addresses, MoveAddress(u, a)
       PROVE  Inv'
  BY <1>12, MoveAddressKeeps
<1>6. ASSUME NEW k \in remote, RemoteRenews(k)
      PROVE  Inv'
  BY <1>6, RemoteRenewsKeeps
<1>7. ASSUME NEW c \in Callers, NEW u \in Users, Status(c, u) \/ Cancel(c, u)
      PROVE  Inv'
  BY <1>7, StatusKeeps, CancelKeeps
<1>8. ASSUME NEW c \in Callers, NEW u \in Users, NEW p \in Plans,
             StartTrial(c, u, p) \/ ChargeCard(c, u, p)
      PROVE  Inv'
  BY <1>8, StartTrialKeeps, ChargeCardKeeps
<1>9. ASSUME NEW c \in Callers, NEW ref \in Refs, SubmitOtp(c, ref)
      PROVE  Inv'
  BY <1>9, SubmitOtpKeeps
<1>10. ASSUME NEW c \in Callers, NEW h \in hooks,
              \/ HandleSubscriptionCreate(c, h)
              \/ HandleChargeSuccess(c, h)
              \/ HandleSubscriptionDisable(c, h)
       PROVE  Inv'
  BY <1>10, SubscriptionCreateKeeps, ChargeSuccessKeeps, SubscriptionDisableKeeps
<1>11. ASSUME NEW c \in Callers, PsStep(c) \/ Crash(c)
       PROVE  Inv'
  BY <1>11, CallStepKeeps, CrashKeeps
<1> QED
  BY <1>2, <1>3, <1>4, <1>5, <1>6, <1>7, <1>8, <1>9, <1>10, <1>11,
     <1>12
     DEF Next, PsNext

LEMMA Invariance == Spec => []Inv
<1> QED
  BY InvInit, InvNext, PTL DEF Spec

(* No call ever holds or writes a value the schema has no place for.       *)
THEOREM TypeCorrect == Spec => []TypeOK
<1>1. Inv => TypeOK
  BY DEF Inv
<1> QED
  BY <1>1, Invariance, PTL

(* A row that opens the premium features never carries a status that says  *)
(* the subscription is over.                                               *)
THEOREM ActiveRowsStayLive == Spec => []ActiveRowsAreLive
<1>1. Inv => ActiveRowsAreLive
  BY DEF Inv, RowsOK, RowOK, ActiveRowsAreLive
<1> QED
  BY <1>1, Invariance, PTL

(* User.subscriptionId names one of the user's own rows, though activate-  *)
(* Subscription connects it to a row it found an await ago.                *)
THEOREM LinksStayOwn == Spec => []LinkedToOwnRow
<1>1. Inv => LinkedToOwnRow
  BY DEF Inv
<1> QED
  BY <1>1, Invariance, PTL

(* Payments and notices name only users who have a subscription row.       *)
THEOREM MoneyNeedsSubscription == Spec => []NoMoneyWithoutSubscription
<1>1. Inv => NoMoneyWithoutSubscription
  BY DEF Inv, MoneyOK
<1> QED
  BY <1>1, Invariance, PTL

(* A payment row says that Paystack took this money, under this very       *)
(* reference and from a customer with an address of the account's, past or *)
(* present, whatever calls, events, moved addresses and crashes come in    *)
(* between.                                                                *)
THEOREM PaymentsAreCharged == Spec => []PaymentsWereCharged
<1>1. Inv => PaymentsWereCharged
  BY DEF Inv, MoneyOK
<1> QED
  BY <1>1, Invariance, PTL

(* An active row is a trial or its owner has paid for the plan it names,   *)
(* for any number of calls at once and not only for one at a time.         *)
THEOREM PremiumIsPaid == Spec => []PremiumWasPaid
<1>1. ASSUME Inv PROVE PremiumWasPaid
  <2>1. SUFFICES ASSUME NEW i \in 1..Len(subs), subs[i].isActive, ~subs[i].isTrial
                 PROVE  \E ref \in Refs :
                           /\ charges[ref] # None
                           /\ charges[ref].state = "paid"
                           /\ charges[ref].user = subs[i].userId
                           /\ charges[ref].plan = subs[i].planId
    BY <1>1, SubsDomain DEF Inv, PremiumWasPaid
  <2> QED
    BY <1>1, <2>1 DEF Inv, RowsOK, RowOK, PaidBy
<1> QED
  BY <1>1, Invariance, PTL

(* cancelSubscription and Paystack's disable event go by the code of a     *)
(* row: the customer it bills has an address of the row's owner, past or   *)
(* present, wherever addresses have gone since.                            *)
THEOREM CodesKeepTheirAddress == Spec => []CodeOfAddress
<1>1. Inv => CodeOfAddress
  BY SubsDomain DEF Inv, RowsOK, RowOK, OwnCode, CodeOfAddress
<1> QED
  BY <1>1, Invariance, PTL

---------------------------------------------------------------------------
(* Who writes the table *)

Writes(c) ==
    \/ TrialCreate(c) \/ StatusWrite(c) \/ Write(c) \/ CancelWrite(c)
    \/ CodeWrite(c) \/ RenewWrite(c) \/ DisableWrite(c)

(* Every other step leaves the table alone.                                *)
LEMMA WhoWrites ==
    ASSUME [Next]_vars
    PROVE  UNCHANGED subs \/ \E c \in Callers : Writes(c)
<1>1. CASE UNCHANGED vars
  BY <1>1 DEF vars, tableVars
<1>2. CASE Tick
  BY <1>2 DEF Tick
<1>3. ASSUME NEW p \in Plans, CreatePlan(p)
      PROVE  UNCHANGED subs
  BY <1>3 DEF CreatePlan
<1>4. ASSUME NEW h \in hooks, LoseHook(h)
      PROVE  UNCHANGED subs
  BY <1>4 DEF LoseHook, tableVars
<1>5. ASSUME NEW k \in remote, RemoteRenews(k)
      PROVE  UNCHANGED subs
  BY <1>5 DEF RemoteRenews, tableVars
<1>6. ASSUME NEW c \in Callers, NEW u \in Users, Status(c, u) \/ Cancel(c, u)
      PROVE  UNCHANGED subs
  BY <1>6 DEF Status, Cancel, tableVars
<1>7. ASSUME NEW c \in Callers, NEW u \in Users, NEW p \in Plans,
             StartTrial(c, u, p) \/ ChargeCard(c, u, p)
      PROVE  UNCHANGED subs
  BY <1>7 DEF StartTrial, ChargeCard, tableVars
<1>8. ASSUME NEW c \in Callers, NEW ref \in Refs, SubmitOtp(c, ref)
      PROVE  UNCHANGED subs
  BY <1>8 DEF SubmitOtp, tableVars
<1>9. ASSUME NEW c \in Callers, NEW h \in hooks,
             \/ HandleSubscriptionCreate(c, h)
             \/ HandleChargeSuccess(c, h)
             \/ HandleSubscriptionDisable(c, h)
      PROVE  UNCHANGED subs
  BY <1>9 DEF HandleSubscriptionCreate, HandleChargeSuccess,
              HandleSubscriptionDisable, tableVars
<1>10. ASSUME NEW c \in Callers, PsStep(c) \/ Crash(c)
       PROVE  UNCHANGED subs \/ Writes(c)
  <2>1. ASSUME \/ TrialActive(c) \/ ChargeRow(c) \/ Charged(c) \/ Verify(c)
               \/ Subscribe(c) \/ Find(c) \/ Pay(c) \/ Notify(c)
               \/ Disable(c) \/ CreateRow(c) \/ SuccessRow(c) \/ Crash(c)
        PROVE  UNCHANGED subs
    BY <2>1 DEF TrialActive, ChargeRow, Charged, Verify, Subscribe, Find, Pay,
                Notify, Disable, CreateRow, SuccessRow, Crash, tableVars
  <2> QED
    BY <1>10, <2>1 DEF PsStep, Writes
<1>11. ASSUME NEW u \in Users, NEW a \in Addresses, MoveAddress(u, a)
       PROVE  UNCHANGED subs
  BY <1>11 DEF MoveAddress, tableVars
<1> QED
  BY <1>1, <1>2, <1>3, <1>4, <1>5, <1>6, <1>7, <1>8, <1>9, <1>10, <1>11
     DEF Next, PsNext

(* What a handler that writes a row back may change: not the owner and not *)
(* the trial columns, and it switches nothing on.                          *)
Follows(old, new) ==
    /\ new.userId = old.userId
    /\ new.isTrial = old.isTrial
    /\ new.trialEndsAt = old.trialEndsAt
    /\ new.type \in {old.type, "FREE"}
    /\ new.isActive => old.isActive

DeadOK(row) == row.isActive \/ row.status \in DeadStatus

LEMMA EndedRowFollows ==
    ASSUME NEW old \in Row
    PROVE  Follows(old, EndedRow(old)) /\ DeadOK(EndedRow(old))
BY DEF EndedRow, Row, Follows, DeadOK, DeadStatus

LEMMA CanceledRowFollows ==
    ASSUME NEW old \in Row
    PROVE  Follows(old, CanceledRow(old)) /\ DeadOK(CanceledRow(old))
BY DEF CanceledRow, Row, Follows, DeadOK, DeadStatus

LEMMA DisabledRowFollows ==
    ASSUME NEW old \in Row
    PROVE  Follows(old, DisabledRow(old)) /\ DeadOK(DisabledRow(old))
BY DEF DisabledRow, Row, Follows, DeadOK, DeadStatus

LEMMA CodedRowFollows ==
    ASSUME NEW old \in Row, NEW code \in Code
    PROVE  /\ Follows(old, CodedRow(old, code))
           /\ DeadOK(old) => DeadOK(CodedRow(old, code))
BY DEF CodedRow, Row, Follows, DeadOK

LEMMA RenewedRowFollows ==
    ASSUME NEW old \in Row, NEW day \in Date
    PROVE  /\ Follows(old, RenewedRow(old, day))
           /\ old.isActive => DeadOK(RenewedRow(old, day))
BY DEF RenewedRow, Row, Follows, DeadOK

LEMMA WrittenBack ==
    ASSUME Inv, NEW c \in Callers, Writes(c), ~TrialCreate(c), ~Write(c)
    PROVE  /\ call[c].row \in 1..Len(subs)
           /\ \E row \in Row :
                 /\ Update(call[c].row, row)
                 /\ Follows(subs[call[c].row], row)
                 /\ \/ DeadOK(row)
                    \/ call[c].pc = "codeWrite" /\ ~DeadOK(subs[call[c].row])
                    \/ call[c].pc = "renewWrite" /\ ~subs[call[c].row].isActive
<1>1. PICK r, code, day :
         r = call[c].row /\ code = call[c].code /\ day = call[c].day
  OBVIOUS
<1>2. ASSUME call[c].pc \in Holding \cup {"disableWrite"}
      PROVE  /\ r \in 1..Len(subs) /\ subs[r] \in Row
             /\ code \in Code /\ day \in Date
  BY <1>1, <1>2, HeldRow, CallTypes DEF Holding, Inv, Call
<1>3. CASE StatusWrite(c)
  BY <1>1, <1>2, <1>3, EndedRowTypes, EndedRowFollows
     DEF StatusWrite, At, EndedRow, Holding
<1>4. CASE CancelWrite(c)
  BY <1>1, <1>2, <1>4, CanceledRowTypes, CanceledRowFollows
     DEF CancelWrite, At, CanceledRow, Holding
<1>5. CASE CodeWrite(c)
  BY <1>1, <1>2, <1>5, CodedRowTypes, CodedRowFollows
     DEF CodeWrite, At, CodedRow, Holding
<1>6. CASE RenewWrite(c)
  BY <1>1, <1>2, <1>6, RenewedRowTypes, RenewedRowFollows
     DEF RenewWrite, At, RenewedRow, Holding
<1>7. CASE DisableWrite(c)
  BY <1>1, <1>2, <1>7, DisabledRowTypes, DisabledRowFollows
     DEF DisableWrite, At, DisabledRow, Holding
<1> QED
  BY <1>3, <1>4, <1>5, <1>6, <1>7 DEF Writes

(* A write leaves the other rows as they are.                              *)
LEMMA UpdateMoves ==
    ASSUME TypeOK, NEW r \in 1..Len(subs), NEW row \in Row, Update(r, row)
    PROVE  /\ Len(subs) \in Nat /\ Len(subs') = Len(subs)
           /\ DOMAIN subs = 1..Len(subs) /\ DOMAIN subs' = 1..Len(subs)
           /\ \A i \in 1..Len(subs) : subs'[i] = IF i = r THEN row ELSE subs[i]
BY ExceptSeq, LenProperties DEF TypeOK, TableTypeOK, Update

LEMMA CreateMoves ==
    ASSUME TypeOK, NEW row \in Row, Create(row)
    PROVE  /\ Len(subs) \in Nat /\ Len(subs') = Len(subs) + 1
           /\ DOMAIN subs = 1..Len(subs) /\ DOMAIN subs' = 1..(Len(subs) + 1)
           /\ \A i \in 1..Len(subs) : subs'[i] = subs[i]
           /\ subs'[Len(subs) + 1] = row
BY AppendProperties, LenProperties DEF TypeOK, TableTypeOK, Create

(* The row that activateSubscription writes.                               *)
LEMMA PaidWrite ==
    ASSUME Inv, NEW c \in Callers, Write(c)
    PROVE  /\ call[c].pc = "write" /\ call[c] \in Call
           /\ call[c].user \in Users /\ call[c].plan \in Plans
           /\ \/ /\ call[c].row = 0
                 /\ PaidRow(c, BlankRow(c)) \in Row
                 /\ Create(PaidRow(c, BlankRow(c)))
              \/ /\ call[c].row \in RowsOf(call[c].user)
                 /\ call[c].row \in 1..Len(subs)
                 /\ PaidRow(c, subs[call[c].row]) \in Row
                 /\ Update(call[c].row, PaidRow(c, subs[call[c].row]))
<1>1. call[c].pc = "write"
  BY DEF Write, At
<1>2. /\ call[c] \in Call /\ call[c].plan \in Plans
      /\ PaidBy(call[c].ref, call[c].user)
      /\ charges[call[c].ref].plan = call[c].plan
      /\ OwnCode(call[c].code, call[c].user)
      /\ call[c].row = 0 \/ call[c].row \in RowsOf(call[c].user)
  BY <1>1, CallTypes DEF Inv, CallOK, KeepsOK, WithPlan, Charging
<1>3. TypeOK /\ call[c].user \in Users
  BY <1>2 DEF Inv, Call
<1>4. CASE call[c].row = 0
  <2>1. PaidRow(c, BlankRow(c)) \in Row
    BY <1>2, <1>3, PaidRowOK
  <2> QED
    BY <1>1, <1>2, <1>3, <1>4, <2>1 DEF Write
<1>5. CASE call[c].row # 0
  <2>1. /\ call[c].row \in RowsOf(call[c].user)
        /\ call[c].row \in 1..Len(subs)
    BY <1>2, <1>5 DEF RowsOf
  <2>2. subs[call[c].row] \in Row
    BY <1>3, <2>1, RowIsRow
  <2>3. PaidRow(c, subs[call[c].row]) \in Row
    BY <1>2, <1>3, <2>2, PaidRowOK
  <2> QED
    BY <1>1, <1>2, <1>3, <1>5, <2>1, <2>3 DEF Write
<1> QED
  BY <1>4, <1>5

LEMMA TrialWrite ==
    ASSUME Inv, NEW c \in Callers, TrialCreate(c)
    PROVE  /\ call[c].pc = "trialCreate" /\ call[c] \in Call
           /\ call[c].user \in Users /\ call[c].plan \in Plans
           /\ \/ UNCHANGED subs
              \/ TrialRow(c) \in Row /\ Create(TrialRow(c))
<1>1. call[c].pc = "trialCreate"
  BY DEF TrialCreate, At
<1>2. call[c] \in Call
  BY <1>1, CallTypes DEF Inv
<1>3. call[c].user \in Users /\ call[c].plan \in Plans
  BY <1>1, <1>2 DEF Inv, CallOK, KeepsOK, WithPlan, Call
<1> QED
  BY <1>1, <1>2, <1>3, TrialRowOK DEF Inv, TrialCreate

(* A row that was switched off is switched on again by a new charge only:  *)
(* no late event, no stale read of another handler brings premium back.    *)
THEOREM OnlyChargesWake == Spec => OnlyChargesWakeRows
<1> DEFINE Asleep == \A i \in DOMAIN subs :
                        ~subs[i].isActive /\ subs'[i].isActive =>
                            \E c \in Callers : At(c, "write") /\ call[c].row = i
<1>1. ASSUME Inv, [Next]_vars
      PROVE  [Asleep]_vars
  <2>1. CASE UNCHANGED subs
    BY <2>1
  <2>2. ASSUME NEW c \in Callers, TrialCreate(c)
        PROVE  Asleep
    <3>1. CASE TrialRow(c) \in Row /\ Create(TrialRow(c))
      BY <1>1, <3>1, CreateMoves DEF Inv
    <3> QED
      BY <1>1, <2>1, <2>2, <3>1, TrialWrite
  <2>3. ASSUME NEW c \in Callers, Write(c)
        PROVE  Asleep
    <3>1. CASE call[c].row = 0
      <4>1. PICK row \in Row : Create(row)
        BY <1>1, <2>3, <3>1, PaidWrite DEF RowsOf
      <4> QED
        BY <1>1, <4>1, CreateMoves DEF Inv
    <3>2. CASE call[c].row # 0
      <4>1. PICK row \in Row : Update(call[c].row, row)
        BY <1>1, <2>3, <3>2, PaidWrite
      <4>2. call[c].pc = "write" /\ call[c].row \in 1..Len(subs)
        BY <1>1, <2>3, <3>2, PaidWrite
      <4> QED
        BY <1>1, <4>1, <4>2, UpdateMoves DEF Inv, At
    <3> QED
      BY <3>1, <3>2
  <2>4. ASSUME NEW c \in Callers, Writes(c), ~TrialCreate(c), ~Write(c)
        PROVE  Asleep
    <3>1. PICK r : r = call[c].row
      OBVIOUS
    <3>2. PICK row \in Row : Update(r, row) /\ Follows(subs[r], row)
      BY <1>1, <2>4, <3>1, WrittenBack
    <3>3. r \in 1..Len(subs)
      BY <1>1, <2>4, <3>1, WrittenBack
    <3> QED
      BY <1>1, <3>2, <3>3, UpdateMoves DEF Inv, Follows
  <2> QED
    BY <1>1, <2>1, <2>2, <2>3, <2>4, WhoWrites
<1> QED
  BY <1>1, Invariance, PTL DEF Spec, OnlyChargesWakeRows

---------------------------------------------------------------------------
(* Calls that run one at a time                                            *)
(*                                                                         *)
(* What a call has found out about the table still holds when it writes:   *)
(* nobody else has written in between.  SerialOK says what it has found    *)
(* out; Paystack's events may still be late, lost, repeated and reordered. *)

OneAtATime == \A c, d \in Callers : c = d

Remembers == {"trialActive", "trialCreate", "write", "renewWrite"}

SerialOK(k) ==
    /\ k.pc \in {"trialActive", "trialCreate"} =>
          PlanType[k.plan] = "TRIALING" /\ UsedTrials(k.user) = {}
    /\ k.pc = "write" =>
          IF k.row = 0 THEN RowsToPay(k.user, k.plan) = {}
                       ELSE subs[k.row].type = PlanType[k.plan]
    /\ k.pc = "renewWrite" => subs[k.row].isActive

(* startTrial asks for trialEndsAt, every trial has one.                   *)
TrialsAreDated ==
    \A i \in 1..Len(subs) : subs[i].isTrial => subs[i].trialEndsAt

SerialRows == /\ OneTrialPerUser /\ OneRowPerType
              /\ InactiveRowsAreDead /\ TrialsAreDated

SerialInv == Inv /\ SerialRows /\ \A c \in Callers : SerialOK(call[c])

LEMMA SerialOKStays ==
    ASSUME UNCHANGED subs, NEW k, SerialOK(k)
    PROVE  SerialOK(k)'
BY DEF SerialOK, UsedTrials, RowsToPay, RowsOf

LEMMA NothingToRemember ==
    ASSUME NEW k, k.pc \notin Remembers
    PROVE  SerialOK(k) /\ SerialOK(k)'
BY DEF SerialOK, Remembers

(* The new locals of the call that moves.                                  *)
LEMMA NewPC ==
    ASSUME TypeOK, NEW c \in Callers, NEW k \in Call \cup {NoCall},
           call' = [call EXCEPT ![c] = k], k.pc \notin Remembers
    PROVE  call'[c].pc \notin Remembers
BY CallMoves

LEMMA NoCallForgets == NoCall.pc \notin Remembers
BY DEF NoCall, Remembers

LEMMA FinishForgets ==
    ASSUME TypeOK, NEW c \in Callers, Finish(c)
    PROVE  call'[c].pc \notin Remembers
BY NewPC, NoCallForgets DEF Finish

LEMMA GotoForgets ==
    ASSUME TypeOK, NEW c \in Callers, call[c].pc # "idle",
           NEW pc \in CallPC, pc \notin Remembers, Goto(c, pc)
    PROVE  call'[c].pc \notin Remembers
<1>1. PICK k : k = [call[c] EXCEPT !.pc = pc]
  OBVIOUS
<1>2. call' = [call EXCEPT ![c] = k] /\ k \in Call
  BY <1>1, GoesOn
<1>3. k.pc = pc
  BY <1>1, CallTypes DEF Call
<1> QED
  BY <1>2, <1>3, NewPC

(* The steps of one call that end with nothing to remember.                *)
LEMMA WritersForget ==
    ASSUME Inv, NEW c \in Callers, Writes(c)
    PROVE  call'[c].pc \notin Remembers
<1>1. TypeOK
  BY DEF Inv
<1>2. ASSUME \/ TrialCreate(c) \/ StatusWrite(c) \/ CodeWrite(c) \/ DisableWrite(c)
      PROVE  Finish(c)
  BY <1>2 DEF TrialCreate, StatusWrite, CodeWrite, DisableWrite
<1>3. ASSUME Write(c) \/ CancelWrite(c) \/ RenewWrite(c)
      PROVE  call[c].pc # "idle" /\ (Goto(c, "pay") \/ Goto(c, "notify"))
  BY <1>3 DEF Write, CancelWrite, RenewWrite, At
<1>4. {"pay", "notify"} \subseteq CallPC \ Remembers
  BY DEF CallPC, Remembers
<1> QED
  BY <1>1, <1>2, <1>3, <1>4, FinishForgets, GotoForgets DEF Writes

(* A row that is written back keeps what the rows say about each other.    *)
LEMMA UpdateKeepsSerial ==
    ASSUME TypeOK, SerialRows, NEW r \in 1..Len(subs), NEW row \in Row,
           Update(r, row), row.userId = subs[r].userId,
           row.isTrial = subs[r].isTrial,
           row.trialEndsAt = subs[r].trialEndsAt,
           row.type = subs[r].type \/ row.type = "FREE", DeadOK(row)
    PROVE  SerialRows'
<1>1. /\ Len(subs) \in Nat /\ Len(subs') = Len(subs)
      /\ DOMAIN subs = 1..Len(subs) /\ DOMAIN subs' = 1..Len(subs)
      /\ \A i \in 1..Len(subs) : subs'[i] = IF i = r THEN row ELSE subs[i]
  BY UpdateMoves
<1>2. \A i \in 1..Len(subs) :
         /\ subs'[i].userId = subs[i].userId
         /\ subs'[i].isTrial = subs[i].isTrial
         /\ subs'[i].trialEndsAt = subs[i].trialEndsAt
         /\ subs'[i].type = subs[i].type \/ subs'[i].type = "FREE"
  BY <1>1
<1>3. OneTrialPerUser'
  BY <1>1, <1>2, Zenon DEF SerialRows, OneTrialPerUser
<1>4. OneRowPerType'
  <2> SUFFICES ASSUME NEW i \in 1..Len(subs), NEW j \in 1..Len(subs),
                      subs'[i].userId = subs'[j].userId,
                      subs'[i].type = "PREMIUM", subs'[j].type = "PREMIUM"
               PROVE  i = j
    BY <1>1 DEF OneRowPerType
  <2>1. /\ subs[i].type = "PREMIUM" /\ subs[j].type = "PREMIUM"
        /\ subs[i].userId = subs[j].userId
    BY <1>2
  <2> QED
    BY <1>1, <2>1 DEF SerialRows, OneRowPerType
<1>5. InactiveRowsAreDead'
  BY <1>1 DEF SerialRows, InactiveRowsAreDead, DeadOK
<1>6. TrialsAreDated'
  BY <1>1, <1>2, Zenon DEF SerialRows, TrialsAreDated
<1> QED
  BY <1>3, <1>4, <1>5, <1>6 DEF SerialRows

(* A new row must not be a second one of its kind.                         *)
LEMMA CreateKeepsSerial ==
    ASSUME TypeOK, SerialRows, NEW row \in Row, Create(row), DeadOK(row),
           row.isTrial => /\ row.trialEndsAt
                          /\ \A i \in RowsOf(row.userId) : ~subs[i].isTrial,
           row.type = "PREMIUM" =>
               \A i \in RowsOf(row.userId) : subs[i].type # "PREMIUM"
    PROVE  SerialRows'
<1>1. /\ Len(subs) \in Nat /\ Len(subs') = Len(subs) + 1
      /\ DOMAIN subs = 1..Len(subs) /\ DOMAIN subs' = 1..(Len(subs) + 1)
      /\ \A i \in 1..Len(subs) : subs'[i] = subs[i]
      /\ subs'[Len(subs) + 1] = row
  BY CreateMoves
<1>2. PICK n : n = Len(subs) + 1
  OBVIOUS
<1>3. /\ DOMAIN subs' = 1..n /\ subs'[n] = row
      /\ \A i \in 1..n : i = n \/ i \in 1..Len(subs)
  BY <1>1, <1>2
<1>4. OneTrialPerUser'
  <2> SUFFICES ASSUME NEW i \in 1..n, NEW j \in 1..n,
                      subs'[i].userId = subs'[j].userId,
                      subs'[i].isTrial, subs'[j].isTrial
               PROVE  i = j
    BY <1>3 DEF OneTrialPerUser
  <2> QED
    BY <1>1, <1>3 DEF SerialRows, OneTrialPerUser, RowsOf
<1>5. OneRowPerType'
  <2> SUFFICES ASSUME NEW i \in 1..n, NEW j \in 1..n,
                      subs'[i].userId = subs'[j].userId,
                      subs'[i].type = "PREMIUM", subs'[j].type = "PREMIUM"
               PROVE  i = j
    BY <1>3 DEF OneRowPerType
  <2> QED
    BY <1>1, <1>3 DEF SerialRows, OneRowPerType, RowsOf
<1>6. InactiveRowsAreDead'
  BY <1>1, <1>3 DEF SerialRows, InactiveRowsAreDead, DeadOK
<1>7. TrialsAreDated'
  BY <1>1, <1>2, <1>3 DEF SerialRows, TrialsAreDated
<1> QED
  BY <1>4, <1>5, <1>6, <1>7 DEF SerialRows

LEMMA TrialRowSays ==
    ASSUME NEW c \in Callers
    PROVE  /\ TrialRow(c).userId = call[c].user /\ TrialRow(c).isTrial = TRUE
           /\ TrialRow(c).type = PlanType[call[c].plan]
           /\ TrialRow(c).trialEndsAt = TRUE /\ DeadOK(TrialRow(c))
BY DEF TrialRow, DeadOK

LEMMA PaidRowSays ==
    ASSUME NEW c \in Callers, NEW old \in Row
    PROVE  LET new == PaidRow(c, old) IN
           /\ new.userId = call[c].user /\ new.type = PlanType[call[c].plan]
           /\ new.isTrial = old.isTrial /\ new.trialEndsAt = old.trialEndsAt
           /\ DeadOK(new)
BY DEF PaidRow, Row, DeadOK

LEMMA NewPaidRowSays ==
    ASSUME NEW c \in Callers
    PROVE  LET new == PaidRow(c, BlankRow(c)) IN
           /\ new.userId = call[c].user /\ new.type = PlanType[call[c].plan]
           /\ new.isTrial = FALSE /\ DeadOK(new)
BY DEF PaidRow, BlankRow, TrialRow, DeadOK

LEMMA WritesKeepSerial ==
    ASSUME SerialInv, NEW c \in Callers, Writes(c)
    PROVE  SerialRows'
<1>1. Inv /\ TypeOK /\ SerialRows /\ SerialOK(call[c])
  BY DEF SerialInv, Inv
<1>2. CASE TrialCreate(c)
  <2>1. CASE UNCHANGED subs
    BY <1>1, <2>1 DEF SerialRows, OneTrialPerUser, OneRowPerType,
                      InactiveRowsAreDead, TrialsAreDated
  <2>2. CASE TrialRow(c) \in Row /\ Create(TrialRow(c))
    <3>1. PICK row \in Row : row = TrialRow(c)
      BY <2>2
    <3>2. /\ PlanType[call[c].plan] = "TRIALING"
          /\ UsedTrials(call[c].user) = {}
      BY <1>1, <1>2, TrialWrite DEF SerialOK
    <3>3. \A i \in RowsOf(call[c].user) : ~subs[i].isTrial
      BY <1>1, <3>2 DEF UsedTrials, SerialRows, TrialsAreDated, RowsOf
    <3>4. /\ row.userId = call[c].user /\ row.type = "TRIALING"
          /\ row.trialEndsAt /\ DeadOK(row)
      BY <3>1, <3>2, TrialRowSays
    <3> QED
      BY <1>1, <2>2, <3>1, <3>3, <3>4, CreateKeepsSerial
  <2> QED
    BY <1>1, <1>2, <2>1, <2>2, TrialWrite
<1>3. CASE Write(c)
  <2>1. call[c].pc = "write"
    BY <1>1, <1>3, PaidWrite
  <2>2. CASE call[c].row = 0
    <3>1. PICK row \in Row : row = PaidRow(c, BlankRow(c)) /\ Create(row)
      BY <1>1, <1>3, <2>2, PaidWrite DEF RowsOf
    <3>2. RowsToPay(call[c].user, call[c].plan) = {}
      BY <1>1, <2>1, <2>2 DEF SerialOK
    <3>3. /\ row.userId = call[c].user /\ row.type = PlanType[call[c].plan]
          /\ ~row.isTrial /\ DeadOK(row)
      BY <3>1, NewPaidRowSays
    <3>4. \A i \in RowsOf(row.userId) : subs[i].type # row.type
      BY <3>2, <3>3 DEF RowsToPay
    <3> QED
      BY <1>1, <3>1, <3>3, <3>4, CreateKeepsSerial
  <2>3. CASE call[c].row # 0
    <3>1. PICK r : r = call[c].row
      OBVIOUS
    <3>2. r \in 1..Len(subs) /\ subs[r].userId = call[c].user
      BY <1>1, <1>3, <2>3, <3>1, PaidWrite DEF RowsOf
    <3>3. PICK row \in Row : row = PaidRow(c, subs[r]) /\ Update(r, row)
      BY <1>1, <1>3, <2>3, <3>1, PaidWrite
    <3>4. subs[r].type = PlanType[call[c].plan] /\ subs[r] \in Row
      BY <1>1, <2>1, <2>3, <3>1, <3>2, RowIsRow DEF SerialOK
    <3> QED
      BY <1>1, <3>2, <3>3, <3>4, PaidRowSays, UpdateKeepsSerial
  <2> QED
    BY <2>2, <2>3
<1>4. CASE ~TrialCreate(c) /\ ~Write(c)
  <2>1. PICK r : r = call[c].row
    OBVIOUS
  <2>2. r \in 1..Len(subs)
    BY <1>1, <1>4, <2>1, WrittenBack
  <2>3. DeadOK(subs[r])
    BY <1>1, <2>2, UpdateMoves, SubsDomain
       DEF SerialRows, InactiveRowsAreDead, DeadOK
  <2>4. call[c].pc = "renewWrite" => subs[r].isActive
    BY <1>1, <2>1 DEF SerialOK
  <2>5. PICK row \in Row :
           Update(r, row) /\ Follows(subs[r], row) /\ DeadOK(row)
    BY <1>1, <1>4, <2>1, <2>3, <2>4, WrittenBack
  <2> QED
    BY <1>1, <2>2, <2>5, UpdateKeepsSerial DEF Follows
<1> QED
  BY <1>2, <1>3, <1>4

(* What a step that only reads the table leaves a call with.               *)
Recalls(c) == call'[c] = call[c] \/ SerialOK(call'[c])

LEMMA ForgettingRecalls ==
    ASSUME NEW c, call'[c].pc \notin Remembers
    PROVE  Recalls(c)
BY NothingToRemember DEF Recalls

LEMMA BeginsForgets ==
    ASSUME TypeOK, NEW c \in Callers, NEW k, k.pc \notin Remembers,
           Begins(c, k)
    PROVE  Recalls(c)
<1>1. call'[c] = k
  BY DEF Begins, TypeOK
<1> QED
  BY <1>1, ForgettingRecalls

LEMMA StartTrialRecalls ==
    ASSUME TypeOK, NEW c \in Callers, NEW u \in Users, NEW p \in Plans,
           StartTrial(c, u, p)
    PROVE  Recalls(c)
<1>1. PICK k : k = [NewCall("trialActive", u) EXCEPT !.plan = p]
  OBVIOUS
<1>2. k.pc = "trialActive" /\ k.user = u /\ k.plan = p
  BY <1>1 DEF NewCall
<1>3. call'[c] = k
  BY <1>1 DEF StartTrial, Begins, TypeOK
<1>4. SerialOK(k)
  BY <1>2 DEF SerialOK, StartTrial
<1> QED
  BY <1>3, <1>4 DEF Recalls

LEMMA ReadersForget ==
    ASSUME TypeOK, NEW c \in Callers, NEW u \in Users, NEW p,
           Status(c, u) \/ Cancel(c, u) \/ ChargeCard(c, u, p)
    PROVE  Recalls(c)
<1>1. CASE Status(c, u)
  <2>1. PICK r : Begins(c, [NewCall("statusWrite", u) EXCEPT !.row = r])
    BY <1>1 DEF Status
  <2>2. [NewCall("statusWrite", u) EXCEPT !.row = r].pc = "statusWrite"
    BY DEF NewCall
  <2> QED
    BY <2>1, <2>2, BeginsForgets DEF Remembers
<1>2. CASE Cancel(c, u)
  <2>1. PICK r : Begins(c, [NewCall("disable", u) EXCEPT
                               !.row = r, !.code = subs[r].paystackSubId,
                               !.says = "CANCELLED"])
    BY <1>2 DEF Cancel
  <2>2. [NewCall("disable", u) EXCEPT
           !.row = r, !.code = subs[r].paystackSubId,
           !.says = "CANCELLED"].pc = "disable"
    BY DEF NewCall
  <2> QED
    BY <2>1, <2>2, BeginsForgets DEF Remembers
<1>3. CASE ChargeCard(c, u, p)
  <2>1. Begins(c, [NewCall("chargeRow", u) EXCEPT
                      !.email = email[u], !.plan = p])
    BY <1>3 DEF ChargeCard
  <2>2. [NewCall("chargeRow", u) EXCEPT
           !.email = email[u], !.plan = p].pc = "chargeRow"
    BY DEF NewCall
  <2> QED
    BY <2>1, <2>2, BeginsForgets DEF Remembers
<1> QED
  BY <1>1, <1>2, <1>3

LEMMA OtpForgets ==
    ASSUME TypeOK, NEW c \in Callers, NEW ref \in Refs, SubmitOtp(c, ref)
    PROVE  Recalls(c)
<1>1. PICK u, p : u = charges[ref].user /\ p = charges[ref].plan
  OBVIOUS
<1>2. PICK k : k = [NewCall("verify", u) EXCEPT !.plan = p, !.ref = ref]
  OBVIOUS
<1>3. k.pc = "verify"
  BY <1>2 DEF NewCall
<1>4. Begins(c, k) \/ UNCHANGED call
  BY <1>1, <1>2 DEF SubmitOtp
<1> QED
  BY <1>3, <1>4, BeginsForgets DEF Remembers, Recalls

LEMMA EventsForget ==
    ASSUME TypeOK, NEW c \in Callers, NEW h \in hooks,
           \/ HandleSubscriptionCreate(c, h)
           \/ HandleChargeSuccess(c, h)
           \/ HandleSubscriptionDisable(c, h)
    PROVE  Recalls(c)
<1>1. CASE Ignores(c)
  BY <1>1 DEF Ignores, Recalls
<1>2. CASE ~Ignores(c)
  <2>1. CASE HandleSubscriptionCreate(c, h)
    <3>1. PICK u : Begins(c, [NewCall("createRow", u) EXCEPT !.code = h.code])
      BY <1>2, <2>1 DEF HandleSubscriptionCreate
    <3>2. [NewCall("createRow", u) EXCEPT !.code = h.code].pc = "createRow"
      BY DEF NewCall
    <3> QED
      BY <3>1, <3>2, BeginsForgets DEF Remembers
  <2>2. CASE HandleChargeSuccess(c, h)
    <3>1. PICK u : Begins(c, [NewCall("successRow", u) EXCEPT
                                 !.ref = h.ref, !.says = "RENEWED"])
      BY <1>2, <2>2 DEF HandleChargeSuccess
    <3>2. [NewCall("successRow", u) EXCEPT
             !.ref = h.ref, !.says = "RENEWED"].pc = "successRow"
      BY DEF NewCall
    <3> QED
      BY <3>1, <3>2, BeginsForgets DEF Remembers
  <2>3. CASE HandleSubscriptionDisable(c, h)
    <3>1. PICK r, u : Begins(c, [NewCall("disableWrite", u) EXCEPT !.row = r])
      BY <1>2, <2>3 DEF HandleSubscriptionDisable
    <3>2. [NewCall("disableWrite", u) EXCEPT !.row = r].pc = "disableWrite"
      BY DEF NewCall
    <3> QED
      BY <3>1, <3>2, BeginsForgets DEF Remembers
  <2> QED
    BY <2>1, <2>2, <2>3
<1> QED
  BY <1>1, <1>2

(* A renewal found its row active.                                         *)
LEMMA SuccessRowRecalls ==
    ASSUME TypeOK, NEW c \in Callers, SuccessRow(c)
    PROVE  Recalls(c)
<1>1. call[c].pc = "successRow" /\ call[c] \in Call
  BY CallTypes DEF SuccessRow, At
<1>2. CASE Finish(c)
  BY <1>2, FinishForgets, ForgettingRecalls
<1>3. CASE ~Finish(c)
  <2>1. PICK r \in ActiveRows(call[c].user) :
           call' = [call EXCEPT ![c].pc = "renewWrite", ![c].row = r,
                                ![c].day = PeriodEnd(subs[r].planId)]
    BY <1>3 DEF SuccessRow, FindFirst
  <2>2. PICK k : k = [call[c] EXCEPT !.pc = "renewWrite", !.row = r,
                                     !.day = PeriodEnd(subs[r].planId)]
    OBVIOUS
  <2>3. call'[c] = k
    BY <2>1, <2>2 DEF TypeOK
  <2>4. k.pc = "renewWrite" /\ k.row = r
    BY <1>1, <2>2 DEF Call
  <2>5. subs[r].isActive
    BY DEF ActiveRows
  <2> QED
    BY <2>3, <2>4, <2>5 DEF Recalls, SerialOK
<1> QED
  BY <1>2, <1>3

LEMMA TrialActiveRecalls ==
    ASSUME TypeOK, NEW c \in Callers, SerialOK(call[c]), TrialActive(c)
    PROVE  Recalls(c)
<1>1. call[c].pc = "trialActive" /\ call[c] \in Call
  BY CallTypes DEF TrialActive, At
<1>2. CASE Finish(c)
  BY <1>2, FinishForgets, ForgettingRecalls
<1>3. CASE ~Finish(c)
  <2>1. PICK r \in FindFirst(ActiveRows(call[c].user)) :
           call' = [call EXCEPT ![c].pc = "trialCreate", ![c].row = r]
    BY <1>3 DEF TrialActive
  <2>2. PICK k : k = [call[c] EXCEPT !.pc = "trialCreate", !.row = r]
    OBVIOUS
  <2>3. call'[c] = k
    BY <2>1, <2>2 DEF TypeOK
  <2>4. k.pc = "trialCreate" /\ k.user = call[c].user /\ k.plan = call[c].plan
    BY <1>1, <2>2 DEF Call
  <2> QED
    BY <1>1, <2>3, <2>4 DEF Recalls, SerialOK
<1> QED
  BY <1>2, <1>3

LEMMA FindRecalls ==
    ASSUME TypeOK, NEW c \in Callers, Find(c)
    PROVE  Recalls(c)
<1>1. call[c].pc = "find" /\ call[c] \in Call
  BY CallTypes DEF Find, At
<1>2. PICK r \in FindFirst(RowsToPay(call[c].user, call[c].plan)) :
         call' = [call EXCEPT ![c].pc = "write", ![c].row = r]
  BY DEF Find
<1>3. PICK k : k = [call[c] EXCEPT !.pc = "write", !.row = r]
  OBVIOUS
<1>4. call'[c] = k
  BY <1>2, <1>3 DEF TypeOK
<1>5. /\ k.pc = "write" /\ k.user = call[c].user
      /\ k.plan = call[c].plan /\ k.row = r
  BY <1>1, <1>3 DEF Call
<1>6. IF r = 0 THEN RowsToPay(call[c].user, call[c].plan) = {}
               ELSE subs[r].type = PlanType[call[c].plan]
  BY <1>2 DEF FindFirst, RowsToPay, RowsOf
<1> QED
  BY <1>4, <1>5, <1>6 DEF Recalls, SerialOK

(* The steps in the middle of a payment or a cancellation.                 *)
LEMMA MiddlesForget ==
    ASSUME TypeOK, NEW c \in Callers,
           \/ ChargeRow(c) \/ Charged(c) \/ Verify(c) \/ Subscribe(c)
           \/ Pay(c) \/ Notify(c) \/ Disable(c) \/ CreateRow(c) \/ Crash(c)
    PROVE  Recalls(c)
<1>1. CASE Charged(c)
  <2>1. call[c] \in Call
    BY <1>1, CallTypes DEF Charged, At
  <2>2. CASE Finish(c)
    BY <2>2, FinishForgets, ForgettingRecalls
  <2>3. CASE ~Finish(c)
    <3>1. PICK ref, day : call' = [call EXCEPT ![c].pc = "subscribe",
                                               ![c].ref = ref, ![c].day = day]
      BY <1>1, <2>3 DEF Charged
    <3>2. call'[c] = [call[c] EXCEPT !.pc = "subscribe", !.ref = ref, !.day = day]
      BY <3>1 DEF TypeOK
    <3>3. call'[c].pc = "subscribe"
      BY <2>1, <3>2 DEF Call
    <3> QED
      BY <3>3, ForgettingRecalls DEF Remembers
  <2> QED
    BY <2>2, <2>3
<1>2. CASE Verify(c)
  <2>1. call[c] \in Call
    BY <1>2, CallTypes DEF Verify, At
  <2>2. PICK day : call' = [call EXCEPT ![c].pc = "subscribe", ![c].day = day]
    BY <1>2 DEF Verify
  <2>3. call'[c] = [call[c] EXCEPT !.pc = "subscribe", !.day = day]
    BY <2>2 DEF TypeOK
  <2>4. call'[c].pc = "subscribe"
    BY <2>1, <2>3 DEF Call
  <2> QED
    BY <2>4, ForgettingRecalls DEF Remembers
<1>3. CASE Subscribe(c)
  <2>1. call[c] \in Call
    BY <1>3, CallTypes DEF Subscribe, At
  <2>2. PICK code : call' = [call EXCEPT ![c].pc = "find", ![c].code = code]
    BY <1>3 DEF Subscribe
  <2>3. call'[c] = [call[c] EXCEPT !.pc = "find", !.code = code]
    BY <2>2 DEF TypeOK
  <2>4. call'[c].pc = "find"
    BY <2>1, <2>3 DEF Call
  <2> QED
    BY <2>4, ForgettingRecalls DEF Remembers
<1>7. CASE CreateRow(c)
  <2>1. call[c] \in Call
    BY <1>7, CallTypes DEF CreateRow, At
  <2>2. CASE Finish(c)
    BY <2>2, FinishForgets, ForgettingRecalls
  <2>3. CASE ~Finish(c)
    <3>1. PICK r : call' = [call EXCEPT ![c].pc = "codeWrite", ![c].row = r]
      BY <1>7, <2>3 DEF CreateRow, Chooses
    <3>2. call'[c] = [call[c] EXCEPT !.pc = "codeWrite", !.row = r]
      BY <3>1 DEF TypeOK
    <3>3. call'[c].pc = "codeWrite"
      BY <2>1, <3>2 DEF Call
    <3> QED
      BY <3>3, ForgettingRecalls DEF Remembers
  <2> QED
    BY <2>2, <2>3
<1>4. ASSUME Pay(c) \/ Disable(c) \/ ChargeRow(c)
      PROVE  /\ call[c].pc # "idle"
             /\ \/ Goto(c, "notify") \/ Goto(c, "cancelWrite")
                \/ Goto(c, "charge") \/ Finish(c)
  BY <1>4 DEF Pay, Disable, ChargeRow, At
<1>5. ASSUME Notify(c) \/ Crash(c) PROVE Finish(c)
  BY <1>5 DEF Notify, Crash
<1>6. {"notify", "cancelWrite", "charge"} \subseteq CallPC \ Remembers
  BY DEF CallPC, Remembers
<1> QED
  BY <1>1, <1>2, <1>3, <1>4, <1>5, <1>6, <1>7,
     FinishForgets, GotoForgets, ForgettingRecalls

(* Every step of the only call there is.                                   *)
LEMMA StepsRecall ==
    ASSUME SerialInv, NEW c \in Callers, OneAtATime, [Next]_vars
    PROVE  Recalls(c)
<1>1. TypeOK /\ Inv /\ SerialOK(call[c])
  BY DEF SerialInv, Inv
<1>2. CASE UNCHANGED call
  BY <1>2 DEF Recalls
<1>3. ASSUME NEW u \in Users, Status(c, u) \/ Cancel(c, u)
      PROVE  Recalls(c)
  BY <1>1, <1>3, ReadersForget
<1>4. ASSUME NEW u \in Users, NEW p \in Plans,
             StartTrial(c, u, p) \/ ChargeCard(c, u, p)
      PROVE  Recalls(c)
  BY <1>1, <1>4, StartTrialRecalls, ReadersForget
<1>5. ASSUME NEW ref \in Refs, SubmitOtp(c, ref)
      PROVE  Recalls(c)
  BY <1>1, <1>5, OtpForgets
<1>6. ASSUME NEW h \in hooks,
             \/ HandleSubscriptionCreate(c, h)
             \/ HandleChargeSuccess(c, h)
             \/ HandleSubscriptionDisable(c, h)
      PROVE  Recalls(c)
  BY <1>1, <1>6, EventsForget
<1>7. ASSUME PsStep(c) \/ Crash(c)
      PROVE  Recalls(c)
  BY <1>1, <1>7, TrialActiveRecalls, FindRecalls, SuccessRowRecalls,
     MiddlesForget, WritersForget, ForgettingRecalls DEF PsStep, Writes
<1>8. ASSUME \/ Tick \/ UNCHANGED vars \/ (\E p \in Plans : CreatePlan(p))
             \/ (\E k \in remote : RemoteRenews(k))
             \/ (\E h \in hooks : LoseHook(h))
             \/ (\E u \in Users, a \in Addresses : MoveAddress(u, a))
      PROVE  UNCHANGED call
  BY <1>8 DEF Tick, vars, psVars, CreatePlan, RemoteRenews, LoseHook,
              MoveAddress
<1> QED
  BY <1>2, <1>3, <1>4, <1>5, <1>6, <1>7, <1>8 DEF Next, PsNext, OneAtATime

LEMMA SerialInit == Init => SerialInv
<1> SUFFICES ASSUME Init PROVE SerialInv
  OBVIOUS
<1>1. subs = <<>> /\ Len(subs) = 0 /\ DOMAIN subs = {}
  BY DEF Init, TableInit
<1>2. SerialRows
  BY <1>1 DEF SerialRows, OneTrialPerUser, OneRowPerType,
              InactiveRowsAreDead, TrialsAreDated
<1>3. \A c \in Callers : SerialOK(call[c])
  BY NoCallForgets, NothingToRemember DEF Init, PsInit
<1> QED
  BY <1>2, <1>3, InvInit DEF SerialInv

LEMMA SerialNext ==
    ASSUME OneAtATime
    PROVE  SerialInv /\ [Next]_vars => SerialInv'
<1> SUFFICES ASSUME SerialInv, [Next]_vars PROVE SerialInv'
  OBVIOUS
<1>1. Inv'
  BY InvNext DEF SerialInv
<1>2. SerialRows'
  <2>1. CASE UNCHANGED subs
    BY <2>1 DEF SerialInv, SerialRows, OneTrialPerUser, OneRowPerType,
                InactiveRowsAreDead, TrialsAreDated
  <2> QED
    BY <2>1, WhoWrites, WritesKeepSerial
<1>3. ASSUME NEW c \in Callers
      PROVE  SerialOK(call[c])'
  <2>1. CASE UNCHANGED subs
    <3>1. PICK k : k = call'[c]
      OBVIOUS
    <3>2. SerialOK(k)
      BY <3>1, StepsRecall DEF Recalls, SerialInv
    <3>3. SerialOK(k)'
      BY <2>1, <3>2, SerialOKStays
    <3> QED
      BY <3>1, <3>3 DEF SerialOK
  <2>2. CASE Writes(c)
    <3>1. PICK k : k = call'[c]
      OBVIOUS
    <3>2. SerialOK(k)'
      BY <2>2, <3>1, WritersForget, NothingToRemember DEF SerialInv
    <3> QED
      BY <3>1, <3>2 DEF SerialOK
  <2> QED
    BY <2>1, <2>2, WhoWrites DEF OneAtATime
<1> QED
  BY <1>1, <1>2, <1>3 DEF SerialInv

(* Where calls run one at a time a user has at most one row of a trial,    *)
(* whatever Paystack's events do in between: "Check if user has ever used  *)
(* a trial" finds every trial there is.                                    *)
THEOREM TrialsAreGivenOnce ==
    ASSUME OneAtATime
    PROVE  Spec => []OneTrialPerUser
<1>1. SerialInv => OneTrialPerUser
  BY DEF SerialInv, SerialRows
<1> QED
  BY <1>1, SerialInit, SerialNext, PTL DEF Spec

(* Where calls run one at a time a user has one PREMIUM row: to cancel and *)
(* to pay again reuses it.                                                 *)
THEOREM PremiumRowsAreReused ==
    ASSUME OneAtATime
    PROVE  Spec => []OneRowPerType
<1>1. SerialInv => OneRowPerType
  BY DEF SerialInv, SerialRows
<1> QED
  BY <1>1, SerialInit, SerialNext, PTL DEF Spec

(* Where calls run one at a time a row without premium carries a status    *)
(* that says so: no renewal is written over a row that was cancelled.      *)
THEOREM InactiveRowsStayDead ==
    ASSUME OneAtATime
    PROVE  Spec => []InactiveRowsAreDead
<1>1. SerialInv => InactiveRowsAreDead
  BY DEF SerialInv, SerialRows
<1> QED
  BY <1>1, SerialInit, SerialNext, PTL DEF Spec
=============================================================================
