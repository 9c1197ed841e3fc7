---------------------------- MODULE BillingProofs ----------------------------
(***************************************************************************)
(* Safety of the two services and the readers on one table, for any number *)
(* of users, plans, requests and charges, any number of handlers, calls    *)
(* and readers in flight, and any bounds.                                  *)
(*                                                                         *)
(* A theorem about an instantiated module speaks of that module's own      *)
(* specification, in which nobody else writes the table.  The parts        *)
(* prefixed Store and Card therefore repeat, over this module's variables, *)
(* the arguments of RevenueCatProofs and SubscriptionServiceProofs, less   *)
(* what is only so of a service by itself: that an active row was paid for *)
(* by card, and that a payment was a charge.  The third part is new: what  *)
(* a handler of one service relies on survives the steps of the other and  *)
(* of /auth/me (StoreSurvives, CardsSurvive), because rows are never taken *)
(* from their owner (CardOwnersStay), a paid charge stays as it is         *)
(* (CardPaidStays) and only card handlers write codes.                     *)
(*                                                                         *)
(* GiftOK follows a gift to its payment row: it goes to a user its request *)
(* names.                                                                  *)
(***************************************************************************)
EXTENDS Billing, SequenceTheorems, TLAPS

StoreUserOps == {"give", "take", "end"}

(* A purchase is given only behind the task that finds the plan.           *)
StorePlanFirst(todo) ==
    \A i \in 1..Len(todo) :
        todo[i].op = "give" => \E k \in 1..(i - 1) : todo[k].op = "plan"

StoreJobOK(w) ==
    /\ job[w].pc # "idle" => job[w].req \in delivered
    /\ job[w].plan \in Plans \/ StorePlanFirst(job[w].todo)
    /\ job[w].pc \in {"write", "link", "pay", "notify"} =>
          /\ job[w].todo # <<>>
          /\ Head(job[w].todo).op \in StoreUserOps
          /\ RC!TaskUser(w) \in Users
          /\ \/ job[w].row \in RC!RowsOf(RC!TaskUser(w))
             \/ /\ job[w].pc = "write"
                /\ Head(job[w].todo).op = "give"
                /\ job[w].row = 0

StoreTableInv == RC!ActiveRowsAreLive /\ RC!LinkedToOwnRow /\ RC!NoMoneyWithoutSubscription

StoreInv == RC!TypeOK /\ StoreTableInv /\ \A w \in Workers : StoreJobOK(w)

---------------------------------------------------------------------------
(* The tasks of a request *)

LEMMA StoreEachTypes ==
    ASSUME NEW op \in StoreUserOps, NEW ids \in Seq(RC!Ids)
    PROVE  /\ RC!Each(op, ids) \in Seq(RC!Task)
           /\ Len(RC!Each(op, ids)) = Len(ids)
           /\ \A i \in 1..Len(ids) : RC!Each(op, ids)[i].op = op
<1>1. DOMAIN ids = 1..Len(ids) /\ Len(ids) \in Nat
  BY LenProperties
<1>2. \A i \in 1..Len(ids) : ids[i] \in RC!Ids
  BY ElementOfSeq
<1>3. \A i \in 1..Len(ids) : [op |-> op, user |-> ids[i]] \in RC!Task
  BY <1>2 DEF RC!Task, StoreUserOps
<1>4. RC!Each(op, ids) \in [1..Len(ids) -> RC!Task]
  BY <1>1, <1>3 DEF RC!Each
<1> QED
  BY <1>1, <1>4, IsASeq, LenProperties DEF RC!Each

LEMMA StoreFindPlanTypes ==
    /\ RC!FindPlan \in Seq(RC!Task)
    /\ Len(RC!FindPlan) = 1
    /\ RC!FindPlan[1].op = "plan"
BY DEF RC!FindPlan, RC!Task

(* Nothing is given in front of the plan, whatever follows it.             *)
LEMMA StorePlanThenAnything ==
    ASSUME NEW s \in Seq(RC!Task)
    PROVE  RC!FindPlan \o s \in Seq(RC!Task) /\ StorePlanFirst(RC!FindPlan \o s)
<1> DEFINE t == RC!FindPlan \o s
<1>1. /\ t \in Seq(RC!Task)
      /\ Len(t) = 1 + Len(s)
      /\ t[1] = RC!FindPlan[1]
  BY StoreFindPlanTypes, ConcatProperties, LenProperties
<1>2. t[1].op = "plan"
  BY <1>1, StoreFindPlanTypes
<1>3. ASSUME NEW i \in 1..Len(t), t[i].op = "give"
      PROVE  \E k \in 1..(i - 1) : t[k].op = "plan"
  <2>1. i # 1
    BY <1>2, <1>3
  <2> QED
    BY <1>1, <1>2, <2>1, LenProperties
<1> QED
  BY <1>1, <1>3 DEF StorePlanFirst

LEMMA StoreTransferTasksTypes ==
    ASSUME NEW e \in RC!Request
    PROVE  RC!TransferTasks(e) \in Seq(RC!Task) /\ StorePlanFirst(RC!TransferTasks(e))
<1> DEFINE takes == RC!Each("take", e.from)
           gives == RC!Each("give", RC!TransferTargets(e))
           t == takes \o RC!FindPlan \o gives
<1>1. e.from \in Seq(RC!Ids) /\ e.to \in Seq(RC!Ids) /\ e.ids \in Seq(RC!Ids)
  BY DEF RC!Request
<1>2. RC!TransferTargets(e) \in Seq(RC!Ids)
  BY <1>1 DEF RC!TransferTargets
<1>3. /\ takes \in Seq(RC!Task)
      /\ Len(takes) \in Nat
      /\ \A i \in 1..Len(takes) : takes[i].op = "take"
  BY <1>1, StoreEachTypes, LenProperties DEF StoreUserOps
<1>4. gives \in Seq(RC!Task)
  BY <1>2, StoreEachTypes DEF StoreUserOps
<1> HIDE DEF takes, gives
<1>5. /\ takes \o RC!FindPlan \in Seq(RC!Task)
      /\ Len(takes \o RC!FindPlan) = Len(takes) + 1
      /\ \A i \in 1..Len(takes) : (takes \o RC!FindPlan)[i] = takes[i]
      /\ (takes \o RC!FindPlan)[Len(takes) + 1] = RC!FindPlan[1]
  <2>1. /\ takes \o RC!FindPlan \in Seq(RC!Task)
        /\ Len(takes \o RC!FindPlan) = Len(takes) + Len(RC!FindPlan)
        /\ \A i \in 1..(Len(takes) + Len(RC!FindPlan)) :
              (takes \o RC!FindPlan)[i] = IF i <= Len(takes) THEN takes[i]
                                       ELSE RC!FindPlan[i - Len(takes)]
    BY <1>3, StoreFindPlanTypes, ConcatProperties
  <2>2. (takes \o RC!FindPlan)[Len(takes) + 1] = RC!FindPlan[1]
    <3>1. Len(takes) + 1 \in 1..(Len(takes) + Len(RC!FindPlan))
      BY <1>3, StoreFindPlanTypes
    <3>2. ~(Len(takes) + 1 <= Len(takes)) /\ Len(takes) + 1 - Len(takes) = 1
      BY <1>3
    <3> QED
      BY <2>1, <3>1, <3>2
  <2> QED
    BY <1>3, <2>1, <2>2, StoreFindPlanTypes
<1>6. /\ t \in Seq(RC!Task)
      /\ \A i \in 1..Len(takes) : t[i] = takes[i]
      /\ t[Len(takes) + 1] = RC!FindPlan[1]
      /\ Len(t) \in Nat
  BY <1>3, <1>4, <1>5, ConcatProperties, LenProperties
<1>7. ASSUME NEW i \in 1..Len(t), t[i].op = "give"
      PROVE  \E k \in 1..(i - 1) : t[k].op = "plan"
  <2>1. i > Len(takes) + 1
    BY <1>3, <1>6, <1>7, StoreFindPlanTypes
  <2> QED
    BY <1>3, <1>6, <2>1, StoreFindPlanTypes
<1> QED
  BY <1>6, <1>7 DEF StorePlanFirst, RC!TransferTasks, takes, gives

LEMMA StoreTaskListsTypes ==
    ASSUME NEW e \in RC!Request, NEW tasks \in RC!TaskLists(e)
    PROVE  tasks \in Seq(RC!Task) /\ StorePlanFirst(tasks)
<1>1. <<>> \in Seq(RC!Task) /\ StorePlanFirst(<<>>)
  BY EmptySeq DEF StorePlanFirst
<1>2. ASSUME NEW u \in RC!ResolvedUsers(e)
      PROVE  RC!UserTasks(e, u) \in Seq(RC!Task) /\ StorePlanFirst(RC!UserTasks(e, u))
  <2>1. u \in RC!Ids
    BY <1>2 DEF RC!ResolvedUsers, RC!Ids
  <2>2. <<u>> \in Seq(RC!Ids)
    BY <2>1
  <2>3. \A op \in StoreUserOps : /\ RC!FindPlan \o RC!Each(op, <<u>>) \in Seq(RC!Task)
                            /\ StorePlanFirst(RC!FindPlan \o RC!Each(op, <<u>>))
    BY <2>2, StoreEachTypes, StorePlanThenAnything
  <2>4. RC!FindPlan \in Seq(RC!Task) /\ StorePlanFirst(RC!FindPlan)
    BY StoreFindPlanTypes DEF StorePlanFirst
  <2> QED
    BY <2>3, <2>4 DEF RC!UserTasks, StoreUserOps
<1> QED
  BY <1>1, <1>2, StoreTransferTasksTypes DEF RC!TaskLists

(* Only the plan's own task may lead to a purchase being next.             *)
LEMMA StorePlanFirstTail ==
    ASSUME NEW s \in Seq(RC!Task), s # <<>>, StorePlanFirst(s),
           Head(s).op # "plan"
    PROVE  StorePlanFirst(Tail(s))
<1>1. /\ Len(s) \in Nat /\ Len(s) > 0
      /\ Len(Tail(s)) = Len(s) - 1
      /\ \A i \in 1..Len(Tail(s)) : Tail(s)[i] = s[i + 1]
      /\ Head(s) = s[1]
  BY HeadTailProperties, LenProperties, EmptySeq
<1>2. ASSUME NEW i \in 1..Len(Tail(s)), Tail(s)[i].op = "give"
      PROVE  \E k \in 1..(i - 1) : Tail(s)[k].op = "plan"
  <2>1. PICK k \in 1..i : s[k].op = "plan"
    BY <1>1, <1>2 DEF StorePlanFirst
  <2>2. k # 1
    BY <1>1, <2>1
  <2>3. k - 1 \in 1..(i - 1) /\ Tail(s)[k - 1] = s[k]
    BY <1>1, <2>1, <2>2
  <2> QED
    BY <2>1, <2>3
<1> QED
  BY <1>2 DEF StorePlanFirst

---------------------------------------------------------------------------
(* Moving one handler *)

LEMMA StoreStepTypes ==
    ASSUME RC!TypeOK, NEW w \in Workers, NEW pc \in RC!PCs, NEW r \in Nat,
           RC!StepWithRow(w, pc, r) \/ (r = job[w].row /\ RC!Step(w, pc))
    PROVE  /\ job' \in [Workers -> RC!Job]
           /\ \A v \in Workers \ {w} : job'[v] = job[v]
           /\ job'[w].pc = pc /\ job'[w].row = r
           /\ job'[w].req = job[w].req
           /\ job'[w].todo = job[w].todo
           /\ job'[w].plan = job[w].plan
<1>1. job \in [Workers -> RC!Job] /\ job[w] \in RC!Job
  BY DEF RC!TypeOK
<1>2. CASE RC!StepWithRow(w, pc, r)
  <2>1. job' = [job EXCEPT ![w] = [job[w] EXCEPT !.pc = pc, !.row = r]]
    BY <1>1, <1>2, Zenon DEF RC!StepWithRow
  <2>2. [job[w] EXCEPT !.pc = pc, !.row = r] \in RC!Job
    BY <1>1 DEF RC!Job
  <2> QED
    BY <1>1, <2>1, <2>2 DEF RC!Job
<1>3. CASE r = job[w].row /\ RC!Step(w, pc)
  <2>1. [job[w] EXCEPT !.pc = pc] \in RC!Job
    BY <1>1 DEF RC!Job
  <2> QED
    BY <1>1, <1>3, <2>1 DEF RC!Job, RC!Step
<1> QED
  BY <1>2, <1>3

LEMMA StoreTaskDoneTypes ==
    ASSUME RC!TypeOK, NEW w \in Workers, job[w].todo # <<>>, RC!TaskDone(w)
    PROVE  /\ job' \in [Workers -> RC!Job]
           /\ \A v \in Workers \ {w} : job'[v] = job[v]
           /\ job'[w].pc = "next" /\ job'[w].row = 0
           /\ job'[w].req = job[w].req
           /\ job'[w].todo = Tail(job[w].todo)
           /\ job'[w].plan = job[w].plan
<1>1. Tail(job[w].todo) \in Seq(RC!Task)
  BY HeadTailProperties DEF RC!TypeOK, RC!Job
<1> QED
  BY <1>1 DEF RC!TypeOK, RC!Job, RC!TaskDone, RC!PCs

LEMMA StoreIdleTypes ==
    ASSUME RC!TypeOK, NEW w \in Workers, job' = [job EXCEPT ![w] = RC!Idle]
    PROVE  /\ job' \in [Workers -> RC!Job]
           /\ \A v \in Workers \ {w} : job'[v] = job[v]
           /\ job'[w] = RC!Idle
<1>1. RC!Idle \in RC!Job
  BY EmptySeq DEF RC!Idle, RC!Job, RC!PCs
<1> QED
  BY <1>1 DEF RC!TypeOK

LEMMA StoreIdleIsOK ==
    ASSUME NEW w \in Workers, job'[w] = RC!Idle
    PROVE  StoreJobOK(w)'
BY DEF StoreJobOK, RC!Idle, StorePlanFirst

(* A handler that a step does not move keeps what it relies on.            *)
LEMMA StoreJobStaysOK ==
    ASSUME NEW v \in Workers, StoreJobOK(v), job'[v] = job[v],
           delivered \subseteq delivered',
           \A u \in Users : RC!RowsOf(u) \subseteq RC!RowsOf(u)'
    PROVE  StoreJobOK(v)'
<1>1. job[v].pc # "idle" => job'[v].req \in delivered'
  BY DEF StoreJobOK
<1>2. ASSUME RC!TaskUser(v) \in Users, job[v].row \in RC!RowsOf(RC!TaskUser(v))
      PROVE  job[v].row \in RC!RowsOf(RC!TaskUser(v))'
  <2> DEFINE u == Head(job[v].todo).user
  <2>1. u \in Users /\ job[v].row \in RC!RowsOf(u)
    BY <1>2 DEF RC!TaskUser
  <2>2. Head(job'[v].todo).user = Head(job[v].todo).user
    OBVIOUS
  <2> QED
    BY <2>1, <2>2 DEF RC!TaskUser, RC!RowsOf
<1> QED
  BY <1>1, <1>2 DEF StoreJobOK, RC!TaskUser

LEMMA StoreOthersStayOK ==
    ASSUME NEW w \in Workers, \A v \in Workers : StoreJobOK(v), StoreJobOK(w)',
           \A v \in Workers \ {w} : job'[v] = job[v],
           delivered \subseteq delivered',
           \A u \in Users : RC!RowsOf(u) \subseteq RC!RowsOf(u)'
    PROVE  \A v \in Workers : StoreJobOK(v)'
BY StoreJobStaysOK

---------------------------------------------------------------------------
(* Writing the table *)

LEMMA StoreSubsStay ==
    ASSUME UNCHANGED subs
    PROVE  \A u \in Users : RC!RowsOf(u)' = RC!RowsOf(u)
BY DEF RC!RowsOf

(* A step that writes none of the table's columns the properties are about.*)
LEMMA StoreTableStays ==
    ASSUME StoreTableInv, UNCHANGED <<subs, linked, payments, notices>>
    PROVE  StoreTableInv'
BY StoreSubsStay DEF StoreTableInv, RC!ActiveRowsAreLive, RC!LinkedToOwnRow,
                RC!NoMoneyWithoutSubscription

LEMMA StoreCreateKeeps ==
    ASSUME RC!TypeOK, StoreTableInv, NEW row \in RC!Row, RC!Create(row),
           row.isActive => row.status \in RC!LiveStatus,
           UNCHANGED <<linked, payments, notices>>
    PROVE  /\ subs' \in Seq(RC!Row)
           /\ StoreTableInv'
           /\ \A u \in Users : RC!RowsOf(u) \subseteq RC!RowsOf(u)'
<1>1. /\ subs \in Seq(RC!Row) /\ subs' \in Seq(RC!Row)
      /\ Len(subs) \in Nat /\ Len(subs') = Len(subs) + 1
      /\ \A i \in 1..Len(subs) : subs'[i] = subs[i]
      /\ subs'[Len(subs) + 1] = row
  BY AppendProperties, LenProperties DEF RC!TypeOK, RC!TableTypeOK, RC!Create
<1>2. \A u \in Users : RC!RowsOf(u) \subseteq RC!RowsOf(u)'
  BY <1>1 DEF RC!RowsOf
<1>3. RC!ActiveRowsAreLive'
  BY <1>1 DEF StoreTableInv, RC!ActiveRowsAreLive
<1>4. RC!LinkedToOwnRow'
  BY <1>2 DEF StoreTableInv, RC!LinkedToOwnRow
<1>5. RC!NoMoneyWithoutSubscription'
  BY <1>2 DEF StoreTableInv, RC!NoMoneyWithoutSubscription
<1> QED
  BY <1>1, <1>2, <1>3, <1>4, <1>5 DEF StoreTableInv

LEMMA StoreUpdateKeeps ==
    ASSUME RC!TypeOK, StoreTableInv, NEW r \in 1..Len(subs),
           NEW row \in RC!Row,
           RC!Update(r, row), row.userId = subs[r].userId,
           row.isActive => row.status \in RC!LiveStatus,
           UNCHANGED <<linked, payments, notices>>
    PROVE  /\ subs' \in Seq(RC!Row)
           /\ StoreTableInv'
           /\ \A u \in Users : RC!RowsOf(u)' = RC!RowsOf(u)
<1>1. /\ subs \in Seq(RC!Row) /\ subs' \in Seq(RC!Row)
      /\ Len(subs') = Len(subs)
      /\ \A i \in 1..Len(subs) :
            subs'[i] = IF i = r THEN row ELSE subs[i]
  BY ExceptSeq DEF RC!TypeOK, RC!TableTypeOK, RC!Update
<1>2. \A u \in Users : RC!RowsOf(u)' = RC!RowsOf(u)
  BY <1>1 DEF RC!RowsOf
<1>3. RC!ActiveRowsAreLive'
  BY <1>1 DEF StoreTableInv, RC!ActiveRowsAreLive
<1>4. RC!LinkedToOwnRow'
  BY <1>2 DEF StoreTableInv, RC!LinkedToOwnRow
<1>5. RC!NoMoneyWithoutSubscription'
  BY <1>2 DEF StoreTableInv, RC!NoMoneyWithoutSubscription
<1> QED
  BY <1>1, <1>2, <1>3, <1>4, <1>5 DEF StoreTableInv

---------------------------------------------------------------------------
(* What the handlers write *)

LEMMA StoreGivenRowTypes ==
    ASSUME RC!TypeOK, NEW w \in Workers, job[w].req \in Requests,
           job[w].plan \in Plans, NEW old,
           old \in RC!Row \/ \E u \in Users : old = RC!BlankRow(u)
    PROVE  /\ RC!GivenRow(w, old) \in RC!Row
           /\ RC!GivenRow(w, old).userId = old.userId
           /\ RC!GivenRow(w, old).status \in RC!LiveStatus
<1> DEFINE e == job[w].req
<1>1. e \in RC!Request
  BY StoreConstants
<1>2. /\ RC!StartOf(e) \in Nat
      /\ e.expiresAt \in RC!Date
      /\ e.trial \in BOOLEAN
      /\ (e.trial /\ e.expiresAt # None) \in BOOLEAN
      /\ PlanType[job[w].plan] \in RC!PlanTypes
  BY <1>1, PlansAreTyped
     DEF RC!Request, RC!Date, RC!StartOf, RC!TypeOK, RC!TableTypeOK,
         PlanTypes, RC!PlanTypes
<1>3. (IF e.trial THEN "trialing" ELSE "active") \in RC!LiveStatus
  BY DEF RC!LiveStatus
<1>4. CASE old \in RC!Row
  BY <1>2, <1>3, <1>4 DEF RC!GivenRow, RC!Row
<1>5. CASE \E u \in Users : old = RC!BlankRow(u)
  <2>1. PICK u \in Users : old = RC!BlankRow(u)
    BY <1>5
  <2>2. None \in RC!Code /\ None \in RC!Date
    BY DEF RC!Code, RC!Date
  <2> QED
    BY <1>2, <1>3, <2>1, <2>2 DEF RC!GivenRow, RC!BlankRow, RC!Row
<1> QED
  BY <1>4, <1>5

LEMMA StoreTakenRowTypes ==
    ASSUME RC!TypeOK, NEW w \in Workers, NEW r \in 1..Len(subs)
    PROVE  /\ RC!TakenRow(w, r) \in RC!Row
           /\ RC!TakenRow(w, r).userId = subs[r].userId
           /\ RC!TakenRow(w, r).isActive = FALSE
<1>1. subs[r] \in RC!Row
  BY ElementOfSeq DEF RC!TypeOK, RC!TableTypeOK
<1> QED
  BY <1>1 DEF RC!TakenRow, RC!Row, RC!DeadStatus

LEMMA StoreEndingRowTypes ==
    ASSUME RC!TypeOK, NEW r \in 1..Len(subs)
    PROVE  /\ RC!EndingRow(r) \in RC!Row
           /\ RC!EndingRow(r).userId = subs[r].userId
           /\ RC!EndingRow(r).status \in RC!LiveStatus
<1>1. subs[r] \in RC!Row
  BY ElementOfSeq DEF RC!TypeOK, RC!TableTypeOK
<1> QED
  BY <1>1 DEF RC!EndingRow, RC!Row, RC!LiveStatus

---------------------------------------------------------------------------
(* Steps that write nothing but their own handler *)

LEMMA StoreMovesOneJob ==
    ASSUME StoreInv, NEW w \in Workers, UNCHANGED RC!tableVars,
           job' \in [Workers -> RC!Job], StoreJobOK(w)',
           \A v \in Workers \ {w} : job'[v] = job[v],
           delivered \subseteq delivered', delivered' \subseteq Requests,
           answered' \subseteq delivered',
           duplicates' \in 0..MaxDuplicates, failures' \in 0..MaxFailures
    PROVE  StoreInv'
<1>1. RC!TypeOK'
  BY DEF StoreInv, RC!TypeOK, RC!TableTypeOK, RC!tableVars
<1>2. StoreTableInv'
  BY StoreTableStays DEF StoreInv, RC!tableVars
<1>3. \A u \in Users : RC!RowsOf(u)' = RC!RowsOf(u)
  BY StoreSubsStay DEF RC!tableVars
<1>4. \A v \in Workers : StoreJobOK(v)'
  BY <1>3, StoreOthersStayOK DEF StoreInv
<1> QED
  BY <1>1, <1>2, <1>4 DEF StoreInv

LEMMA StoreStartKeeps ==
    ASSUME StoreInv, NEW w \in Workers, NEW e \in Requests, RC!Start(w, e),
           duplicates' \in 0..MaxDuplicates
    PROVE  StoreInv'
<1>1. PICK tasks \in RC!TaskLists(e) :
         job' = [job EXCEPT ![w] = [RC!Idle EXCEPT !.pc = "next", !.req = e,
                                                !.todo = tasks]]
  BY DEF RC!Start
<1>2. tasks \in Seq(RC!Task) /\ StorePlanFirst(tasks)
  BY <1>1, StoreTaskListsTypes, StoreConstants
<1> DEFINE j == [RC!Idle EXCEPT !.pc = "next", !.req = e, !.todo = tasks]
<1>3. j \in RC!Job /\ j.pc = "next" /\ j.req = e /\ j.todo = tasks
  BY <1>2 DEF RC!Idle, RC!Job, RC!PCs
<1>4. job' \in [Workers -> RC!Job] /\ job'[w] = j
  BY <1>1, <1>3 DEF StoreInv, RC!TypeOK
<1>5. \A v \in Workers \ {w} : job'[v] = job[v]
  BY <1>1 DEF StoreInv, RC!TypeOK
<1>6. /\ delivered' = delivered \cup {e}
      /\ UNCHANGED <<RC!tableVars, answered, failures>>
  BY DEF RC!Start
<1>7. StoreJobOK(w)'
  BY <1>2, <1>3, <1>4, <1>6 DEF StoreJobOK
<1>8. /\ delivered \subseteq delivered' /\ delivered' \subseteq Requests
      /\ answered' \subseteq delivered' /\ failures' \in 0..MaxFailures
  BY <1>6 DEF StoreInv, RC!TypeOK
<1>9. UNCHANGED RC!tableVars
  BY <1>6
<1> QED
  BY <1>4, <1>5, <1>7, <1>8, <1>9, StoreMovesOneJob

LEMMA StoreBackToIdleKeeps ==
    ASSUME StoreInv, NEW w \in Workers,
           RC!Answer(w) \/ RC!Fail(w) \/ RC!NoPlanToGive(w)
    PROVE  StoreInv'
<1>1. job' = [job EXCEPT ![w] = RC!Idle] /\ UNCHANGED <<RC!tableVars, delivered, duplicates>>
  BY DEF RC!Answer, RC!Fail, RC!NoPlanToGive
<1>2. /\ job' \in [Workers -> RC!Job]
      /\ \A v \in Workers \ {w} : job'[v] = job[v]
      /\ StoreJobOK(w)'
  BY <1>1, StoreIdleTypes, StoreIdleIsOK DEF StoreInv
<1>3. failures' \in 0..MaxFailures
  BY StoreConstants
     DEF StoreInv, RC!TypeOK, RC!Answer, RC!Fail, RC!NoPlanToGive
<1>4. answered' \subseteq delivered'
  <2>1. CASE RC!Answer(w)
    <3>1. job[w].req \in delivered /\ answered' = answered \cup {job[w].req}
      BY <2>1 DEF StoreInv, StoreJobOK, RC!Answer
    <3> QED
      BY <1>1, <3>1 DEF StoreInv, RC!TypeOK
  <2>2. CASE RC!Fail(w) \/ RC!NoPlanToGive(w)
    BY <1>1, <2>2 DEF StoreInv, RC!TypeOK, RC!Fail, RC!NoPlanToGive
  <2> QED
    BY <2>1, <2>2
<1>5. UNCHANGED RC!tableVars /\ delivered' = delivered /\ duplicates' = duplicates
  BY <1>1
<1> QED
  BY <1>2, <1>3, <1>4, <1>5, StoreMovesOneJob DEF StoreInv, RC!TypeOK

(* The handler's own bookkeeping moves and nothing else.                   *)
LEMMA StoreOwnStepKeeps ==
    ASSUME StoreInv, NEW w \in Workers,
           UNCHANGED <<RC!tableVars, delivered, answered, duplicates,
           failures>>,
           job' \in [Workers -> RC!Job], StoreJobOK(w)',
           \A v \in Workers \ {w} : job'[v] = job[v]
    PROVE  StoreInv'
<1>1. UNCHANGED RC!tableVars
  OBVIOUS
<1> QED
  BY <1>1, StoreMovesOneJob DEF StoreInv, RC!TypeOK

LEMMA StorePlanKeeps ==
    ASSUME StoreInv, NEW w \in Workers, RC!Plan(w)
    PROVE  StoreInv'
<1>1. PICK p \in RC!ResolvedPlans(job[w].req) :
         job' = [job EXCEPT ![w].plan = p, ![w].todo = Tail(@)]
  BY DEF RC!Plan
<1>2. job[w] \in RC!Job /\ job[w].pc = "next" /\ job[w].todo # <<>>
  BY DEF StoreInv, RC!TypeOK, RC!Plan, RC!AtTask
<1>3. job[w].req \in Requests
  BY <1>2 DEF StoreInv, RC!TypeOK, StoreJobOK
<1>4. p \in Plans
  BY <1>1, <1>3 DEF RC!ResolvedPlans, StoreInv, RC!TypeOK, RC!TableTypeOK
<1>5. Tail(job[w].todo) \in Seq(RC!Task)
  BY <1>2, HeadTailProperties DEF RC!Job
<1> DEFINE j == [job[w] EXCEPT !.plan = p, !.todo = Tail(job[w].todo)]
<1>6. j \in RC!Job /\ j.pc = "next" /\ j.req = job[w].req /\ j.plan = p
  BY <1>2, <1>4, <1>5 DEF RC!Job
<1>7. job' = [job EXCEPT ![w] = j]
  BY <1>1, <1>2, Zenon DEF StoreInv, RC!TypeOK, RC!Job
<1>8. /\ job' \in [Workers -> RC!Job] /\ job'[w] = j
      /\ \A v \in Workers \ {w} : job'[v] = job[v]
  BY <1>6, <1>7 DEF StoreInv, RC!TypeOK
<1>9. UNCHANGED <<RC!tableVars, delivered, answered, duplicates, failures>>
  BY DEF RC!Plan
<1>10. StoreJobOK(w)'
  BY <1>2, <1>4, <1>6, <1>8, <1>9 DEF StoreInv, StoreJobOK
<1> QED
  BY <1>8, <1>9, <1>10, StoreOwnStepKeeps

(* A task that is not the plan's is done.                                  *)
LEMMA StoreTaskDoneIsOK ==
    ASSUME StoreInv, NEW w \in Workers, job[w].todo # <<>>, RC!TaskDone(w),
           job[w].pc # "idle", Head(job[w].todo).op # "plan",
           delivered' = delivered
    PROVE  /\ StoreJobOK(w)'
           /\ job' \in [Workers -> RC!Job]
           /\ \A v \in Workers \ {w} : job'[v] = job[v]
<1>1. /\ job' \in [Workers -> RC!Job]
      /\ \A v \in Workers \ {w} : job'[v] = job[v]
      /\ job'[w].pc = "next"
      /\ job'[w].req = job[w].req
      /\ job'[w].todo = Tail(job[w].todo)
      /\ job'[w].plan = job[w].plan
  BY StoreTaskDoneTypes DEF StoreInv
<1>2. job[w].todo \in Seq(RC!Task)
  BY DEF StoreInv, RC!TypeOK, RC!Job
<1>3. StorePlanFirst(job[w].todo) => StorePlanFirst(Tail(job[w].todo))
  BY <1>2, StorePlanFirstTail
<1>4. job'[w].plan \in Plans \/ StorePlanFirst(job'[w].todo)
  BY <1>1, <1>3 DEF StoreInv, StoreJobOK
<1>5. job'[w].req \in delivered'
  BY <1>1 DEF StoreInv, StoreJobOK
<1> QED
  BY <1>1, <1>4, <1>5 DEF StoreJobOK

LEMMA StoreSkipStrangerKeeps ==
    ASSUME StoreInv, NEW w \in Workers, RC!SkipStranger(w)
    PROVE  StoreInv'
<1>1. /\ job[w].pc = "next" /\ job[w].todo # <<>>
      /\ Head(job[w].todo).op # "plan" /\ RC!TaskDone(w)
      /\ UNCHANGED <<RC!tableVars, delivered, answered, duplicates, failures>>
  BY DEF RC!SkipStranger, RC!AtTask
<1> QED
  BY <1>1, StoreTaskDoneIsOK, StoreOwnStepKeeps

(* A row has been found, or there is none and one will be created.         *)
LEMMA StoreFoundKeeps ==
    ASSUME StoreInv, NEW w \in Workers, NEW r \in Nat,
           job[w].pc = "next", job[w].todo # <<>>,
           Head(job[w].todo).op \in StoreUserOps, RC!TaskUser(w) \in Users,
           r \in RC!RowsOf(RC!TaskUser(w)) \/ (r = 0 /\ Head(job[w].todo).op = "give"),
           RC!StepWithRow(w, "write", r),
           UNCHANGED <<RC!tableVars, delivered, answered, duplicates,
           failures>>
    PROVE  StoreInv'
<1>1. /\ job' \in [Workers -> RC!Job]
      /\ \A v \in Workers \ {w} : job'[v] = job[v]
      /\ job'[w].pc = "write" /\ job'[w].row = r
      /\ job'[w].req = job[w].req
      /\ job'[w].todo = job[w].todo
      /\ job'[w].plan = job[w].plan
  BY StoreStepTypes DEF StoreInv, RC!PCs
<1>2. /\ RC!TaskUser(w)' = RC!TaskUser(w)
      /\ subs' = subs /\ delivered' = delivered
  BY <1>1 DEF RC!TaskUser, RC!tableVars
<1>3. RC!RowsOf(RC!TaskUser(w))' = RC!RowsOf(RC!TaskUser(w))
  BY <1>2 DEF RC!RowsOf
<1>4. StoreJobOK(w)'
  BY <1>1, <1>2, <1>3 DEF StoreInv, StoreJobOK
<1> QED
  BY <1>1, <1>4, StoreOwnStepKeeps

LEMMA StoreFindToGiveKeeps ==
    ASSUME StoreInv, NEW w \in Workers, RC!FindToGive(w)
    PROVE  StoreInv'
<1>1. PICK r \in RC!FindFirst(RC!RowsToGive(RC!TaskUser(w))) : RC!StepWithRow(w, "write", r)
  BY DEF RC!FindToGive
<1>2. Len(subs) \in Nat
  BY LenProperties DEF StoreInv, RC!TypeOK, RC!TableTypeOK
<1>3. r \in Nat /\ (r \in RC!RowsOf(RC!TaskUser(w)) \/ r = 0)
  BY <1>1, <1>2 DEF RC!FindFirst, RC!RowsToGive, RC!Newest, RC!RowsOf
<1> QED
  BY <1>1, <1>3, StoreFoundKeeps DEF RC!FindToGive, RC!AtTask, StoreUserOps

LEMMA StoreFindActiveKeeps ==
    ASSUME StoreInv, NEW w \in Workers, RC!FindActive(w)
    PROVE  StoreInv'
<1> DEFINE found == RC!Newest(RC!ActiveRows(RC!TaskUser(w)))
<1>1. /\ job[w].pc = "next" /\ job[w].todo # <<>>
      /\ Head(job[w].todo).op \in StoreUserOps
      /\ Head(job[w].todo).op # "plan"
      /\ RC!TaskUser(w) \in Users
      /\ UNCHANGED <<RC!tableVars, delivered, answered, duplicates, failures>>
  BY DEF RC!FindActive, RC!AtTask, StoreUserOps
<1>2. CASE RC!TaskDone(w)
  BY <1>1, <1>2, StoreTaskDoneIsOK, StoreOwnStepKeeps
<1>3. CASE \E r \in found : RC!StepWithRow(w, "write", r)
  <2>1. PICK r \in found : RC!StepWithRow(w, "write", r)
    BY <1>3
  <2>2. Len(subs) \in Nat
    BY LenProperties DEF StoreInv, RC!TypeOK, RC!TableTypeOK
  <2>3. r \in Nat /\ r \in RC!RowsOf(RC!TaskUser(w))
    BY <2>1, <2>2 DEF RC!Newest, RC!ActiveRows, RC!RowsOf
  <2> QED
    BY <1>1, <2>1, <2>3, StoreFoundKeeps
<1> QED
  BY <1>2, <1>3 DEF RC!FindActive

---------------------------------------------------------------------------
(* Steps that write the table *)

(* What every one of them may rely on.                                     *)
LEMMA StoreWriting ==
    ASSUME StoreInv, NEW w \in Workers,
           job[w].pc \in {"write", "link", "pay", "notify"}
    PROVE  /\ job[w] \in RC!Job
           /\ job[w].todo # <<>> /\ job[w].todo \in Seq(RC!Task)
           /\ Head(job[w].todo).op \in StoreUserOps
           /\ RC!TaskUser(w) \in Users
           /\ job[w].req \in Requests
           /\ job[w].pc # "write" \/ Head(job[w].todo).op # "give" =>
                 job[w].row \in RC!RowsOf(RC!TaskUser(w))
<1>1. job[w] \in RC!Job
  BY DEF StoreInv, RC!TypeOK
<1>2. job[w].req \in Requests
  BY DEF StoreInv, RC!TypeOK, StoreJobOK
<1> QED
  BY <1>1, <1>2 DEF StoreInv, StoreJobOK, RC!Job

(* A gift is next, so the plan has been found.                             *)
LEMMA StoreGiftHasPlan ==
    ASSUME StoreInv, NEW w \in Workers, job[w].todo # <<>>,
           Head(job[w].todo).op = "give"
    PROVE  job[w].plan \in Plans
<1>1. job[w].todo \in Seq(RC!Task)
  BY DEF StoreInv, RC!TypeOK, RC!Job
<1>2. Len(job[w].todo) \in Nat /\ Len(job[w].todo) >= 1
  BY <1>1, LenProperties, EmptySeq
<1>3. job[w].todo[1].op = "give"
  BY <1>1
<1>4. ~StorePlanFirst(job[w].todo)
  BY <1>2, <1>3 DEF StorePlanFirst
<1> QED
  BY <1>4 DEF StoreInv, StoreJobOK

(* A handler goes on to pc with the row r of its user.                     *)
LEMMA StoreGoesOnOK ==
    ASSUME StoreInv, NEW w \in Workers, NEW pc \in {"link", "pay", "notify"},
           NEW r \in Nat,
           job[w].pc \in {"write", "link", "pay", "notify"},
           RC!StepWithRow(w, pc, r) \/ (r = job[w].row /\ RC!Step(w, pc)),
           r \in RC!RowsOf(RC!TaskUser(w))', delivered' = delivered
    PROVE  /\ StoreJobOK(w)'
           /\ job' \in [Workers -> RC!Job]
           /\ \A v \in Workers \ {w} : job'[v] = job[v]
<1>1. /\ job' \in [Workers -> RC!Job]
      /\ \A v \in Workers \ {w} : job'[v] = job[v]
      /\ job'[w].pc = pc /\ job'[w].row = r
      /\ job'[w].req = job[w].req
      /\ job'[w].todo = job[w].todo
      /\ job'[w].plan = job[w].plan
  BY StoreStepTypes DEF StoreInv, RC!PCs
<1>2. RC!TaskUser(w)' = RC!TaskUser(w)
  BY <1>1 DEF RC!TaskUser
<1>3. job'[w].req \in delivered'
  BY <1>1 DEF StoreInv, StoreJobOK
<1>4. job'[w].plan \in Plans \/ StorePlanFirst(job'[w].todo)
  BY <1>1 DEF StoreInv, StoreJobOK
<1>5. /\ job'[w].todo # <<>> /\ Head(job'[w].todo).op \in StoreUserOps
      /\ RC!TaskUser(w)' \in Users
  BY <1>1, <1>2, StoreWriting
<1>6. job'[w].row \in RC!RowsOf(RC!TaskUser(w))'
  BY <1>1
<1> QED
  BY <1>1, <1>3, <1>4, <1>5, <1>6 DEF StoreJobOK

(* The invariant after a step that moved w and wrote the table.            *)
LEMMA StoreWroteTable ==
    ASSUME StoreInv, NEW w \in Workers, RC!TableTypeOK', StoreTableInv',
           StoreJobOK(w)',
           job' \in [Workers -> RC!Job],
           \A v \in Workers \ {w} : job'[v] = job[v],
           \A u \in Users : RC!RowsOf(u) \subseteq RC!RowsOf(u)',
           UNCHANGED <<delivered, answered, duplicates>>,
           failures' \in 0..MaxFailures
    PROVE  StoreInv'
<1>1. RC!TypeOK'
  BY DEF StoreInv, RC!TypeOK
<1>2. \A v \in Workers : StoreJobOK(v)'
  BY StoreOthersStayOK DEF StoreInv
<1> QED
  BY <1>1, <1>2 DEF StoreInv

LEMMA StoreGiveKeeps ==
    ASSUME StoreInv, NEW w \in Workers, RC!Give(w)
    PROVE  StoreInv'
<1>1. /\ job[w].pc = "write" /\ Head(job[w].todo).op = "give"
      /\ UNCHANGED <<now, plans, linked, payments, notices,
                     delivered, answered, duplicates, failures>>
  BY DEF RC!Give, RC!WritingTask
<1>2. /\ job[w] \in RC!Job /\ job[w].todo # <<>>
      /\ RC!TaskUser(w) \in Users /\ job[w].req \in Requests
  BY <1>1, StoreWriting
<1>3. job[w].plan \in Plans
  BY <1>1, <1>2, StoreGiftHasPlan
<1>4. RC!TypeOK /\ StoreTableInv /\ Len(subs) \in Nat
  BY LenProperties DEF StoreInv, RC!TypeOK, RC!TableTypeOK
<1>5. CASE job[w].row = 0 /\ RC!Create(RC!GivenRow(w, RC!BlankRow(RC!TaskUser(w))))
                          /\ RC!StepWithRow(w, "link", Len(subs) + 1)
  <2> DEFINE row == RC!GivenRow(w, RC!BlankRow(RC!TaskUser(w)))
  <2>1. row \in RC!Row /\ row.userId = RC!TaskUser(w) /\ row.status \in RC!LiveStatus
    BY <1>2, <1>3, <1>4, StoreGivenRowTypes DEF RC!BlankRow
  <2>2. /\ subs' \in Seq(RC!Row) /\ StoreTableInv'
        /\ \A u \in Users : RC!RowsOf(u) \subseteq RC!RowsOf(u)'
    BY <1>1, <1>4, <1>5, <2>1, StoreCreateKeeps
  <2>3. RC!TableTypeOK'
    BY <1>1, <1>4, <2>2 DEF RC!TypeOK, RC!TableTypeOK
  <2>4. job'[w].todo = job[w].todo
    BY <1>4, <1>5, StoreStepTypes DEF RC!PCs
  <2>5. Len(subs) + 1 \in RC!RowsOf(RC!TaskUser(w))'
    <3>1. /\ Len(subs) + 1 \in 1..Len(subs')
          /\ subs'[Len(subs) + 1].userId = RC!TaskUser(w)
      <4>1. subs' = Append(subs, row)
        BY <1>5 DEF RC!Create
      <4> QED
        BY <1>4, <2>1, <4>1, AppendProperties DEF RC!TypeOK, RC!TableTypeOK
    <3>2. RC!TaskUser(w)' = RC!TaskUser(w)
      BY <2>4 DEF RC!TaskUser
    <3> QED
      BY <3>1, <3>2 DEF RC!RowsOf
  <2>6. /\ StoreJobOK(w)' /\ job' \in [Workers -> RC!Job]
        /\ \A v \in Workers \ {w} : job'[v] = job[v]
    BY <1>1, <1>4, <1>5, <2>5, StoreGoesOnOK
  <2> QED
    BY <1>1, <1>4, <2>2, <2>3, <2>6, StoreWroteTable DEF RC!TypeOK
<1>6. CASE job[w].row # 0 /\ RC!Update(job[w].row, RC!GivenRow(w, subs[job[w].row]))
                          /\ RC!Step(w, "link")
  <2> DEFINE r == job[w].row
             row == RC!GivenRow(w, subs[r])
  <2>1. r \in RC!RowsOf(RC!TaskUser(w))
    BY <1>1, <1>6 DEF StoreInv, StoreJobOK
  <2>2. r \in 1..Len(subs) /\ subs[r] \in RC!Row /\ r \in Nat
    BY <1>2, <1>4, <2>1, ElementOfSeq
       DEF RC!RowsOf, RC!TypeOK, RC!TableTypeOK, RC!Job
  <2>3. row \in RC!Row /\ row.userId = subs[r].userId /\ row.status \in RC!LiveStatus
    BY <1>2, <1>3, <1>4, <2>2, StoreGivenRowTypes
  <2>4. /\ subs' \in Seq(RC!Row) /\ StoreTableInv'
        /\ \A u \in Users : RC!RowsOf(u)' = RC!RowsOf(u)
    BY <1>1, <1>4, <1>6, <2>2, <2>3, StoreUpdateKeeps
  <2>5. RC!TableTypeOK'
    BY <1>1, <1>4, <2>4 DEF RC!TypeOK, RC!TableTypeOK
  <2>6. r \in RC!RowsOf(RC!TaskUser(w))'
    <3>1. job'[w].todo = job[w].todo
      BY <1>4, <1>6, <2>2, StoreStepTypes DEF RC!PCs
    <3>2. RC!TaskUser(w)' = RC!TaskUser(w)
      BY <3>1 DEF RC!TaskUser
    <3> QED
      BY <1>2, <2>1, <2>4, <3>2 DEF RC!RowsOf
  <2>7. /\ StoreJobOK(w)' /\ job' \in [Workers -> RC!Job]
        /\ \A v \in Workers \ {w} : job'[v] = job[v]
    BY <1>1, <1>6, <2>2, <2>6, StoreGoesOnOK
  <2> QED
    BY <1>1, <1>4, <2>4, <2>5, <2>7, StoreWroteTable DEF RC!TypeOK
<1> QED
  BY <1>5, <1>6 DEF RC!Give

(* The steps behind the write leave the rows alone.                        *)
LEMMA StoreRowStays ==
    ASSUME StoreInv, NEW w \in Workers, job[w].pc \in {"link", "pay",
           "notify"},
           UNCHANGED subs, job'[w].todo = job[w].todo
    PROVE  /\ job[w].row \in Nat
           /\ job[w].row \in RC!RowsOf(RC!TaskUser(w))'
           /\ RC!TaskUser(w) \in Users /\ RC!RowsOf(RC!TaskUser(w)) # {}
<1>1. /\ job[w].row \in Nat /\ RC!TaskUser(w) \in Users
      /\ job[w].row \in RC!RowsOf(RC!TaskUser(w))
  BY StoreWriting DEF RC!Job
<1>2. RC!TaskUser(w)' = RC!TaskUser(w)
  BY DEF RC!TaskUser
<1> QED
  BY <1>1, <1>2 DEF RC!RowsOf

LEMMA StoreLinkKeeps ==
    ASSUME StoreInv, NEW w \in Workers, RC!Link(w)
    PROVE  StoreInv'
<1>1. /\ job[w].pc = "link" /\ RC!Step(w, "pay")
      /\ linked' = [linked EXCEPT ![RC!TaskUser(w)] = job[w].row]
      /\ UNCHANGED <<now, plans, subs, payments, notices,
                     delivered, answered, duplicates, failures>>
  BY DEF RC!Link
<1>2. job[w].row \in Nat /\ RC!TaskUser(w) \in Users
      /\ job[w].row \in RC!RowsOf(RC!TaskUser(w))
  BY <1>1, StoreWriting DEF RC!Job
<1>3. job'[w].todo = job[w].todo
  BY <1>1, <1>2, StoreStepTypes DEF StoreInv, RC!PCs
<1>4. /\ StoreJobOK(w)' /\ job' \in [Workers -> RC!Job]
      /\ \A v \in Workers \ {w} : job'[v] = job[v]
  BY <1>1, <1>2, <1>3, StoreRowStays, StoreGoesOnOK
<1>5. \A u \in Users : RC!RowsOf(u)' = RC!RowsOf(u)
  BY <1>1, StoreSubsStay
<1>6. RC!TableTypeOK'
  BY <1>1, <1>2 DEF StoreInv, RC!TypeOK, RC!TableTypeOK
<1>7. RC!LinkedToOwnRow'
  BY <1>1, <1>2, <1>5
     DEF StoreInv, RC!TypeOK, RC!TableTypeOK, StoreTableInv, RC!LinkedToOwnRow
<1>8. RC!ActiveRowsAreLive' /\ RC!NoMoneyWithoutSubscription'
  BY <1>1, <1>5
     DEF StoreInv, StoreTableInv, RC!ActiveRowsAreLive,
         RC!NoMoneyWithoutSubscription
<1> QED
  BY <1>1, <1>4, <1>5, <1>6, <1>7, <1>8, StoreWroteTable
     DEF StoreTableInv, StoreInv, RC!TypeOK

(* A row is written back to its owner, and the handler is done with its    *)
(* task or goes on to the notification.                                    *)
LEMMA StoreWritesBack ==
    ASSUME StoreInv, NEW w \in Workers, job[w].pc = "write",
           job[w].row \in RC!RowsOf(RC!TaskUser(w)), NEW row \in RC!Row,
           row.userId = subs[job[w].row].userId,
           row.isActive => row.status \in RC!LiveStatus,
           RC!Update(job[w].row, row),
           RC!TaskDone(w) \/ RC!Step(w, "notify"),
           UNCHANGED <<now, plans, linked, payments, notices,
                       delivered, answered, duplicates, failures>>
    PROVE  StoreInv'
<1>1. /\ job[w] \in RC!Job /\ job[w].todo # <<>>
      /\ Head(job[w].todo).op \in StoreUserOps /\ RC!TaskUser(w) \in Users
  BY StoreWriting
<1>2. RC!TypeOK /\ StoreTableInv /\ Len(subs) \in Nat
  BY LenProperties DEF StoreInv, RC!TypeOK, RC!TableTypeOK
<1>3. job[w].row \in 1..Len(subs) /\ job[w].row \in Nat
  BY <1>1 DEF RC!RowsOf, RC!Job
<1>4. /\ subs' \in Seq(RC!Row) /\ StoreTableInv'
      /\ \A u \in Users : RC!RowsOf(u)' = RC!RowsOf(u)
  BY <1>2, <1>3, StoreUpdateKeeps
<1>5. RC!TableTypeOK'
  BY <1>2, <1>4 DEF RC!TypeOK, RC!TableTypeOK
<1>6. /\ StoreJobOK(w)' /\ job' \in [Workers -> RC!Job]
      /\ \A v \in Workers \ {w} : job'[v] = job[v]
  <2>1. CASE RC!TaskDone(w)
    BY <1>1, <2>1, StoreTaskDoneIsOK DEF StoreUserOps
  <2>2. CASE RC!Step(w, "notify")
    <3>1. job'[w].todo = job[w].todo
      BY <1>2, <1>3, <2>2, StoreStepTypes DEF RC!PCs
    <3>2. RC!TaskUser(w)' = RC!TaskUser(w)
      BY <3>1 DEF RC!TaskUser
    <3>3. job[w].row \in RC!RowsOf(RC!TaskUser(w))'
      BY <1>1, <1>4, <3>2 DEF RC!RowsOf
    <3> QED
      BY <1>3, <2>2, <3>3, StoreGoesOnOK
  <2> QED
    BY <2>1, <2>2
<1> QED
  BY <1>2, <1>4, <1>5, <1>6, StoreWroteTable DEF RC!TypeOK

LEMMA StoreTakeKeeps ==
    ASSUME StoreInv, NEW w \in Workers, RC!Take(w)
    PROVE  StoreInv'
<1>1. job[w].pc = "write" /\ Head(job[w].todo).op = "take"
  BY DEF RC!Take, RC!WritingTask
<1>2. job[w].row \in RC!RowsOf(RC!TaskUser(w)) /\ job[w].row \in 1..Len(subs)
  BY <1>1, StoreWriting DEF RC!RowsOf
<1>3. /\ RC!TakenRow(w, job[w].row) \in RC!Row
      /\ RC!TakenRow(w, job[w].row).userId = subs[job[w].row].userId
      /\ RC!TakenRow(w, job[w].row).isActive = FALSE
  BY <1>2, StoreTakenRowTypes DEF StoreInv
<1> QED
  BY <1>1, <1>2, <1>3, StoreWritesBack DEF RC!Take

LEMMA StoreEndKeeps ==
    ASSUME StoreInv, NEW w \in Workers, RC!End(w)
    PROVE  StoreInv'
<1>1. job[w].pc = "write" /\ Head(job[w].todo).op = "end"
  BY DEF RC!End, RC!WritingTask
<1>2. job[w].row \in RC!RowsOf(RC!TaskUser(w)) /\ job[w].row \in 1..Len(subs)
  BY <1>1, StoreWriting DEF RC!RowsOf
<1>3. /\ RC!EndingRow(job[w].row) \in RC!Row
      /\ RC!EndingRow(job[w].row).userId = subs[job[w].row].userId
      /\ RC!EndingRow(job[w].row).status \in RC!LiveStatus
  BY <1>2, StoreEndingRowTypes DEF StoreInv
<1> QED
  BY <1>1, <1>2, <1>3, StoreWritesBack DEF RC!End

(* Money and notices are for a user with a row.                            *)
LEMMA StoreMoneyStays ==
    ASSUME StoreInv, NEW w \in Workers, UNCHANGED <<subs, linked>>,
           RC!RowsOf(RC!TaskUser(w)) # {},
           \A u \in Users \ {RC!TaskUser(w)} :
              /\ \A ref \in Refs : payments'[<<u, ref>>] = payments[<<u, ref>>]
              /\ \A n \in RC!NoticeTypes : <<u, n>> \in notices' => <<u, n>> \in notices
    PROVE  StoreTableInv'
<1>1. \A u \in Users : RC!RowsOf(u)' = RC!RowsOf(u)
  BY StoreSubsStay
<1>2. RC!ActiveRowsAreLive' /\ RC!LinkedToOwnRow'
  BY <1>1 DEF StoreInv, StoreTableInv, RC!ActiveRowsAreLive, RC!LinkedToOwnRow
<1>3. RC!NoMoneyWithoutSubscription'
  BY <1>1 DEF StoreInv, StoreTableInv, RC!NoMoneyWithoutSubscription
<1> QED
  BY <1>2, <1>3 DEF StoreTableInv

LEMMA StorePayKeeps ==
    ASSUME StoreInv, NEW w \in Workers, RC!Pay(w)
    PROVE  StoreInv'
<1>1. /\ job[w].pc = "pay" /\ RC!Step(w, "notify")
      /\ UNCHANGED <<now, plans, subs, linked, notices,
                     delivered, answered, duplicates>>
      /\ payments' = payments \/ RC!RecordPayment(RC!TaskUser(w), job[w].req.ref)
  BY DEF RC!Pay
<1>2. /\ job[w].row \in Nat /\ RC!TaskUser(w) \in Users
      /\ job[w].req \in Requests /\ RC!RowsOf(RC!TaskUser(w)) # {}
  BY <1>1, StoreWriting DEF RC!Job
<1>3. job[w].req.ref \in Refs
  BY <1>2, StoreConstants DEF RC!Request
<1>4. job'[w].todo = job[w].todo
  BY <1>1, <1>2, StoreStepTypes DEF StoreInv, RC!PCs
<1>5. /\ StoreJobOK(w)' /\ job' \in [Workers -> RC!Job]
      /\ \A v \in Workers \ {w} : job'[v] = job[v]
  BY <1>1, <1>2, <1>4, StoreRowStays, StoreGoesOnOK
<1>6. payments \in [Users \X Refs -> Nat]
  BY DEF StoreInv, RC!TypeOK, RC!TableTypeOK
<1>7. /\ payments' \in [Users \X Refs -> Nat]
      /\ \A u \in Users \ {RC!TaskUser(w)}, ref \in Refs :
            payments'[<<u, ref>>] = payments[<<u, ref>>]
  BY <1>1, <1>2, <1>3, <1>6 DEF RC!RecordPayment
<1>8. RC!TableTypeOK'
  BY <1>1, <1>7 DEF StoreInv, RC!TypeOK, RC!TableTypeOK
<1>9. StoreTableInv'
  BY <1>1, <1>2, <1>7, StoreMoneyStays
<1>10. failures' \in 0..MaxFailures
  BY StoreConstants DEF StoreInv, RC!TypeOK, RC!Pay
<1>11. \A u \in Users : RC!RowsOf(u)' = RC!RowsOf(u)
  BY <1>1, StoreSubsStay
<1> QED
  BY <1>1, <1>5, <1>8, <1>9, <1>10, <1>11, StoreWroteTable

LEMMA StoreNotifyKeeps ==
    ASSUME StoreInv, NEW w \in Workers, RC!Notify(w)
    PROVE  StoreInv'
<1>1. /\ job[w].pc = "notify" /\ RC!TaskDone(w)
      /\ UNCHANGED <<now, plans, subs, linked, payments,
                     delivered, answered, duplicates>>
      /\ notices' \subseteq notices \cup ({RC!TaskUser(w)} \X RC!NoticeOf(w))
  BY DEF RC!Notify
<1>2. /\ job[w].todo # <<>> /\ Head(job[w].todo).op # "plan"
      /\ RC!TaskUser(w) \in Users /\ RC!RowsOf(RC!TaskUser(w)) # {}
  BY <1>1, StoreWriting DEF StoreUserOps
<1>3. /\ StoreJobOK(w)' /\ job' \in [Workers -> RC!Job]
      /\ \A v \in Workers \ {w} : job'[v] = job[v]
  BY <1>1, <1>2, StoreTaskDoneIsOK
<1>4. RC!NoticeOf(w) \subseteq RC!NoticeTypes
  BY DEF RC!NoticeOf, RC!NoticeTypes
<1>5. RC!TableTypeOK'
  BY <1>1, <1>2, <1>4 DEF StoreInv, RC!TypeOK, RC!TableTypeOK
<1>6. StoreTableInv'
  BY <1>1, <1>2, StoreMoneyStays
<1>7. failures' \in 0..MaxFailures
  BY StoreConstants DEF StoreInv, RC!TypeOK, RC!Notify
<1>8. \A u \in Users : RC!RowsOf(u)' = RC!RowsOf(u)
  BY <1>1, StoreSubsStay
<1> QED
  BY <1>1, <1>3, <1>5, <1>6, <1>7, <1>8, StoreWroteTable

---------------------------------------------------------------------------
(* The invariant *)

LEMMA StoreInvInit ==
    ASSUME RC!TableInit, RC!RcInit
    PROVE  StoreInv
<1>1. RC!TypeOK
  <2>1. RC!TableTypeOK
    BY EmptySeq DEF RC!TableInit, RC!TableTypeOK
  <2>2. RC!Idle \in RC!Job
    BY EmptySeq DEF RC!Idle, RC!Job, RC!PCs
  <2> QED
    BY <2>1, <2>2, StoreConstants DEF RC!RcInit, RC!TypeOK
<1>2. StoreTableInv
  <2>1. RC!ActiveRowsAreLive
    <3>1. Len(subs) = 0
      BY DEF RC!TableInit
    <3> QED
      BY <3>1 DEF RC!ActiveRowsAreLive
  <2>2. RC!LinkedToOwnRow
    BY DEF RC!TableInit, RC!LinkedToOwnRow
  <2>3. RC!NoMoneyWithoutSubscription
    <3>1. ASSUME NEW u \in Users, NEW ref \in Refs
          PROVE  ~(payments[<<u, ref>>] > 0)
      <4>1. payments = [k \in Users \X Refs |-> 0]
        BY DEF RC!TableInit
      <4>2. <<u, ref>> \in Users \X Refs
        OBVIOUS
      <4>3. payments[<<u, ref>>] = 0
        BY <4>1, <4>2
      <4> QED
        BY <4>3
    <3>2. notices = {}
      BY DEF RC!TableInit
    <3> QED
      BY <3>1, <3>2 DEF RC!NoMoneyWithoutSubscription
  <2> QED
    BY <2>1, <2>2, <2>3 DEF StoreTableInv
<1>3. \A w \in Workers : StoreJobOK(w)
  BY DEF RC!RcInit, StoreJobOK, RC!Idle, StorePlanFirst
<1> QED
  BY <1>1, <1>2, <1>3 DEF StoreInv

LEMMA StoreInvNext ==
    ASSUME StoreInv, RC!RcNext
    PROVE  StoreInv'
<1>2. ASSUME NEW w \in Workers, NEW e \in Requests, RC!Receive(w, e)
      PROVE  StoreInv'
  BY <1>2, StoreStartKeeps DEF RC!Receive, StoreInv, RC!TypeOK
<1>3. ASSUME NEW w \in Workers, NEW e \in Requests, RC!Duplicate(w, e)
      PROVE  StoreInv'
  <2>1. duplicates' \in 0..MaxDuplicates
    BY <1>3, StoreConstants DEF RC!Duplicate, StoreInv, RC!TypeOK
  <2> QED
    BY <1>3, <2>1, StoreStartKeeps DEF RC!Duplicate
<1>4. ASSUME NEW w \in Workers, RC!RcStep(w) \/ RC!Fail(w)
      PROVE  StoreInv'
  BY <1>4, StoreBackToIdleKeeps, StorePlanKeeps, StoreSkipStrangerKeeps,
     StoreFindToGiveKeeps,
     StoreGiveKeeps, StoreLinkKeeps, StorePayKeeps, StoreFindActiveKeeps,
     StoreTakeKeeps, StoreEndKeeps,
     StoreNotifyKeeps
     DEF RC!RcStep
<1> QED
  BY <1>2, <1>3, <1>4 DEF RC!RcNext

---------------------------------------------------------------------------
(* The card handlers                                                       *)


CardPaidBy(ref, u) ==
    /\ ref \in Refs
    /\ charges[ref] # None
    /\ charges[ref].state = "paid"
    /\ charges[ref].user = u

CardPaidFrom(ref, a) ==
    /\ ref \in Refs
    /\ charges[ref] # None
    /\ charges[ref].state = "paid"
    /\ charges[ref].email = a

CardBilledTo(ref, u) ==
    CardPaidFrom(ref, charges[ref].email) /\ <<u, charges[ref].email>> \in held

CardOwnCode(code, u) == code # None => <<u, code.email>> \in held

CardWithPlan == {"trialActive", "trialCreate", "chargeRow", "charge", "verify",
             "subscribe", "find", "write"}
CardCharging == {"verify", "subscribe", "find", "write"}
CardHolding  == {"statusWrite", "disable", "cancelWrite", "codeWrite", "renewWrite"}

(* What the locals k of a call are worth.                                  *)
CardKeepsOK(k) ==
    /\ k.pc \in CardWithPlan => k.plan \in Plans
    /\ k.pc \in CardCharging => CardPaidBy(k.ref, k.user) /\ charges[k.ref].plan = k.plan
    /\ k.pc \in {"chargeRow", "charge"} =>
          k.email \in Addresses /\ <<k.user, k.email>> \in held
    /\ k.pc \in {"successRow", "renewWrite", "pay"} => CardBilledTo(k.ref, k.user)
    /\ k.pc \in CardHolding => k.row \in PS!RowsOf(k.user)
    /\ k.pc \in {"trialCreate", "write"} => k.row = 0 \/ k.row \in PS!RowsOf(k.user)
    /\ k.pc = "disableWrite" => k.row \in 1..Len(subs)
    /\ k.pc \in {"find", "write", "createRow", "codeWrite"} =>
          CardOwnCode(k.code, k.user)
    /\ k.pc \in {"pay", "notify"} => PS!RowsOf(k.user) # {}

CardCallOK(c) == CardKeepsOK(call[c])

(* Nobody is charged under an address he never had.                        *)
CardHeldOK ==
    /\ \A u \in Users : <<u, email[u]>> \in held
    /\ \A ref \in Refs :
          charges[ref] # None => <<charges[ref].user, charges[ref].email>> \in held

(* Paystack renews and reports what was paid for.                          *)
CardRemoteKey == [kind : {"SUB"}, email : Addresses, ref : Refs]

CardRemoteOK == \A k \in remote : k \in CardRemoteKey /\ CardPaidFrom(k.ref, k.email)

CardHookOK(h) == h.event = "success" => CardPaidFrom(h.ref, charges[h.ref].email)

CardHooksOK == \A h \in hooks : CardHookOK(h)

(* What every single row satisfies: ActiveRowsAreLive and CodeOfAddress, of*)
(* one row.                                                                *)
CardRowOK(row) ==
    /\ row.isActive => row.status \in PS!LiveStatus
    /\ CardOwnCode(row.paystackSubId, row.userId)

CardRowsOK == \A i \in 1..Len(subs) : CardRowOK(subs[i])

CardInv ==
    /\ PS!TypeOK
    /\ CardRowsOK /\ PS!LinkedToOwnRow /\ PS!NoMoneyWithoutSubscription
    /\ CardHeldOK /\ CardRemoteOK /\ CardHooksOK
    /\ \A c \in Callers : CardCallOK(c)

---------------------------------------------------------------------------
(* What no step undoes *)

CardPaidStays ==
    /\ \A ref \in Refs :
          charges[ref] # None /\ charges[ref].state = "paid" =>
              charges'[ref] = charges[ref]
    /\ held \subseteq held'

CardOwnersStay == \A u \in Users : PS!RowsOf(u) \subseteq PS!RowsOf(u)'

(* A payment is recorded for a charge only.                                *)
CardChargesPay ==
    \A u \in Users, ref \in Refs :
        payments'[<<u, ref>>] # payments[<<u, ref>>] => CardBilledTo(ref, u)'

(* What every step of the service does.                                    *)
CardKept == CardInv' /\ CardPaidStays /\ CardOwnersStay /\ CardChargesPay

LEMMA CardPaidByStays ==
    ASSUME CardPaidStays, NEW ref, NEW u, CardPaidBy(ref, u)
    PROVE  CardPaidBy(ref, u)' /\ charges'[ref] = charges[ref]
BY DEF CardPaidStays, CardPaidBy

LEMMA CardPaidFromStays ==
    ASSUME CardPaidStays, NEW ref, NEW a, CardPaidFrom(ref, a)
    PROVE  CardPaidFrom(ref, a)' /\ charges'[ref] = charges[ref]
BY DEF CardPaidStays, CardPaidFrom

LEMMA CardBilledToStays ==
    ASSUME CardPaidStays, NEW ref, NEW u, CardBilledTo(ref, u)
    PROVE  CardBilledTo(ref, u)'
<1>1. charges'[ref] = charges[ref]
  BY CardPaidFromStays DEF CardBilledTo
<1> QED
  BY <1>1 DEF CardPaidStays, CardBilledTo, CardPaidFrom

(* Who pays for a charge is billed for it.                                 *)
LEMMA CardPaidIsBilled ==
    ASSUME CardHeldOK, NEW ref, NEW u, CardPaidBy(ref, u)
    PROVE  CardBilledTo(ref, u)
BY DEF CardHeldOK, CardPaidBy, CardPaidFrom, CardBilledTo

LEMMA CardOwnCodeStays ==
    ASSUME CardPaidStays, NEW code, NEW u, CardOwnCode(code, u)
    PROVE  CardOwnCode(code, u)'
BY DEF CardPaidStays, CardOwnCode

LEMMA CardSubsStay ==
    ASSUME UNCHANGED subs
    PROVE  /\ CardOwnersStay
           /\ \A u : PS!RowsOf(u)' = PS!RowsOf(u)
BY DEF CardOwnersStay, PS!RowsOf

LEMMA CardChargesStay ==
    ASSUME UNCHANGED <<charges, PS!addressVars>>
    PROVE  /\ CardPaidStays
           /\ CardHeldOK' = CardHeldOK
           /\ \A ref, u : CardPaidBy(ref, u)' = CardPaidBy(ref, u)
BY DEF CardPaidStays, CardPaidBy, CardHeldOK, PS!addressVars

LEMMA CardCallTypes ==
    ASSUME PS!TypeOK, NEW c \in Callers, call[c].pc # "idle"
    PROVE  call[c] \in PS!Call
BY DEF PS!TypeOK, PS!NoCall

LEMMA CardKeepsStayOK ==
    ASSUME CardPaidStays, CardOwnersStay, Len(subs) <= Len(subs'),
           Len(subs) \in Nat, Len(subs') \in Nat,
           NEW k \in PS!Call \cup {PS!NoCall}, CardKeepsOK(k)
    PROVE  CardKeepsOK(k)'
<1>1. CASE k = PS!NoCall
  BY <1>1 DEF PS!NoCall, CardKeepsOK, CardWithPlan, CardCharging, CardHolding
<1>2. CASE k \in PS!Call
  <2>1. k.user \in Users
    BY <1>2 DEF PS!Call
  <2>2. k.pc \in CardCharging => CardPaidBy(k.ref, k.user)' /\ charges'[k.ref].plan = k.plan
    BY CardPaidByStays DEF CardKeepsOK
  <2>3. /\ k.pc \in {"successRow", "renewWrite", "pay"} =>
              CardBilledTo(k.ref, k.user)'
        /\ k.pc \in {"chargeRow", "charge"} => <<k.user, k.email>> \in held'
    BY CardBilledToStays DEF CardKeepsOK, CardPaidStays
  <2>4. PS!RowsOf(k.user) \subseteq PS!RowsOf(k.user)'
    BY <2>1 DEF CardOwnersStay
  <2>5. CardOwnCode(k.code, k.user) => CardOwnCode(k.code, k.user)'
    BY CardOwnCodeStays
  <2> QED
    BY <2>2, <2>3, <2>4, <2>5 DEF CardKeepsOK
<1> QED
  BY <1>1, <1>2

(* The one way an invariant is shown after a step: nothing is undone, and  *)
(* the call that moved, if one did, may rely on its new locals.            *)
LEMMA CardStays ==
    ASSUME CardInv, PS!TypeOK', CardPaidStays, CardOwnersStay,
           Len(subs) <= Len(subs'),
           CardRowsOK', PS!LinkedToOwnRow', PS!NoMoneyWithoutSubscription',
           CardHeldOK', CardRemoteOK', CardHooksOK',
           \A c \in Callers : call'[c] = call[c] \/ CardCallOK(c)'
    PROVE  CardInv'
<1>1. Len(subs) \in Nat /\ Len(subs') \in Nat
  BY LenProperties DEF CardInv, PS!TypeOK, PS!TableTypeOK
<1>2. ASSUME NEW c \in Callers, call'[c] = call[c]
      PROVE  CardCallOK(c)'
  <2>1. PICK k : k = call[c]
    OBVIOUS
  <2>2. k \in PS!Call \cup {PS!NoCall} /\ CardKeepsOK(k)
    BY <2>1 DEF CardInv, PS!TypeOK, CardCallOK
  <2>3. CardKeepsOK(k)'
    BY <1>1, <2>2, CardKeepsStayOK
  <2>4. call'[c] = k
    BY <1>2, <2>1
  <2> HIDE <2>1, <1>2
  <2> QED
    BY <2>3, <2>4 DEF CardCallOK, CardKeepsOK
<1> QED
  BY <1>2 DEF CardInv

(* The same of a step of this service.                                     *)
LEMMA CardKeeps ==
    ASSUME CardInv, PS!TypeOK', CardPaidStays, CardOwnersStay,
           Len(subs) <= Len(subs'),
           CardRowsOK', PS!LinkedToOwnRow', PS!NoMoneyWithoutSubscription',
           CardHeldOK', CardRemoteOK', CardHooksOK', CardChargesPay,
           \A c \in Callers : call'[c] = call[c] \/ CardCallOK(c)'
    PROVE  CardKept
BY CardStays DEF CardKept

---------------------------------------------------------------------------
(* Locals *)

LEMMA CardCallMoves ==
    ASSUME PS!TypeOK, NEW c \in Callers, NEW k \in PS!Call \cup {PS!NoCall},
           call' = [call EXCEPT ![c] = k]
    PROVE  /\ call' \in [Callers -> PS!Call \cup {PS!NoCall}]
           /\ call'[c] = k
           /\ \A d \in Callers \ {c} : call'[d] = call[d]
BY DEF PS!TypeOK

LEMMA CardNoCallIsOK == CardKeepsOK(PS!NoCall)
BY DEF CardKeepsOK, PS!NoCall, CardWithPlan, CardCharging, CardHolding

LEMMA CardNewCallIsCall ==
    ASSUME NEW pc \in PS!CallPC, NEW u \in Users
    PROVE  /\ PS!NewCall(pc, u) \in PS!Call
           /\ PS!NewCall(pc, u).pc = pc /\ PS!NewCall(pc, u).user = u
           /\ PS!NewCall(pc, u).row = 0 /\ PS!NewCall(pc, u).code = None
           /\ PS!NewCall(pc, u).ref = None /\ PS!NewCall(pc, u).says = "ACTIVATED"
BY DEF PS!NewCall, PS!Call, PS!Code, PS!Date, PS!NoticeTypes

(* What an event or a cancellation adds to a new call.                     *)
LEMMA CardCallWithCode ==
    ASSUME NEW k \in PS!Call, NEW r \in Nat, NEW code \in PS!Code,
           NEW says \in PS!NoticeTypes
    PROVE  /\ [k EXCEPT !.row = r, !.code = code] \in PS!Call
           /\ [k EXCEPT !.row = r, !.code = code, !.says = says] \in PS!Call
BY DEF PS!Call

LEMMA CardCallWithEmail ==
    ASSUME NEW k \in PS!Call, NEW a \in Addresses, NEW p \in Plans
    PROVE  [k EXCEPT !.email = a, !.plan = p] \in PS!Call
BY DEF PS!Call

LEMMA CardCallWithRef ==
    ASSUME NEW k \in PS!Call, NEW ref \in Refs, NEW says \in PS!NoticeTypes
    PROVE  [k EXCEPT !.ref = ref, !.says = says] \in PS!Call
BY DEF PS!Call

(* A step that is a matter of one call alone, or takes events to it.       *)
LEMMA CardOwnStepKeeps ==
    ASSUME CardInv, NEW c \in Callers, NEW k \in PS!Call \cup {PS!NoCall},
           CardKeepsOK(k),
           call' = [call EXCEPT ![c] = k],
           UNCHANGED <<PS!tableVars, charges, remote, PS!addressVars>>,
           hooks' \subseteq hooks, mishaps' \in 0..MaxMishaps
    PROVE  CardKept
<1>1. /\ UNCHANGED <<now, plans, subs, linked, payments, notices>>
      /\ UNCHANGED <<charges, remote, email, held, moves>>
  BY DEF PS!tableVars, PS!addressVars
<1>2. PS!TypeOK'
  BY <1>1, CardCallMoves DEF CardInv, PS!TypeOK, PS!TableTypeOK
<1>3. CardPaidStays /\ CardHeldOK' /\ CardOwnersStay /\ Len(subs) <= Len(subs')
  BY <1>1, CardSubsStay, CardChargesStay, LenProperties
     DEF CardInv, PS!TypeOK, PS!TableTypeOK
<1>4. CardRowsOK' /\ PS!LinkedToOwnRow' /\ PS!NoMoneyWithoutSubscription' /\ CardRemoteOK'
  BY <1>1
     DEF CardInv, CardRowsOK, CardRowOK, CardOwnCode, CardPaidBy,
         CardPaidFrom, PS!LinkedToOwnRow,
              PS!RowsOf, PS!NoMoneyWithoutSubscription, CardRemoteOK
<1>5. CardHooksOK'
  BY <1>1 DEF CardInv, CardHooksOK, CardHookOK, CardPaidFrom
<1>6. CardCallOK(c)'
  <2>1. call'[c] = k
    BY CardCallMoves DEF CardInv
  <2> QED
    BY <1>1, <2>1
       DEF CardCallOK, CardKeepsOK, CardPaidBy, CardPaidFrom, CardBilledTo,
           PS!RowsOf,
                      CardOwnCode
<1> QED
  BY <1>1, <1>2, <1>3, <1>4, <1>5, <1>6, CardCallMoves, CardKeeps
     DEF CardInv, CardChargesPay

---------------------------------------------------------------------------
(* Calls begin *)

LEMMA CardRowIsRow ==
    ASSUME PS!TypeOK, NEW r \in 1..Len(subs)
    PROVE  /\ subs[r] \in PS!Row /\ subs \in Seq(PS!Row)
           /\ r \in Nat /\ r # 0 /\ Len(subs) \in Nat
BY ElementOfSeq, LenProperties DEF PS!TypeOK, PS!TableTypeOK

LEMMA CardSubsDomain ==
    ASSUME PS!TypeOK
    PROVE  DOMAIN subs = 1..Len(subs)
BY LenProperties DEF PS!TypeOK, PS!TableTypeOK

LEMMA CardStartTrialKeeps ==
    ASSUME CardInv, NEW c \in Callers, NEW u \in Users, NEW p \in Plans,
           PS!StartTrial(c, u, p)
    PROVE  CardKept
<1> DEFINE k == [PS!NewCall("trialActive", u) EXCEPT !.plan = p]
<1>1. call' = [call EXCEPT ![c] = k]
      /\ UNCHANGED <<PS!tableVars, charges, remote, hooks, mishaps,
                     PS!addressVars>>
  BY DEF PS!StartTrial, PS!Begins
<1>2. k \in PS!Call /\ k.pc = "trialActive" /\ k.plan = p
  BY CardNewCallIsCall DEF PS!Call, PS!CallPC
<1>3. CardKeepsOK(k)
  <2> HIDE DEF k
  <2> QED
    BY <1>2 DEF CardKeepsOK, CardCharging, CardHolding
<1> QED
  BY <1>1, <1>2, <1>3, CardOwnStepKeeps DEF CardInv, PS!TypeOK

LEMMA CardChargeCardKeeps ==
    ASSUME CardInv, NEW c \in Callers, NEW u \in Users, NEW p \in Plans,
           PS!ChargeCard(c, u, p)
    PROVE  CardKept
<1>1. PICK a \in Addresses : a = email[u] /\ <<u, a>> \in held
  BY DEF CardInv, PS!TypeOK, CardHeldOK
<1> DEFINE k == [PS!NewCall("chargeRow", u) EXCEPT !.email = a, !.plan = p]
<1>2. call' = [call EXCEPT ![c] = k]
      /\ UNCHANGED <<PS!tableVars, charges, remote, hooks, mishaps, PS!addressVars>>
  BY <1>1 DEF PS!ChargeCard, PS!Begins
<1>3. /\ k \in PS!Call /\ k.pc = "chargeRow" /\ k.plan = p
      /\ k.user = u /\ k.email = a
  <2>1. PS!NewCall("chargeRow", u) \in PS!Call
    BY CardNewCallIsCall DEF PS!CallPC
  <2>2. k \in PS!Call
    BY <2>1, CardCallWithEmail, Zenon
  <2> QED
    BY <2>2 DEF PS!NewCall
<1>4. CardKeepsOK(k)
  <2> HIDE DEF k
  <2> QED
    BY <1>1, <1>3 DEF CardKeepsOK, CardCharging, CardHolding
<1> QED
  BY <1>2, <1>3, <1>4, CardOwnStepKeeps DEF CardInv, PS!TypeOK

LEMMA CardStatusKeeps ==
    ASSUME CardInv, NEW c \in Callers, NEW u \in Users, PS!Status(c, u)
    PROVE  CardKept
<1>1. PICK r \in PS!ActiveRows(u) :
         call' = [call EXCEPT ![c] = [PS!NewCall("statusWrite", u) EXCEPT !.row = r]]
  BY DEF PS!Status, PS!Begins
<1> DEFINE k == [PS!NewCall("statusWrite", u) EXCEPT !.row = r]
<1>2. r \in PS!RowsOf(u) /\ r \in Nat
  BY CardRowIsRow DEF PS!ActiveRows, PS!RowsOf, CardInv
<1>3. k \in PS!Call /\ k.pc = "statusWrite" /\ k.user = u /\ k.row = r
  BY <1>2, CardNewCallIsCall DEF PS!Call, PS!CallPC
<1>4. CardKeepsOK(k)
  <2> HIDE DEF k
  <2> QED
    BY <1>2, <1>3 DEF CardKeepsOK, CardCharging, CardHolding, CardWithPlan
<1>5. UNCHANGED <<PS!tableVars, charges, remote, hooks, mishaps,
                  PS!addressVars>>
  BY DEF PS!Status
<1> QED
  BY <1>1, <1>3, <1>4, <1>5, CardOwnStepKeeps DEF CardInv, PS!TypeOK

LEMMA CardCancelKeeps ==
    ASSUME CardInv, NEW c \in Callers, NEW u \in Users, PS!Cancel(c, u)
    PROVE  CardKept
<1>1. PICK r \in PS!ActiveRows(u) :
         call' = [call EXCEPT ![c] =
                     [PS!NewCall("disable", u) EXCEPT
                         !.row = r, !.code = subs[r].paystackSubId,
                         !.says = "CANCELLED"]]
  BY DEF PS!Cancel, PS!Begins
<1> DEFINE k == [PS!NewCall("disable", u) EXCEPT
                    !.row = r, !.code = subs[r].paystackSubId,
                    !.says = "CANCELLED"]
<1>2. r \in PS!RowsOf(u) /\ r \in Nat /\ subs[r].paystackSubId \in PS!Code
  BY CardRowIsRow DEF PS!ActiveRows, PS!RowsOf, CardInv, PS!Row
<1>3. k \in PS!Call /\ k.pc = "disable" /\ k.user = u /\ k.row = r
  <2>1. PS!NewCall("disable", u) \in PS!Call
    BY CardNewCallIsCall DEF PS!CallPC
  <2>2. k \in PS!Call
    BY <1>2, <2>1, CardCallWithCode, Zenon DEF PS!NoticeTypes
  <2> QED
    BY <2>2 DEF PS!NewCall
<1>4. CardKeepsOK(k)
  <2> HIDE DEF k
  <2> QED
    BY <1>2, <1>3 DEF CardKeepsOK, CardCharging, CardHolding, CardWithPlan
<1>5. UNCHANGED <<PS!tableVars, charges, remote, hooks, mishaps,
                  PS!addressVars>>
  BY DEF PS!Cancel
<1> QED
  BY <1>1, <1>3, <1>4, <1>5, CardOwnStepKeeps, Zenon DEF CardInv, PS!TypeOK

(* A webhook event is taken; there may be nobody and no row for it.        *)
LEMMA CardTakeMoves ==
    ASSUME CardInv, NEW h, PS!Take(h)
    PROVE  hooks' \subseteq hooks /\ mishaps' \in 0..MaxMishaps
BY CardConstants DEF PS!Take, PS!Mishap, CardInv, PS!TypeOK

LEMMA CardIgnoresKeeps ==
    ASSUME CardInv, NEW c \in Callers, NEW h, PS!Take(h), PS!Ignores(c),
           UNCHANGED <<PS!tableVars, charges, remote, PS!addressVars>>
    PROVE  CardKept
<1>1. call' = [call EXCEPT ![c] = PS!NoCall]
  BY DEF PS!Ignores, CardInv, PS!TypeOK
<1> QED
  BY <1>1, CardTakeMoves, CardNoCallIsOK, CardOwnStepKeeps

LEMMA CardSubscriptionCreateKeeps ==
    ASSUME CardInv, NEW c \in Callers, NEW h \in hooks,
           PS!HandleSubscriptionCreate(c, h)
    PROVE  CardKept
<1>1. h.event = "create" /\ h \in PS!Hook /\ h.code \in PS!Code
  BY DEF PS!HandleSubscriptionCreate, CardInv, PS!TypeOK, PS!Hook
<1>2. PS!Take(h) /\ UNCHANGED <<PS!tableVars, charges, remote, PS!addressVars>>
  BY DEF PS!HandleSubscriptionCreate
<1>3. CASE PS!Ignores(c)
  BY <1>2, <1>3, CardIgnoresKeeps
<1>4. CASE ~PS!Ignores(c)
  <2>1. PICK u \in PS!Customers(h.code.email) :
           PS!Begins(c, [PS!NewCall("createRow", u) EXCEPT !.code = h.code])
    BY <1>4 DEF PS!HandleSubscriptionCreate
  <2> DEFINE k == [PS!NewCall("createRow", u) EXCEPT !.code = h.code]
  <2>2. u \in Users /\ CardOwnCode(h.code, u)
    BY DEF PS!Customers, CardOwnCode, CardInv, CardHeldOK
  <2>3. k \in PS!Call /\ k.pc = "createRow" /\ k.user = u /\ k.code = h.code
    BY <1>1, <2>2, CardNewCallIsCall DEF PS!Call, PS!CallPC
  <2>4. call' = [call EXCEPT ![c] = k]
    BY <2>1 DEF PS!Begins
  <2> HIDE DEF k
  <2>5. CardKeepsOK(k)
    BY <2>2, <2>3 DEF CardKeepsOK, CardCharging, CardHolding, CardWithPlan
  <2> QED
    BY <1>2, <2>3, <2>4, <2>5, CardTakeMoves, CardOwnStepKeeps
<1> QED
  BY <1>3, <1>4

LEMMA CardPeriodEndIsDate ==
    ASSUME PS!TypeOK, NEW p \in Plans
    PROVE  PS!PeriodEnd(p) \in PS!Date
<1>1. PlanCount[p] \in Nat /\ MonthDays \in Nat /\ now \in Nat
  BY CardConstants DEF PS!TypeOK, PS!TableTypeOK
<1>2. \A d \in Nat : PS!Or(PlanCount[p], d) \in Nat
  BY <1>1 DEF PS!Or
<1>3. PS!PeriodMonths(p) \in Nat
  BY <1>2 DEF PS!PeriodMonths
<1> QED
  BY <1>1, <1>3 DEF PS!PeriodEnd, PS!Date

LEMMA CardChargeSuccessKeeps ==
    ASSUME CardInv, NEW c \in Callers, NEW h \in hooks,
           PS!HandleChargeSuccess(c, h)
    PROVE  CardKept
<1>1. CardPaidFrom(h.ref, charges[h.ref].email) /\ h.ref \in Refs
  BY DEF PS!HandleChargeSuccess, CardInv, CardHooksOK, CardHookOK, CardPaidFrom
<1>2. PS!Take(h) /\ UNCHANGED <<PS!tableVars, charges, remote, PS!addressVars>>
  BY DEF PS!HandleChargeSuccess
<1>3. CASE PS!Ignores(c)
  BY <1>2, <1>3, CardIgnoresKeeps
<1>4. CASE ~PS!Ignores(c)
  <2>1. PICK u \in PS!Renewed(h.ref) :
           PS!Begins(c, [PS!NewCall("successRow", u) EXCEPT
                         !.ref = h.ref, !.says = "RENEWED"])
    BY <1>4 DEF PS!HandleChargeSuccess
  <2> DEFINE k == [PS!NewCall("successRow", u) EXCEPT
                      !.ref = h.ref, !.says = "RENEWED"]
  <2>2. u \in Users /\ CardBilledTo(h.ref, u)
    BY <1>1 DEF PS!Renewed, PS!Customers, CardBilledTo, CardInv, CardHeldOK
  <2>3. k \in PS!Call /\ k.pc = "successRow" /\ k.user = u /\ k.ref = h.ref
    <3>1. PS!NewCall("successRow", u) \in PS!Call
      BY <2>2, CardNewCallIsCall DEF PS!CallPC
    <3>2. k \in PS!Call
      BY <1>1, <3>1, CardCallWithRef, Zenon DEF PS!NoticeTypes
    <3> QED
      BY <3>2 DEF PS!NewCall
  <2>4. call' = [call EXCEPT ![c] = k]
    BY <2>1 DEF PS!Begins
  <2> HIDE DEF k
  <2>5. CardKeepsOK(k)
    BY <2>2, <2>3 DEF CardKeepsOK, CardCharging, CardHolding, CardWithPlan
  <2> QED
    BY <1>2, <2>3, <2>4, <2>5, CardTakeMoves, CardOwnStepKeeps
<1> QED
  BY <1>3, <1>4

LEMMA CardSubscriptionDisableKeeps ==
    ASSUME CardInv, NEW c \in Callers, NEW h \in hooks,
           PS!HandleSubscriptionDisable(c, h)
    PROVE  CardKept
<1>1. PS!Take(h) /\ UNCHANGED <<PS!tableVars, charges, remote, PS!addressVars>>
  BY DEF PS!HandleSubscriptionDisable
<1>2. CASE PS!Ignores(c)
  BY <1>1, <1>2, CardIgnoresKeeps
<1>3. CASE ~PS!Ignores(c)
  <2>1. PICK r \in DOMAIN subs :
           PS!Begins(c, [PS!NewCall("disableWrite", subs[r].userId) EXCEPT !.row = r])
    BY <1>3 DEF PS!HandleSubscriptionDisable, PS!FindFirst
  <2>2. r \in 1..Len(subs) /\ r \in Nat /\ subs[r].userId \in Users
    BY <2>1, CardRowIsRow, CardSubsDomain DEF CardInv, PS!Row
  <2>3. PICK u \in Users : u = subs[r].userId
    BY <2>2
  <2> DEFINE k == [PS!NewCall("disableWrite", u) EXCEPT !.row = r]
  <2>4. k \in PS!Call /\ k.pc = "disableWrite" /\ k.row = r
    BY <2>2, CardNewCallIsCall DEF PS!Call, PS!CallPC
  <2>5. call' = [call EXCEPT ![c] = k]
    BY <2>1, <2>3 DEF PS!Begins
  <2> HIDE DEF k
  <2>6. CardKeepsOK(k)
    BY <2>2, <2>4 DEF CardKeepsOK, CardCharging, CardHolding, CardWithPlan
  <2> QED
    BY <1>1, <2>4, <2>5, <2>6, CardTakeMoves, CardOwnStepKeeps
<1> QED
  BY <1>2, <1>3

---------------------------------------------------------------------------
(* Calls go on *)

LEMMA CardGoesOn ==
    ASSUME PS!TypeOK, NEW c \in Callers, call[c].pc # "idle",
           NEW pc \in PS!CallPC
    PROVE  /\ PS!Goto(c, pc) =>
                 call' = [call EXCEPT ![c] = [call[c] EXCEPT !.pc = pc]]
           /\ [call[c] EXCEPT !.pc = pc] \in PS!Call
<1>1. call[c] \in PS!Call /\ call \in [Callers -> PS!Call \cup {PS!NoCall}]
  BY CardCallTypes DEF PS!TypeOK
<1>2. [call[c] EXCEPT !.pc = pc] \in PS!Call
  BY <1>1 DEF PS!Call
<1> QED
  BY <1>1, <1>2, Zenon DEF PS!Goto

LEMMA CardGoesOnWithRow ==
    ASSUME PS!TypeOK, NEW c \in Callers, call[c].pc # "idle",
           NEW pc \in PS!CallPC,
           NEW r \in Nat,
           call' = [call EXCEPT ![c].pc = pc, ![c].row = r]
    PROVE  /\ call' = [call EXCEPT ![c] = [call[c] EXCEPT !.pc = pc, !.row = r]]
           /\ [call[c] EXCEPT !.pc = pc, !.row = r] \in PS!Call
<1>1. call[c] \in PS!Call /\ call \in [Callers -> PS!Call \cup {PS!NoCall}]
  BY CardCallTypes DEF PS!TypeOK
<1>2. [call[c] EXCEPT !.pc = pc, !.row = r] \in PS!Call
  BY <1>1 DEF PS!Call
<1> QED
  BY <1>1, <1>2, Zenon

LEMMA CardGoesOnWithDay ==
    ASSUME PS!TypeOK, NEW c \in Callers, call[c].pc # "idle",
           NEW pc \in PS!CallPC,
           NEW day \in PS!Date,
           call' = [call EXCEPT ![c].pc = pc, ![c].day = day]
    PROVE  /\ call' = [call EXCEPT ![c] = [call[c] EXCEPT !.pc = pc, !.day = day]]
           /\ [call[c] EXCEPT !.pc = pc, !.day = day] \in PS!Call
<1>1. call[c] \in PS!Call /\ call \in [Callers -> PS!Call \cup {PS!NoCall}]
  BY CardCallTypes DEF PS!TypeOK
<1>2. [call[c] EXCEPT !.pc = pc, !.day = day] \in PS!Call
  BY <1>1 DEF PS!Call
<1> QED
  BY <1>1, <1>2, Zenon

LEMMA CardGoesOnWithCode ==
    ASSUME PS!TypeOK, NEW c \in Callers, call[c].pc # "idle",
           NEW pc \in PS!CallPC,
           NEW code \in PS!Code,
           call' = [call EXCEPT ![c].pc = pc, ![c].code = code]
    PROVE  /\ call' = [call EXCEPT ![c] = [call[c] EXCEPT !.pc = pc, !.code = code]]
           /\ [call[c] EXCEPT !.pc = pc, !.code = code] \in PS!Call
<1>1. call[c] \in PS!Call /\ call \in [Callers -> PS!Call \cup {PS!NoCall}]
  BY CardCallTypes DEF PS!TypeOK
<1>2. [call[c] EXCEPT !.pc = pc, !.code = code] \in PS!Call
  BY <1>1 DEF PS!Call
<1> QED
  BY <1>1, <1>2, Zenon

LEMMA CardGoesOnWithCharge ==
    ASSUME PS!TypeOK, NEW c \in Callers, call[c].pc # "idle",
           NEW pc \in PS!CallPC,
           NEW ref \in Refs, NEW day \in PS!Date,
           call' = [call EXCEPT ![c].pc = pc, ![c].ref = ref, ![c].day = day]
    PROVE  /\ call' = [call EXCEPT ![c] =
                          [call[c] EXCEPT !.pc = pc, !.ref = ref, !.day = day]]
           /\ [call[c] EXCEPT !.pc = pc, !.ref = ref, !.day = day] \in PS!Call
<1>1. call[c] \in PS!Call /\ call \in [Callers -> PS!Call \cup {PS!NoCall}]
  BY CardCallTypes DEF PS!TypeOK
<1>2. [call[c] EXCEPT !.pc = pc, !.ref = ref, !.day = day] \in PS!Call
  BY <1>1 DEF PS!Call
<1> QED
  BY <1>1, <1>2, Zenon

LEMMA CardGoesOnWithRowAndDay ==
    ASSUME PS!TypeOK, NEW c \in Callers, call[c].pc # "idle",
           NEW pc \in PS!CallPC,
           NEW r \in Nat, NEW day \in PS!Date,
           call' = [call EXCEPT ![c].pc = pc, ![c].row = r, ![c].day = day]
    PROVE  /\ call' = [call EXCEPT ![c] =
                          [call[c] EXCEPT !.pc = pc, !.row = r, !.day = day]]
           /\ [call[c] EXCEPT !.pc = pc, !.row = r, !.day = day] \in PS!Call
<1>1. call[c] \in PS!Call /\ call \in [Callers -> PS!Call \cup {PS!NoCall}]
  BY CardCallTypes DEF PS!TypeOK
<1>2. [call[c] EXCEPT !.pc = pc, !.row = r, !.day = day] \in PS!Call
  BY <1>1 DEF PS!Call
<1> QED
  BY <1>1, <1>2, Zenon

LEMMA CardTrialActiveKeeps ==
    ASSUME CardInv, NEW c \in Callers, PS!TrialActive(c)
    PROVE  CardKept
<1>1. /\ call[c].pc = "trialActive"
      /\ UNCHANGED <<PS!tableVars, charges, remote, hooks, mishaps,
                     PS!addressVars>>
  BY DEF PS!TrialActive, PS!At
<1>2. CASE PS!Finish(c)
  BY <1>1, <1>2, CardNoCallIsOK, CardOwnStepKeeps
     DEF PS!Finish, CardInv, PS!TypeOK
<1>3. CASE ~PS!Finish(c)
  <2>1. PICK r \in PS!FindFirst(PS!ActiveRows(call[c].user)) :
           call' = [call EXCEPT ![c].pc = "trialCreate", ![c].row = r]
    BY <1>3 DEF PS!TrialActive
  <2>2. r = 0 \/ r \in PS!RowsOf(call[c].user)
    BY DEF PS!FindFirst, PS!ActiveRows
  <2>3. r \in Nat
    BY <2>2, CardRowIsRow DEF PS!RowsOf, CardInv
  <2> DEFINE k == [call[c] EXCEPT !.pc = "trialCreate", !.row = r]
  <2>4. call' = [call EXCEPT ![c] = k] /\ k \in PS!Call
    BY <1>1, <2>1, <2>3, CardGoesOnWithRow DEF CardInv, PS!CallPC
  <2>5. /\ k.pc = "trialCreate" /\ k.row = r
        /\ k.user = call[c].user /\ k.plan = call[c].plan
    BY <1>1, CardCallTypes DEF CardInv, PS!Call
  <2>6. call[c].plan \in Plans
    BY <1>1 DEF CardInv, CardCallOK, CardKeepsOK, CardWithPlan
  <2> HIDE DEF k
  <2>7. CardKeepsOK(k)
    BY <2>2, <2>5, <2>6 DEF CardKeepsOK, CardCharging, CardHolding
  <2> QED
    BY <1>1, <2>4, <2>7, CardOwnStepKeeps DEF CardInv, PS!TypeOK
<1> QED
  BY <1>2, <1>3

LEMMA CardVerifyKeeps ==
    ASSUME CardInv, NEW c \in Callers, PS!Verify(c)
    PROVE  CardKept
<1>1. /\ call[c].pc = "verify"
      /\ call' = [call EXCEPT ![c].pc = "subscribe",
                              ![c].day = PS!PeriodEnd(call[c].plan)]
      /\ UNCHANGED <<PS!tableVars, charges, remote, hooks, mishaps,
                     PS!addressVars>>
  BY DEF PS!Verify, PS!At
<1>2. /\ call[c].plan \in Plans /\ CardPaidBy(call[c].ref, call[c].user)
      /\ charges[call[c].ref].plan = call[c].plan
  BY <1>1 DEF CardInv, CardCallOK, CardKeepsOK, CardWithPlan, CardCharging
<1>3. PS!PeriodEnd(call[c].plan) \in PS!Date
  BY <1>2, CardPeriodEndIsDate DEF CardInv
<1> DEFINE k == [call[c] EXCEPT !.pc = "subscribe", !.day = PS!PeriodEnd(call[c].plan)]
<1>4. call' = [call EXCEPT ![c] = k] /\ k \in PS!Call
  BY <1>1, <1>3, CardGoesOnWithDay DEF CardInv, PS!CallPC
<1>5. /\ k.pc = "subscribe" /\ k.user = call[c].user
      /\ k.plan = call[c].plan /\ k.ref = call[c].ref
  BY <1>1, CardCallTypes DEF CardInv, PS!Call
<1> HIDE DEF k
<1>6. CardKeepsOK(k)
  BY <1>2, <1>5 DEF CardKeepsOK, CardHolding
<1> QED
  BY <1>1, <1>4, <1>6, CardOwnStepKeeps DEF CardInv, PS!TypeOK

LEMMA CardFindKeeps ==
    ASSUME CardInv, NEW c \in Callers, PS!Find(c)
    PROVE  CardKept
<1>1. /\ call[c].pc = "find"
      /\ UNCHANGED <<PS!tableVars, charges, remote, hooks, mishaps,
                     PS!addressVars>>
  BY DEF PS!Find, PS!At
<1>2. PICK r \in PS!FindFirst(PS!RowsToPay(call[c].user, call[c].plan)) :
         call' = [call EXCEPT ![c].pc = "write", ![c].row = r]
  BY DEF PS!Find
<1>3. r = 0 \/ r \in PS!RowsOf(call[c].user)
  BY DEF PS!FindFirst, PS!RowsToPay
<1>4. r \in Nat
  BY <1>3, CardRowIsRow DEF PS!RowsOf, CardInv
<1>5. /\ call[c].plan \in Plans /\ CardPaidBy(call[c].ref, call[c].user)
      /\ charges[call[c].ref].plan = call[c].plan
      /\ CardOwnCode(call[c].code, call[c].user)
  BY <1>1 DEF CardInv, CardCallOK, CardKeepsOK, CardWithPlan, CardCharging
<1> DEFINE k == [call[c] EXCEPT !.pc = "write", !.row = r]
<1>6. call' = [call EXCEPT ![c] = k] /\ k \in PS!Call
  BY <1>1, <1>2, <1>4, CardGoesOnWithRow DEF CardInv, PS!CallPC
<1>7. /\ k.pc = "write" /\ k.row = r /\ k.user = call[c].user
      /\ k.plan = call[c].plan /\ k.ref = call[c].ref /\ k.code = call[c].code
  BY <1>1, CardCallTypes DEF CardInv, PS!Call
<1> HIDE DEF k
<1>8. CardKeepsOK(k)
  BY <1>3, <1>5, <1>7 DEF CardKeepsOK, CardHolding
<1> QED
  BY <1>1, <1>6, <1>8, CardOwnStepKeeps DEF CardInv, PS!TypeOK

LEMMA CardChargeRowKeeps ==
    ASSUME CardInv, NEW c \in Callers, PS!ChargeRow(c)
    PROVE  CardKept
<1>1. /\ call[c].pc = "chargeRow"
      /\ UNCHANGED <<PS!tableVars, charges, remote, hooks, mishaps, PS!addressVars>>
      /\ PS!Goto(c, "charge") \/ PS!Finish(c)
  BY DEF PS!ChargeRow, PS!At
<1>2. CASE PS!Finish(c)
  BY <1>1, <1>2, CardNoCallIsOK, CardOwnStepKeeps
     DEF PS!Finish, CardInv, PS!TypeOK
<1>3. CASE PS!Goto(c, "charge")
  <2>1. /\ call[c] \in PS!Call /\ call[c].plan \in Plans
        /\ call[c].email \in Addresses
        /\ <<call[c].user, call[c].email>> \in held
    BY <1>1, CardCallTypes DEF CardInv, CardCallOK, CardKeepsOK, CardWithPlan
  <2> DEFINE k == [call[c] EXCEPT !.pc = "charge"]
  <2>2. call' = [call EXCEPT ![c] = k] /\ k \in PS!Call
    BY <1>1, <1>3, CardGoesOn DEF CardInv, PS!CallPC
  <2>3. /\ k.pc = "charge" /\ k.user = call[c].user
        /\ k.plan = call[c].plan /\ k.email = call[c].email
    BY <2>1 DEF PS!Call
  <2> HIDE DEF k
  <2>4. CardKeepsOK(k)
    BY <2>1, <2>3 DEF CardKeepsOK, CardCharging, CardHolding
  <2> QED
    BY <1>1, <2>2, <2>4, CardOwnStepKeeps DEF CardInv, PS!TypeOK
<1> QED
  BY <1>1, <1>2, <1>3

LEMMA CardCreateRowKeeps ==
    ASSUME CardInv, NEW c \in Callers, PS!CreateRow(c)
    PROVE  CardKept
<1>1. /\ call[c].pc = "createRow"
      /\ UNCHANGED <<PS!tableVars, charges, remote, hooks, mishaps, PS!addressVars>>
  BY DEF PS!CreateRow, PS!At
<1>2. CASE PS!Finish(c)
  BY <1>1, <1>2, CardNoCallIsOK, CardOwnStepKeeps
     DEF PS!Finish, CardInv, PS!TypeOK
<1>3. CASE ~PS!Finish(c)
  <2>1. PICK r \in PS!ActiveRows(call[c].user) :
           call' = [call EXCEPT ![c].pc = "codeWrite", ![c].row = r]
    BY <1>3 DEF PS!CreateRow, PS!Chooses, PS!FindFirst
  <2>2. r \in PS!RowsOf(call[c].user) /\ r \in Nat
    BY CardRowIsRow DEF PS!ActiveRows, PS!RowsOf, CardInv
  <2>3. call[c] \in PS!Call /\ CardOwnCode(call[c].code, call[c].user)
    BY <1>1, CardCallTypes DEF CardInv, CardCallOK, CardKeepsOK
  <2> DEFINE k == [call[c] EXCEPT !.pc = "codeWrite", !.row = r]
  <2>4. call' = [call EXCEPT ![c] = k] /\ k \in PS!Call
    BY <1>1, <2>1, <2>2, CardGoesOnWithRow DEF CardInv, PS!CallPC
  <2>5. /\ k.pc = "codeWrite" /\ k.row = r
        /\ k.user = call[c].user /\ k.code = call[c].code
    BY <2>3 DEF PS!Call
  <2> HIDE DEF k
  <2>6. CardKeepsOK(k)
    BY <2>2, <2>3, <2>5
       DEF CardKeepsOK, CardWithPlan, CardCharging, CardHolding
  <2> QED
    BY <1>1, <2>4, <2>6, CardOwnStepKeeps DEF CardInv, PS!TypeOK
<1> QED
  BY <1>2, <1>3

LEMMA CardSuccessRowKeeps ==
    ASSUME CardInv, NEW c \in Callers, PS!SuccessRow(c)
    PROVE  CardKept
<1>1. /\ call[c].pc = "successRow"
      /\ UNCHANGED <<PS!tableVars, charges, remote, hooks, mishaps, PS!addressVars>>
  BY DEF PS!SuccessRow, PS!At
<1>2. CASE PS!Finish(c)
  BY <1>1, <1>2, CardNoCallIsOK, CardOwnStepKeeps
     DEF PS!Finish, CardInv, PS!TypeOK
<1>3. CASE ~PS!Finish(c)
  <2>1. PICK r \in PS!ActiveRows(call[c].user) :
           call' = [call EXCEPT ![c].pc = "renewWrite", ![c].row = r,
                                ![c].day = PS!PeriodEnd(subs[r].planId)]
    BY <1>3 DEF PS!SuccessRow, PS!FindFirst
  <2>2. r \in PS!RowsOf(call[c].user) /\ r \in Nat
    BY CardRowIsRow DEF PS!ActiveRows, PS!RowsOf, CardInv
  <2>3. PICK day \in PS!Date : day = PS!PeriodEnd(subs[r].planId)
    BY <2>2, CardRowIsRow, CardPeriodEndIsDate DEF PS!RowsOf, CardInv, PS!Row
  <2>4. call[c] \in PS!Call /\ CardBilledTo(call[c].ref, call[c].user)
    BY <1>1, CardCallTypes DEF CardInv, CardCallOK, CardKeepsOK
  <2> DEFINE k == [call[c] EXCEPT !.pc = "renewWrite", !.row = r, !.day = day]
  <2>5. call' = [call EXCEPT ![c] = k] /\ k \in PS!Call
    <3>1. call' = [call EXCEPT ![c].pc = "renewWrite", ![c].row = r,
                               ![c].day = day]
      BY <2>1, <2>3
    <3> QED
      BY <1>1, <2>2, <3>1, CardGoesOnWithRowAndDay DEF CardInv, PS!CallPC
  <2>6. /\ k.pc = "renewWrite" /\ k.row = r
        /\ k.user = call[c].user /\ k.ref = call[c].ref
    BY <2>4 DEF PS!Call
  <2> HIDE DEF k
  <2>7. CardKeepsOK(k)
    BY <2>2, <2>4, <2>6
       DEF CardKeepsOK, CardWithPlan, CardCharging, CardHolding
  <2> QED
    BY <1>1, <2>5, <2>7, CardOwnStepKeeps DEF CardInv, PS!TypeOK
<1> QED
  BY <1>2, <1>3

LEMMA CardCrashKeeps ==
    ASSUME CardInv, NEW c \in Callers, PS!Crash(c)
    PROVE  CardKept
<1>1. mishaps' \in 0..MaxMishaps
  BY CardConstants DEF PS!Crash, PS!Mishap, CardInv, PS!TypeOK
<1> QED
  BY <1>1, CardNoCallIsOK, CardOwnStepKeeps DEF PS!Crash, PS!Finish

---------------------------------------------------------------------------
(* Paystack *)

LEMMA CardRowStaysOK ==
    ASSUME CardPaidStays, NEW row, CardRowOK(row)
    PROVE  CardRowOK(row)'
<1>1. ASSUME NEW ref \in Refs, CardPaidBy(ref, row.userId),
             charges[ref].plan = row.planId
      PROVE  CardPaidBy(ref, row.userId)' /\ charges'[ref].plan = row.planId
  BY <1>1, CardPaidByStays
<1>2. CardOwnCode(row.paystackSubId, row.userId)'
  BY CardOwnCodeStays DEF CardRowOK
<1> QED
  BY <1>1, <1>2 DEF CardRowOK

(* A step that leaves the table alone, whatever Paystack does meanwhile.   *)
LEMMA CardTableStays ==
    ASSUME CardInv, CardPaidStays, UNCHANGED <<subs, linked, payments,
           notices>>
    PROVE  CardRowsOK' /\ PS!LinkedToOwnRow' /\ PS!NoMoneyWithoutSubscription'
<1>1. \A u : PS!RowsOf(u)' = PS!RowsOf(u)
  BY CardSubsStay
<1>2. CardRowsOK'
  BY CardRowStaysOK DEF CardInv, CardRowsOK
<1>3. PS!LinkedToOwnRow'
  BY <1>1 DEF CardInv, PS!LinkedToOwnRow
<1>4. PS!NoMoneyWithoutSubscription'
  BY <1>1 DEF CardInv, PS!NoMoneyWithoutSubscription
<1> QED
  BY <1>2, <1>3, <1>4

LEMMA CardHookStaysOK ==
    ASSUME CardPaidStays, NEW h, CardHookOK(h)
    PROVE  CardHookOK(h)'
<1>1. h.event = "success" => charges'[h.ref] = charges[h.ref]
  BY CardPaidFromStays DEF CardHookOK
<1> QED
  BY <1>1 DEF CardHookOK, CardPaidFrom

LEMMA CardRemoteStaysOK ==
    ASSUME CardInv, CardPaidStays, NEW k \in remote
    PROVE  k \in CardRemoteKey /\ CardPaidFrom(k.ref, k.email)'
BY CardPaidFromStays DEF CardInv, CardRemoteOK

LEMMA CardRemoteCodeTypes ==
    ASSUME NEW a \in Addresses, NEW ref \in Refs
    PROVE  /\ PS!RemoteCode(a, ref) \in CardRemoteKey
           /\ PS!RemoteCode(a, ref) \in PS!Code
           /\ PS!RemoteCode(a, ref).email = a /\ PS!RemoteCode(a, ref).ref = ref
           /\ [event |-> "success", ref |-> ref] \in PS!Hook
           /\ [event |-> "create", code |-> PS!RemoteCode(a, ref)] \in PS!Hook
BY DEF PS!RemoteCode, CardRemoteKey, PS!Code, PS!Hook

(* A charge that was not settled before is: Paystack's books stay in order.*)
LEMMA CardChargeSettles ==
    ASSUME CardInv, NEW ref \in Refs,
           charges[ref] = None \/ charges[ref].state # "paid",
           NEW charge \in PS!Charge, <<charge.user, charge.email>> \in held,
           charges' = [charges EXCEPT ![ref] = charge], UNCHANGED PS!addressVars
    PROVE  /\ charges' \in [Refs -> PS!Charge \cup {None}]
           /\ CardPaidStays /\ CardHeldOK'
           /\ charge.state = "paid" =>
                 /\ CardPaidBy(ref, charge.user)' /\ CardPaidFrom(ref, charge.email)'
                 /\ charges'[ref].plan = charge.plan
<1>1. charge # None /\ UNCHANGED <<email, held>>
  BY CardConstants DEF PS!addressVars
<1>2. /\ charges' \in [Refs -> PS!Charge \cup {None}]
      /\ charges'[ref] = charge
      /\ \A other \in Refs \ {ref} : charges'[other] = charges[other]
  BY DEF CardInv, PS!TypeOK
<1>3. CardHeldOK'
  BY <1>1, <1>2 DEF CardInv, CardHeldOK
<1> QED
  BY <1>1, <1>2, <1>3 DEF CardPaidStays, CardPaidBy, CardPaidFrom

LEMMA CardSettleKeeps ==
    ASSUME CardInv, NEW ref \in Refs,
           charges[ref] = None \/ charges[ref].state # "paid",
           NEW state \in {"otp", "paid", "failed"},
           NEW u \in Users, NEW a \in Addresses, NEW p \in Plans,
           <<u, a>> \in held, UNCHANGED PS!addressVars,
           PS!Settle(ref, state, u, a, p)
    PROVE  /\ charges' \in [Refs -> PS!Charge \cup {None}]
           /\ remote' \subseteq PS!Code /\ hooks' \subseteq PS!Hook
           /\ CardPaidStays /\ CardHeldOK' /\ CardRemoteOK' /\ CardHooksOK'
           /\ state = "paid" => CardPaidBy(ref, u)' /\ charges'[ref].plan = p
<1> DEFINE charge == [state |-> state, user |-> u, email |-> a, plan |-> p]
<1>1. charges' = [charges EXCEPT ![ref] = charge]
  BY DEF PS!Settle
<1>2. /\ charge \in PS!Charge
      /\ charge.state = state /\ charge.user = u
      /\ charge.email = a /\ charge.plan = p
  BY DEF PS!Charge
<1> HIDE DEF charge
<1>3. /\ charges' \in [Refs -> PS!Charge \cup {None}]
      /\ CardPaidStays /\ CardHeldOK'
      /\ state = "paid" => /\ CardPaidBy(ref, u)' /\ CardPaidFrom(ref, a)'
                           /\ charges'[ref].plan = p
  BY <1>1, <1>2, CardChargeSettles
<1> DEFINE success == [event |-> "success", ref |-> ref]
           key == PS!RemoteCode(a, ref)
           create == [event |-> "create", code |-> key]
<1>4. /\ remote' \subseteq remote \cup {key}
      /\ hooks' \subseteq hooks \cup {success, create}
      /\ state # "paid" => remote' = remote /\ hooks' = hooks
  BY DEF PS!Settle
<1>5. /\ key \in CardRemoteKey /\ key \in PS!Code /\ key.email = a /\ key.ref = ref
      /\ success \in PS!Hook /\ create \in PS!Hook
  BY CardRemoteCodeTypes
<1>6. success.event = "success" /\ success.ref = ref
  OBVIOUS
<1>7. create.event = "create"
  OBVIOUS
<1> HIDE DEF success, key, create
<1>8. CardRemoteOK'
  BY <1>3, <1>4, <1>5, CardRemoteStaysOK DEF CardRemoteOK
<1>9. state = "paid" => CardHookOK(success)' /\ CardHookOK(create)'
  BY <1>3, <1>6, <1>7 DEF CardHookOK, CardPaidFrom
<1>10. CardHooksOK'
  BY <1>3, <1>4, <1>9, CardHookStaysOK DEF CardInv, CardHooksOK
<1> QED
  BY <1>3, <1>4, <1>5, <1>8, <1>10 DEF CardInv, PS!TypeOK

(* Paystack moved, and perhaps call c with it.                             *)
LEMMA CardPaystackMoves ==
    ASSUME CardInv, UNCHANGED PS!tableVars, CardPaidStays, CardHeldOK',
           CardRemoteOK', CardHooksOK',
           charges' \in [Refs -> PS!Charge \cup {None}],
           remote' \subseteq PS!Code, hooks' \subseteq PS!Hook,
           mishaps' \in 0..MaxMishaps,
           email' \in [Users -> Addresses], moves' \in 0..MaxMoves,
           held' \subseteq Users \X Addresses,
           call' \in [Callers -> PS!Call \cup {PS!NoCall}],
           \A d \in Callers : call'[d] = call[d] \/ CardCallOK(d)'
    PROVE  CardKept
<1>1. UNCHANGED <<now, plans, subs, linked, payments, notices>>
  BY DEF PS!tableVars
<1>2. PS!TypeOK'
  BY <1>1 DEF CardInv, PS!TypeOK, PS!TableTypeOK
<1>3. CardOwnersStay /\ Len(subs) <= Len(subs')
  BY <1>1, CardSubsStay, LenProperties DEF CardInv, PS!TypeOK, PS!TableTypeOK
<1>4. CardRowsOK' /\ PS!LinkedToOwnRow' /\ PS!NoMoneyWithoutSubscription'
  BY <1>1, CardTableStays
<1> QED
  BY <1>1, <1>2, <1>3, <1>4, CardKeeps DEF CardChargesPay

LEMMA CardNewLocalsOK ==
    ASSUME NEW c \in Callers, NEW k, CardKeepsOK(k)', call'[c] = k
    PROVE  CardCallOK(c)'
BY DEF CardCallOK, CardKeepsOK

LEMMA CardNoCallIsOKThen == CardKeepsOK(PS!NoCall)'
BY DEF CardKeepsOK, PS!NoCall, CardWithPlan, CardCharging, CardHolding

LEMMA CardChargedKeeps ==
    ASSUME CardInv, NEW c \in Callers, PS!Charged(c)
    PROVE  CardKept
<1>1. call[c].pc = "charge" /\ UNCHANGED <<PS!tableVars, mishaps, PS!addressVars>>
  BY DEF PS!Charged, PS!At
<1>2. /\ call[c] \in PS!Call /\ call[c].user \in Users
      /\ call[c].plan \in Plans /\ call[c].email \in Addresses
      /\ <<call[c].user, call[c].email>> \in held
  <2>1. call[c] \in PS!Call
    BY <1>1, CardCallTypes DEF CardInv
  <2> QED
    BY <1>1, <2>1 DEF CardInv, CardCallOK, CardKeepsOK, CardWithPlan, PS!Call
<1>3. PICK u \in Users, a \in Addresses, p \in Plans :
         u = call[c].user /\ a = call[c].email /\ p = call[c].plan
  BY <1>2
<1>4. PICK ref \in PS!Unused, state \in {"paid", "otp", "failed"} :
         /\ PS!Settle(ref, state, u, a, p)
         /\ \/ /\ state = "paid"
               /\ call' = [call EXCEPT ![c].pc = "subscribe", ![c].ref = ref,
                                       ![c].day = PS!PeriodEnd(p)]
            \/ state # "paid" /\ PS!Finish(c)
  BY <1>3 DEF PS!Charged
<1>5. ref \in Refs /\ charges[ref] = None
  BY DEF PS!Unused
<1>6. /\ charges' \in [Refs -> PS!Charge \cup {None}]
      /\ remote' \subseteq PS!Code /\ hooks' \subseteq PS!Hook
      /\ CardPaidStays /\ CardHeldOK' /\ CardRemoteOK' /\ CardHooksOK'
      /\ state = "paid" => CardPaidBy(ref, u)' /\ charges'[ref].plan = p
  BY <1>1, <1>2, <1>3, <1>4, <1>5, CardSettleKeeps
<1>7. CASE state = "paid"
  <2> DEFINE k == [call[c] EXCEPT !.pc = "subscribe", !.ref = ref,
                                  !.day = PS!PeriodEnd(p)]
  <2>1. call' = [call EXCEPT ![c].pc = "subscribe", ![c].ref = ref,
                             ![c].day = PS!PeriodEnd(p)]
    BY <1>4, <1>7
  <2>2. PS!PeriodEnd(p) \in PS!Date
    BY CardPeriodEndIsDate DEF CardInv
  <2>3. call' = [call EXCEPT ![c] = k] /\ k \in PS!Call
    BY <1>1, <1>5, <2>1, <2>2, CardGoesOnWithCharge DEF CardInv, PS!CallPC
  <2>4. k.pc = "subscribe" /\ k.user = u /\ k.plan = p /\ k.ref = ref
    BY <1>2, <1>3 DEF PS!Call
  <2>5. PICK l \in PS!Call : l = k
    BY <2>3
  <2> HIDE DEF k
  <2>6. CardKeepsOK(l)'
    BY <1>6, <1>7, <2>4, <2>5 DEF CardKeepsOK, CardHolding
  <2>7. /\ call' \in [Callers -> PS!Call \cup {PS!NoCall}] /\ call'[c] = l
        /\ \A d \in Callers \ {c} : call'[d] = call[d]
    BY <2>3, <2>5, CardCallMoves DEF CardInv
  <2> QED
    BY <1>1, <1>6, <2>6, <2>7, CardNewLocalsOK, CardPaystackMoves
       DEF CardInv, PS!TypeOK, PS!addressVars
<1>8. CASE state # "paid"
  <2>1. /\ call' \in [Callers -> PS!Call \cup {PS!NoCall}] /\ call'[c] = PS!NoCall
        /\ \A d \in Callers \ {c} : call'[d] = call[d]
    BY <1>4, <1>8, CardCallMoves DEF CardInv, PS!Finish
  <2>2. CardCallOK(c)'
    BY <2>1, CardNoCallIsOKThen DEF CardCallOK, CardKeepsOK
  <2> QED
    BY <1>1, <1>6, <2>1, <2>2, CardPaystackMoves
       DEF CardInv, PS!TypeOK, PS!addressVars
<1> QED
  BY <1>7, <1>8

LEMMA CardSubmitOtpKeeps ==
    ASSUME CardInv, NEW c \in Callers, NEW ref \in Refs, PS!SubmitOtp(c, ref)
    PROVE  CardKept
<1>1. /\ charges[ref] # None /\ charges[ref].state = "otp"
      /\ UNCHANGED <<PS!tableVars, mishaps, PS!addressVars>>
  BY DEF PS!SubmitOtp
<1>2. charges[ref] \in PS!Charge
  BY <1>1 DEF CardInv, PS!TypeOK
<1>3. PICK u \in Users, a \in Addresses, p \in Plans :
         /\ u = charges[ref].user /\ a = charges[ref].email
         /\ p = charges[ref].plan /\ <<u, a>> \in held
  BY <1>1, <1>2 DEF PS!Charge, CardInv, CardHeldOK
<1> DEFINE k == [PS!NewCall("verify", u) EXCEPT !.plan = p, !.ref = ref]
<1>4. CASE PS!Settle(ref, "paid", u, a, p) /\ PS!Begins(c, k)
  <2>1. /\ charges' \in [Refs -> PS!Charge \cup {None}]
        /\ remote' \subseteq PS!Code /\ hooks' \subseteq PS!Hook
        /\ CardPaidStays /\ CardHeldOK' /\ CardRemoteOK' /\ CardHooksOK'
        /\ CardPaidBy(ref, u)' /\ charges'[ref].plan = p
    BY <1>1, <1>3, <1>4, CardSettleKeeps
  <2>2. k \in PS!Call /\ k.pc = "verify" /\ k.user = u /\ k.plan = p /\ k.ref = ref
    <3>1. PICK l : l = PS!NewCall("verify", u)
      OBVIOUS
    <3>2. l \in PS!Call /\ l.pc = "verify" /\ l.user = u
      BY <3>1, CardNewCallIsCall DEF PS!CallPC
    <3> DEFINE m == [l EXCEPT !.plan = p, !.ref = ref]
    <3>3. m \in PS!Call /\ m.pc = l.pc /\ m.user = l.user /\ m.plan = p /\ m.ref = ref
      BY <3>2 DEF PS!Call
    <3>4. m = k
      BY <3>1
    <3> HIDE DEF m, k
    <3> QED
      BY <3>2, <3>3, <3>4
  <2>3. call' = [call EXCEPT ![c] = k]
    BY <1>4 DEF PS!Begins
  <2>4. PICK l \in PS!Call : l = k
    BY <2>2
  <2> HIDE DEF k
  <2>5. CardKeepsOK(l)'
    BY <2>1, <2>2, <2>4 DEF CardKeepsOK, CardHolding
  <2>6. /\ call' \in [Callers -> PS!Call \cup {PS!NoCall}] /\ call'[c] = l
        /\ \A d \in Callers \ {c} : call'[d] = call[d]
    BY <2>2, <2>3, <2>4, CardCallMoves DEF CardInv
  <2> QED
    BY <1>1, <2>1, <2>5, <2>6, CardNewLocalsOK, CardPaystackMoves
       DEF CardInv, PS!TypeOK, PS!addressVars
<1>5. CASE PS!Settle(ref, "failed", u, a, p) /\ UNCHANGED call
  <2>1. /\ charges' \in [Refs -> PS!Charge \cup {None}]
        /\ remote' \subseteq PS!Code /\ hooks' \subseteq PS!Hook
        /\ CardPaidStays /\ CardHeldOK' /\ CardRemoteOK' /\ CardHooksOK'
    BY <1>1, <1>3, <1>5, CardSettleKeeps
  <2> QED
    BY <1>1, <1>5, <2>1, CardPaystackMoves
       DEF CardInv, PS!TypeOK, PS!addressVars
<1> QED
  BY <1>3, <1>4, <1>5 DEF PS!SubmitOtp

LEMMA CardRemoteRenewsKeeps ==
    ASSUME CardInv, NEW key \in remote, PS!RemoteRenews(key)
    PROVE  CardKept
<1>1. key \in CardRemoteKey /\ CardPaidFrom(key.ref, key.email)
  BY DEF CardInv, CardRemoteOK
<1>2. PICK charge \in PS!Charge :
         /\ charge = charges[key.ref] /\ charge.state = "paid"
         /\ <<charge.user, charge.email>> \in held
  BY <1>1 DEF CardInv, PS!TypeOK, CardPaidFrom, CardHeldOK
<1>3. PICK ref \in PS!Unused :
         /\ charges' = [charges EXCEPT ![ref] = charge]
         /\ hooks' = hooks \cup {[event |-> "success", ref |-> ref]}
  BY <1>2 DEF PS!RemoteRenews
<1>4. UNCHANGED <<PS!tableVars, call, remote, mishaps, PS!addressVars>>
  BY DEF PS!RemoteRenews
<1>5. ref \in Refs /\ charges[ref] = None
  BY DEF PS!Unused
<1>6. /\ charges' \in [Refs -> PS!Charge \cup {None}]
      /\ CardPaidStays /\ CardHeldOK' /\ CardPaidFrom(ref, charge.email)'
  BY <1>2, <1>3, <1>4, <1>5, CardChargeSettles
<1>7. CardRemoteOK'
  BY <1>4, <1>6, CardRemoteStaysOK DEF CardRemoteOK
<1> DEFINE success == [event |-> "success", ref |-> ref]
<1>8. success.event = "success" /\ success.ref = ref /\ success \in PS!Hook
  BY <1>5 DEF PS!Hook
<1> HIDE DEF success
<1>9. CardHookOK(success)'
  BY <1>6, <1>8 DEF CardHookOK, CardPaidFrom
<1>10. CardHooksOK' /\ hooks' \subseteq PS!Hook
  BY <1>3, <1>6, <1>8, <1>9, CardHookStaysOK
     DEF CardHooksOK, CardInv, PS!TypeOK, success
<1> QED
  BY <1>4, <1>6, <1>7, <1>10, CardPaystackMoves
     DEF CardInv, PS!TypeOK, PS!addressVars

LEMMA CardSubscribeKeeps ==
    ASSUME CardInv, NEW c \in Callers, PS!Subscribe(c)
    PROVE  CardKept
<1>1. call[c].pc = "subscribe" /\ UNCHANGED <<PS!tableVars, charges, PS!addressVars>>
  BY DEF PS!Subscribe, PS!At
<1>2. call[c] \in PS!Call
  BY <1>1, CardCallTypes DEF CardInv
<1>3. /\ CardPaidBy(call[c].ref, call[c].user) /\ call[c].plan \in Plans
      /\ charges[call[c].ref].plan = call[c].plan
      /\ call[c].user \in Users /\ call[c].ref \in Refs
  BY <1>1, <1>2
     DEF CardInv, CardCallOK, CardKeepsOK, CardWithPlan, CardCharging,
         PS!Call, CardPaidBy
<1>4. PICK u \in Users, p \in Plans, ref \in Refs, a \in Addresses :
         /\ u = call[c].user /\ p = call[c].plan /\ ref = call[c].ref
         /\ a = charges[ref].email
  BY <1>3 DEF CardInv, PS!TypeOK, CardPaidBy, PS!Charge
<1>5. /\ CardPaidStays /\ CardPaidBy(ref, u) /\ CardPaidBy(ref, u)'
      /\ CardHeldOK' /\ <<u, a>> \in held /\ <<u, a>> \in held'
  BY <1>1, <1>3, <1>4, CardChargesStay
     DEF CardPaidBy, CardInv, CardHeldOK, CardPaidStays
<1> DEFINE key == PS!RemoteCode(a, ref)
           create == [event |-> "create", code |-> key]
           Got(code) == call' = [call EXCEPT ![c].pc = "find", ![c].code = code]
<1>6. /\ key \in CardRemoteKey /\ key \in PS!Code /\ key.email = a /\ key.ref = ref
      /\ create \in PS!Hook /\ create.event = "create" /\ create.code = key
  BY CardRemoteCodeTypes
<1>7. PICK code \in PS!Code :
         /\ Got(code) /\ CardOwnCode(code, u)
         /\ remote' \subseteq remote \cup {key}
         /\ hooks' \subseteq hooks \cup {create}
         /\ mishaps' \in 0..MaxMishaps
  <2>1. mishaps \in 0..MaxMishaps /\ (PS!Mishap => mishaps' \in 0..MaxMishaps)
    BY CardConstants DEF CardInv, PS!TypeOK, PS!Mishap
  <2>2. CASE /\ Got(key)
             /\ remote' = remote \cup {key}
             /\ hooks' = hooks \cup {create}
             /\ UNCHANGED mishaps
    BY <1>5, <1>6, <2>1, <2>2 DEF CardOwnCode
  <2>3. CASE /\ \E k \in PS!RemoteOf(a, p) : Got(k)
             /\ UNCHANGED <<remote, hooks, mishaps>>
    <3>1. \A k \in PS!RemoteOf(a, p) : k \in PS!Code /\ k.email = a
      BY DEF PS!RemoteOf, CardInv, PS!TypeOK
    <3> QED
      BY <1>5, <2>1, <2>3, <3>1 DEF CardOwnCode
  <2>4. CASE /\ PS!Mishap \/ UNCHANGED mishaps
             /\ Got([kind |-> "ref", email |-> a, ref |-> ref])
             /\ UNCHANGED <<remote, hooks>>
    <3>1. [kind |-> "ref", email |-> a, ref |-> ref] \in PS!Code
      BY DEF PS!Code
    <3> QED
      BY <1>5, <2>1, <2>4, <3>1 DEF CardOwnCode
  <2> QED
    BY <1>4, <2>2, <2>3, <2>4 DEF PS!Subscribe
<1> HIDE DEF key, create
<1> DEFINE k == [call[c] EXCEPT !.pc = "find", !.code = code]
<1>8. call' = [call EXCEPT ![c] = k] /\ k \in PS!Call
  BY <1>1, <1>7, CardGoesOnWithCode DEF CardInv, PS!CallPC
<1>9. k.pc = "find" /\ k.user = u /\ k.plan = p /\ k.ref = ref /\ k.code = code
  BY <1>2, <1>4 DEF PS!Call
<1>10. PICK l \in PS!Call : l = k
  BY <1>8
<1> HIDE DEF k
<1>11. CardKeepsOK(l)'
  <2>1. charges'[ref].plan = p
    BY <1>1, <1>3, <1>4
  <2> QED
    BY <1>5, <1>7, <1>9, <1>10, <2>1, CardOwnCodeStays
       DEF CardKeepsOK, CardHolding
<1>12. /\ call' \in [Callers -> PS!Call \cup {PS!NoCall}] /\ call'[c] = l
       /\ \A d \in Callers \ {c} : call'[d] = call[d]
  BY <1>8, <1>10, CardCallMoves DEF CardInv
<1>13. CardRemoteOK' /\ remote' \subseteq PS!Code
  <2>1. CardPaidFrom(ref, a)'
    BY <1>1, <1>4, <1>5 DEF CardPaidBy, CardPaidFrom
  <2> QED
    BY <2>1, <1>5, <1>6, <1>7, CardRemoteStaysOK
       DEF CardRemoteOK, CardInv, PS!TypeOK
<1>14. CardHooksOK' /\ hooks' \subseteq PS!Hook
  <2>1. CardHookOK(create)'
    BY <1>6 DEF CardHookOK
  <2> QED
    BY <1>5, <1>6, <1>7, <2>1, CardHookStaysOK
       DEF CardHooksOK, CardInv, PS!TypeOK
<1> QED
  BY <1>1, <1>5, <1>7, <1>11, <1>12, <1>13, <1>14, CardNewLocalsOK,
     CardPaystackMoves
     DEF CardInv, PS!TypeOK, PS!addressVars

LEMMA CardDisableKeeps ==
    ASSUME CardInv, NEW c \in Callers, PS!Disable(c)
    PROVE  CardKept
<1>1. call[c].pc = "disable" /\ PS!Goto(c, "cancelWrite")
      /\ UNCHANGED <<PS!tableVars, charges, PS!addressVars>>
  BY DEF PS!Disable, PS!At
<1>2. call[c] \in PS!Call
  BY <1>1, CardCallTypes DEF CardInv
<1>3. /\ call[c].row \in PS!RowsOf(call[c].user) /\ call[c].user \in Users
      /\ call[c].code \in PS!Code
  BY <1>1, <1>2 DEF CardInv, CardCallOK, CardKeepsOK, CardHolding, PS!Call
<1> PICK code \in PS!Code : code = call[c].code
  BY <1>3
<1> DEFINE k == [call[c] EXCEPT !.pc = "cancelWrite"]
           disable == [event |-> "disable", code |-> code]
<1>4. call' = [call EXCEPT ![c] = k] /\ k \in PS!Call
  BY <1>1, CardGoesOn DEF CardInv, PS!CallPC
<1>5. k.pc = "cancelWrite" /\ k.user = call[c].user /\ k.row = call[c].row
  BY <1>2 DEF PS!Call
<1>6. PICK l \in PS!Call : l = k
  BY <1>4
<1> HIDE DEF k
<1>7. l.row \in PS!RowsOf(l.user)'
  BY <1>1, <1>3, <1>5, <1>6 DEF PS!tableVars, PS!RowsOf
<1>8. CardKeepsOK(l)'
  BY <1>5, <1>6, <1>7 DEF CardKeepsOK, CardCharging, CardWithPlan
<1>9. /\ call' \in [Callers -> PS!Call \cup {PS!NoCall}] /\ call'[c] = l
      /\ \A d \in Callers \ {c} : call'[d] = call[d]
  BY <1>4, <1>6, CardCallMoves DEF CardInv
<1>10. /\ remote' \subseteq remote
       /\ hooks' \subseteq hooks \/ (/\ PS!IsRemote(code)
                                     /\ hooks' = hooks \cup {disable})
       /\ mishaps' \in 0..MaxMishaps
  BY CardConstants DEF PS!Disable, PS!Mishap, CardInv, PS!TypeOK
<1>11. CardPaidStays /\ CardHeldOK'
  BY <1>1, CardChargesStay DEF CardInv
<1>12. CardRemoteOK' /\ remote' \subseteq PS!Code
  BY <1>10, <1>11, CardRemoteStaysOK DEF CardRemoteOK, CardInv, PS!TypeOK
<1>13. PS!IsRemote(code) => disable \in PS!Hook /\ CardHookOK(disable)'
  BY DEF PS!IsRemote, PS!Code, PS!Hook, CardHookOK
<1> HIDE DEF disable
<1>14. CardHooksOK' /\ hooks' \subseteq PS!Hook
  BY <1>10, <1>11, <1>13, CardHookStaysOK DEF CardHooksOK, CardInv, PS!TypeOK
<1> QED
  BY <1>1, <1>8, <1>9, <1>10, <1>11, <1>12, <1>14, CardNewLocalsOK,
     CardPaystackMoves
     DEF CardInv, PS!TypeOK, PS!addressVars

---------------------------------------------------------------------------
(* Writing the table *)

LEMMA CardCreateWrites ==
    ASSUME CardInv, NEW row \in PS!Row, CardRowOK(row), PS!Create(row),
           UNCHANGED <<charges, PS!addressVars>>
    PROVE  /\ subs' \in Seq(PS!Row) /\ Len(subs) <= Len(subs')
           /\ CardOwnersStay /\ CardRowsOK'
           /\ Len(subs) + 1 \in PS!RowsOf(row.userId)'
<1>1. /\ subs \in Seq(PS!Row) /\ subs' \in Seq(PS!Row)
      /\ Len(subs) \in Nat /\ Len(subs') = Len(subs) + 1
      /\ \A i \in 1..Len(subs) : subs'[i] = subs[i]
      /\ subs'[Len(subs) + 1] = row
  BY AppendProperties, LenProperties
     DEF CardInv, PS!TypeOK, PS!TableTypeOK, PS!Create
<1>2. CardOwnersStay
  BY <1>1 DEF CardOwnersStay, PS!RowsOf
<1>3. ASSUME NEW i \in 1..Len(subs')
      PROVE  CardRowOK(subs[i])' 
  <2>1. PICK new : new = subs'[i]
    OBVIOUS
  <2>2. CardRowOK(new)
    BY <1>1, <2>1 DEF CardInv, CardRowsOK
  <2>3. CardRowOK(new)'
    BY <2>2, CardChargesStay, CardRowStaysOK
  <2> QED
    BY <2>1, <2>3 DEF CardRowOK, CardOwnCode
<1>4. Len(subs) + 1 \in PS!RowsOf(row.userId)'
  BY <1>1 DEF PS!RowsOf
<1> QED
  BY <1>1, <1>2, <1>3, <1>4 DEF CardRowsOK

LEMMA CardUpdateWrites ==
    ASSUME CardInv, NEW r \in 1..Len(subs), NEW row \in PS!Row, CardRowOK(row),
           row.userId = subs[r].userId, PS!Update(r, row),
           UNCHANGED <<charges, PS!addressVars>>
    PROVE  /\ subs' \in Seq(PS!Row) /\ Len(subs) <= Len(subs')
           /\ CardOwnersStay /\ CardRowsOK'
<1>1. /\ subs \in Seq(PS!Row) /\ subs' \in Seq(PS!Row)
      /\ Len(subs) \in Nat /\ Len(subs') = Len(subs)
      /\ \A i \in 1..Len(subs) : subs'[i] = IF i = r THEN row ELSE subs[i]
  BY ExceptSeq, LenProperties DEF CardInv, PS!TypeOK, PS!TableTypeOK, PS!Update
<1>2. CardOwnersStay
  BY <1>1 DEF CardOwnersStay, PS!RowsOf
<1>3. ASSUME NEW i \in 1..Len(subs')
      PROVE  CardRowOK(subs[i])'
  <2>1. PICK new : new = subs'[i]
    OBVIOUS
  <2>2. CardRowOK(new)
    BY <1>1, <2>1 DEF CardInv, CardRowsOK
  <2>3. CardRowOK(new)'
    BY <2>2, CardChargesStay, CardRowStaysOK
  <2> QED
    BY <2>1, <2>3 DEF CardRowOK, CardOwnCode
<1> QED
  BY <1>1, <1>2, <1>3 DEF CardRowsOK

(* The invariant after a step of c that wrote a row.                       *)
LEMMA CardWroteTable ==
    ASSUME CardInv, NEW c \in Callers, NEW k \in PS!Call \cup {PS!NoCall},
           CardKeepsOK(k)',
           call' = [call EXCEPT ![c] = k],
           subs' \in Seq(PS!Row), Len(subs) <= Len(subs'), CardOwnersStay, CardRowsOK',
           linked' \in [Users -> Nat], PS!LinkedToOwnRow',
           UNCHANGED <<now, plans, payments, notices, charges, remote, hooks,
           mishaps,
                       PS!addressVars>>
    PROVE  CardKept
<1>1. /\ call' \in [Callers -> PS!Call \cup {PS!NoCall}] /\ call'[c] = k
      /\ \A d \in Callers \ {c} : call'[d] = call[d]
  BY CardCallMoves DEF CardInv
<1>2. PS!TypeOK'
  BY <1>1 DEF CardInv, PS!TypeOK, PS!TableTypeOK, PS!addressVars
<1>3. CardPaidStays /\ CardHeldOK'
  BY CardChargesStay DEF CardInv
<1>4. PS!NoMoneyWithoutSubscription'
  BY DEF CardInv, PS!NoMoneyWithoutSubscription, CardOwnersStay
<1>5. CardRemoteOK' /\ CardHooksOK'
  BY <1>3, CardRemoteStaysOK, CardHookStaysOK
     DEF CardRemoteOK, CardHooksOK, CardInv
<1> QED
  BY <1>1, <1>2, <1>3, <1>4, <1>5, CardNewLocalsOK, CardKeeps
     DEF CardChargesPay

LEMMA CardLinksStay ==
    ASSUME CardInv, CardOwnersStay, UNCHANGED linked
    PROVE  linked' \in [Users -> Nat] /\ PS!LinkedToOwnRow'
BY DEF CardInv, PS!TypeOK, PS!TableTypeOK, PS!LinkedToOwnRow, CardOwnersStay

(* A handler writes the row it holds and goes on with the locals k.        *)
LEMMA CardWritesBack ==
    ASSUME CardInv, NEW c \in Callers, NEW k \in PS!Call \cup {PS!NoCall},
           call' = [call EXCEPT ![c] = k],
           NEW r \in 1..Len(subs), NEW row \in PS!Row, CardRowOK(row),
           row.userId = subs[r].userId, PS!Update(r, row),
           CardKeepsOK(k),
           UNCHANGED <<now, plans, linked, payments, notices,
                       charges, remote, hooks, mishaps,
                       PS!addressVars>>
    PROVE  CardKept
<1>1. /\ subs' \in Seq(PS!Row) /\ Len(subs) <= Len(subs')
      /\ CardOwnersStay /\ CardRowsOK'
  BY CardUpdateWrites
<1>2. linked' \in [Users -> Nat] /\ PS!LinkedToOwnRow'
  BY <1>1, CardLinksStay
<1>3. CardKeepsOK(k)'
  BY <1>1, CardChargesStay, LenProperties, CardKeepsStayOK
     DEF CardInv, PS!TypeOK, PS!TableTypeOK
<1> QED
  BY <1>1, <1>2, <1>3, CardWroteTable

---------------------------------------------------------------------------
(* What the handlers write *)

CardEndedRow(old) ==
    [old EXCEPT !.isActive = FALSE, !.status = "expired", !.type = "FREE"]

CardCanceledRow(old) ==
    [old EXCEPT !.isActive = FALSE, !.status = "canceled",
                !.cancelAtPeriodEnd = TRUE]

CardCodedRow(old, code) == [old EXCEPT !.paystackSubId = code]

CardRenewedRow(old, day) == [old EXCEPT !.endDate = day, !.status = "active"]

CardDisabledRow(old) == [old EXCEPT !.isActive = FALSE, !.status = "canceled"]

LEMMA CardEndedRowTypes ==
    ASSUME NEW old \in PS!Row
    PROVE  /\ CardEndedRow(old) \in PS!Row
           /\ CardEndedRow(old).userId = old.userId
           /\ CardEndedRow(old).paystackSubId = old.paystackSubId
           /\ CardEndedRow(old).isActive = FALSE
BY DEF CardEndedRow, PS!Row, PS!DeadStatus, PS!PlanTypes

LEMMA CardCanceledRowTypes ==
    ASSUME NEW old \in PS!Row
    PROVE  /\ CardCanceledRow(old) \in PS!Row
           /\ CardCanceledRow(old).userId = old.userId
           /\ CardCanceledRow(old).paystackSubId = old.paystackSubId
           /\ CardCanceledRow(old).isActive = FALSE
BY DEF CardCanceledRow, PS!Row, PS!DeadStatus

LEMMA CardDisabledRowTypes ==
    ASSUME NEW old \in PS!Row
    PROVE  /\ CardDisabledRow(old) \in PS!Row
           /\ CardDisabledRow(old).userId = old.userId
           /\ CardDisabledRow(old).paystackSubId = old.paystackSubId
           /\ CardDisabledRow(old).isActive = FALSE
BY DEF CardDisabledRow, PS!Row, PS!DeadStatus

LEMMA CardCodedRowTypes ==
    ASSUME NEW old \in PS!Row, NEW code \in PS!Code
    PROVE  LET new == CardCodedRow(old, code) IN
           /\ new \in PS!Row
           /\ new.userId = old.userId /\ new.planId = old.planId
           /\ new.paystackSubId = code
           /\ new.isActive = old.isActive /\ new.status = old.status
           /\ new.isTrial = old.isTrial
BY DEF CardCodedRow, PS!Row

LEMMA CardRenewedRowTypes ==
    ASSUME NEW old \in PS!Row, NEW day \in PS!Date
    PROVE  LET new == CardRenewedRow(old, day) IN
           /\ new \in PS!Row
           /\ new.userId = old.userId /\ new.planId = old.planId
           /\ new.paystackSubId = old.paystackSubId
           /\ new.isActive = old.isActive /\ new.status = "active"
           /\ new.isTrial = old.isTrial
BY DEF CardRenewedRow, PS!Row, PS!LiveStatus

(* A row that is switched off may keep the code it has.                    *)
LEMMA CardDeadRowOK ==
    ASSUME NEW old, NEW row, CardRowOK(old), row.userId = old.userId,
           row.paystackSubId = old.paystackSubId, row.isActive = FALSE
    PROVE  CardRowOK(row)
BY DEF CardRowOK

LEMMA CardCodedRowOK ==
    ASSUME NEW old \in PS!Row, NEW code \in PS!Code, CardRowOK(old),
           CardOwnCode(code, old.userId)
    PROVE  CardRowOK(CardCodedRow(old, code))
BY CardCodedRowTypes DEF CardRowOK

LEMMA CardRenewedRowOK ==
    ASSUME NEW old \in PS!Row, NEW day \in PS!Date, CardRowOK(old)
    PROVE  CardRowOK(CardRenewedRow(old, day))
BY CardRenewedRowTypes DEF CardRowOK, PS!LiveStatus

LEMMA CardTrialRowOK ==
    ASSUME PS!TypeOK, NEW c \in Callers, call[c].user \in Users,
           call[c].plan \in Plans
    PROVE  /\ PS!TrialRow(c) \in PS!Row /\ CardRowOK(PS!TrialRow(c))
           /\ PS!TrialRow(c).userId = call[c].user
<1>1. /\ PlanType[call[c].plan] \in PS!PlanTypes
      /\ now \in Nat /\ now + TrialDays \in PS!Date
      /\ None \in PS!Code
  BY PlansAreTyped, CardConstants
     DEF PS!TypeOK, PS!TableTypeOK, PS!Date, PS!Code, PlanTypes, PS!PlanTypes
<1> QED
  BY <1>1 DEF PS!TrialRow, PS!Row, CardRowOK, CardOwnCode, PS!LiveStatus

LEMMA CardPaidRowOK ==
    ASSUME PS!TypeOK, NEW c \in Callers, call[c] \in PS!Call,
           call[c].plan \in Plans,
           CardPaidBy(call[c].ref, call[c].user),
           charges[call[c].ref].plan = call[c].plan,
           CardOwnCode(call[c].code, call[c].user),
           NEW old, old \in PS!Row \/ old = PS!BlankRow(c)
    PROVE  /\ PS!PaidRow(c, old) \in PS!Row /\ CardRowOK(PS!PaidRow(c, old))
           /\ PS!PaidRow(c, old).userId = call[c].user
<1>1. /\ call[c].user \in Users /\ call[c].code \in PS!Code /\ call[c].day \in PS!Date
      /\ PlanType[call[c].plan] \in PS!PlanTypes /\ now \in Nat
      /\ call[c].ref \in Refs
  BY PlansAreTyped
     DEF PS!Call, PS!TypeOK, PS!TableTypeOK, CardPaidBy, PlanTypes,
         PS!PlanTypes
<1>2. PICK from : /\ from \in PS!Row
                  /\ PS!PaidRow(c, old) = PS!PaidRow(c, from)
  <2>1. CASE old \in PS!Row
    BY <2>1
  <2>2. CASE old = PS!BlankRow(c)
    <3>1. PS!TrialRow(c) \in PS!Row
      BY <1>1, CardTrialRowOK
    <3>2. PS!BlankRow(c) \in PS!Row
      BY <3>1 DEF PS!BlankRow, PS!Row
    <3> QED
      BY <2>2, <3>2
  <2> QED
    BY <2>1, <2>2
<1> DEFINE new == PS!PaidRow(c, from)
<1>3. /\ new \in PS!Row
      /\ new.userId = call[c].user /\ new.planId = call[c].plan
      /\ new.status = "active" /\ new.paystackSubId = call[c].code
  BY <1>1, <1>2 DEF PS!PaidRow, PS!Row, PS!LiveStatus
<1> HIDE DEF new
<1>4. CardRowOK(new)
  BY <1>1, <1>3 DEF CardRowOK, PS!LiveStatus
<1> QED
  BY <1>2, <1>3, <1>4 DEF new

LEMMA CardTrialCreateKeeps ==
    ASSUME CardInv, NEW c \in Callers, PS!TrialCreate(c)
    PROVE  CardKept
<1>1. /\ call[c].pc = "trialCreate"
      /\ call' = [call EXCEPT ![c] = PS!NoCall]
      /\ UNCHANGED <<now, plans, linked, payments, notices,
                     charges, remote, hooks, mishaps,
                     PS!addressVars>>
  BY DEF PS!TrialCreate, PS!At, PS!Finish
<1>2. call[c].user \in Users /\ call[c].plan \in Plans
  <2>1. call[c] \in PS!Call
    BY <1>1, CardCallTypes DEF CardInv
  <2> QED
    BY <1>1, <2>1 DEF CardInv, CardCallOK, CardKeepsOK, CardWithPlan, PS!Call
<1>3. /\ subs' \in Seq(PS!Row) /\ Len(subs) <= Len(subs')
      /\ CardOwnersStay /\ CardRowsOK'
  <2>1. CASE PS!Create(PS!TrialRow(c))
    <3>1. PICK row \in PS!Row : row = PS!TrialRow(c)
      BY <1>2, CardTrialRowOK DEF CardInv
    <3> QED
      BY <1>1, <1>2, <2>1, <3>1, CardTrialRowOK, CardCreateWrites DEF CardInv
  <2>2. CASE UNCHANGED subs
    BY <1>1, <2>2, CardSubsStay, CardChargesStay, LenProperties, CardTableStays
       DEF CardInv, PS!TypeOK, PS!TableTypeOK
  <2> QED
    BY <2>1, <2>2 DEF PS!TrialCreate
<1>4. linked' \in [Users -> Nat] /\ PS!LinkedToOwnRow'
  BY <1>1, <1>3, CardLinksStay
<1> QED
  BY <1>1, <1>3, <1>4, CardNoCallIsOKThen, CardWroteTable

(* The row a handler holds.                                                *)
LEMMA CardHeldRow ==
    ASSUME CardInv, NEW c \in Callers,
           call[c].pc \in CardHolding \cup {"disableWrite"}
    PROVE  /\ call[c].row \in 1..Len(subs)
           /\ subs[call[c].row] \in PS!Row /\ CardRowOK(subs[call[c].row])
           /\ call[c].pc # "disableWrite" =>
                 /\ call[c].row \in PS!RowsOf(call[c].user)
                 /\ subs[call[c].row].userId = call[c].user
<1>1. /\ call[c].row \in 1..Len(subs)
      /\ call[c].pc # "disableWrite" => call[c].row \in PS!RowsOf(call[c].user)
  BY DEF CardInv, CardCallOK, CardKeepsOK, PS!RowsOf
<1> QED
  BY <1>1, CardRowIsRow DEF CardInv, CardRowsOK, PS!RowsOf

LEMMA CardStatusWriteKeeps ==
    ASSUME CardInv, NEW c \in Callers, PS!StatusWrite(c)
    PROVE  CardKept
<1>1. PICK r : r = call[c].row
  OBVIOUS
<1>2. /\ call[c].pc = "statusWrite"
      /\ PS!Update(r, CardEndedRow(subs[r]))
      /\ call' = [call EXCEPT ![c] = PS!NoCall]
      /\ UNCHANGED <<now, plans, linked, payments, notices,
                     charges, remote, hooks, mishaps,
                     PS!addressVars>>
  BY <1>1 DEF PS!StatusWrite, PS!At, PS!Finish, CardEndedRow
<1>3. r \in 1..Len(subs) /\ subs[r] \in PS!Row /\ CardRowOK(subs[r])
  BY <1>1, <1>2, CardHeldRow DEF CardHolding
<1>4. PICK row : row = CardEndedRow(subs[r])
  OBVIOUS
<1>5. row \in PS!Row /\ CardRowOK(row) /\ row.userId = subs[r].userId
  BY <1>3, <1>4, CardEndedRowTypes, CardDeadRowOK
<1> QED
  BY <1>2, <1>3, <1>4, <1>5, CardNoCallIsOK, CardWritesBack

LEMMA CardDisableWriteKeeps ==
    ASSUME CardInv, NEW c \in Callers, PS!DisableWrite(c)
    PROVE  CardKept
<1>1. PICK r : r = call[c].row
  OBVIOUS
<1>2. /\ call[c].pc = "disableWrite"
      /\ PS!Update(r, CardDisabledRow(subs[r]))
      /\ call' = [call EXCEPT ![c] = PS!NoCall]
      /\ UNCHANGED <<now, plans, linked, payments, notices,
                     charges, remote, hooks, mishaps,
                     PS!addressVars>>
  BY <1>1 DEF PS!DisableWrite, PS!At, PS!Finish, CardDisabledRow
<1>3. r \in 1..Len(subs) /\ subs[r] \in PS!Row /\ CardRowOK(subs[r])
  BY <1>1, <1>2, CardHeldRow
<1>4. PICK row : row = CardDisabledRow(subs[r])
  OBVIOUS
<1>5. row \in PS!Row /\ CardRowOK(row) /\ row.userId = subs[r].userId
  BY <1>3, <1>4, CardDisabledRowTypes, CardDeadRowOK
<1> QED
  BY <1>2, <1>3, <1>4, <1>5, CardNoCallIsOK, CardWritesBack

LEMMA CardCodeWriteKeeps ==
    ASSUME CardInv, NEW c \in Callers, PS!CodeWrite(c)
    PROVE  CardKept
<1>1. PICK r, code : r = call[c].row /\ code = call[c].code
  OBVIOUS
<1>2. /\ call[c].pc = "codeWrite"
      /\ PS!Update(r, CardCodedRow(subs[r], code))
      /\ call' = [call EXCEPT ![c] = PS!NoCall]
      /\ UNCHANGED <<now, plans, linked, payments, notices,
                     charges, remote, hooks, mishaps,
                     PS!addressVars>>
  BY <1>1 DEF PS!CodeWrite, PS!At, PS!Finish, CardCodedRow
<1>3. /\ r \in 1..Len(subs) /\ subs[r] \in PS!Row /\ CardRowOK(subs[r])
      /\ subs[r].userId = call[c].user
  BY <1>1, <1>2, CardHeldRow DEF CardHolding
<1>4. code \in PS!Code /\ CardOwnCode(code, subs[r].userId)
  <2>1. code \in PS!Code
    BY <1>1, <1>2, CardCallTypes DEF CardInv, PS!Call
  <2> QED
    BY <1>1, <1>2, <1>3, <2>1 DEF CardInv, CardCallOK, CardKeepsOK, CardOwnCode
<1>5. PICK row : row = CardCodedRow(subs[r], code)
  OBVIOUS
<1>6. row \in PS!Row /\ CardRowOK(row) /\ row.userId = subs[r].userId
  BY <1>3, <1>4, <1>5, CardCodedRowTypes, CardCodedRowOK
<1> QED
  BY <1>2, <1>3, <1>5, <1>6, CardNoCallIsOK, CardWritesBack

LEMMA CardCancelWriteKeeps ==
    ASSUME CardInv, NEW c \in Callers, PS!CancelWrite(c)
    PROVE  CardKept
<1>1. PICK r : r = call[c].row
  OBVIOUS
<1>2. /\ call[c].pc = "cancelWrite"
      /\ PS!Update(r, CardCanceledRow(subs[r])) /\ PS!Goto(c, "notify")
      /\ UNCHANGED <<now, plans, linked, payments, notices,
                     charges, remote, hooks, mishaps,
                     PS!addressVars>>
  BY <1>1 DEF PS!CancelWrite, PS!At, CardCanceledRow
<1>3. /\ r \in 1..Len(subs) /\ subs[r] \in PS!Row /\ CardRowOK(subs[r])
      /\ r \in PS!RowsOf(call[c].user)
  BY <1>1, <1>2, CardHeldRow DEF CardHolding
<1>4. PICK row : row = CardCanceledRow(subs[r])
  OBVIOUS
<1>5. row \in PS!Row /\ CardRowOK(row) /\ row.userId = subs[r].userId
  BY <1>3, <1>4, CardCanceledRowTypes, CardDeadRowOK
<1>6. PICK k : k = [call[c] EXCEPT !.pc = "notify"]
  OBVIOUS
<1>7. call' = [call EXCEPT ![c] = k] /\ k \in PS!Call
  BY <1>2, <1>6, CardGoesOn DEF CardInv, PS!CallPC
<1>8. k.pc = "notify" /\ k.user = call[c].user
  BY <1>2, <1>6, CardCallTypes DEF CardInv, PS!Call
<1>9. CardKeepsOK(k)
  BY <1>3, <1>8 DEF CardKeepsOK, CardWithPlan, CardCharging, CardHolding
<1> QED
  BY <1>2, <1>3, <1>4, <1>5, <1>7, <1>9, CardWritesBack

LEMMA CardRenewWriteKeeps ==
    ASSUME CardInv, NEW c \in Callers, PS!RenewWrite(c)
    PROVE  CardKept
<1>1. PICK r, day : r = call[c].row /\ day = call[c].day
  OBVIOUS
<1>2. /\ call[c].pc = "renewWrite"
      /\ PS!Update(r, CardRenewedRow(subs[r], day)) /\ PS!Goto(c, "pay")
      /\ UNCHANGED <<now, plans, linked, payments, notices,
                     charges, remote, hooks, mishaps,
                     PS!addressVars>>
  BY <1>1 DEF PS!RenewWrite, PS!At, CardRenewedRow
<1>3. /\ r \in 1..Len(subs) /\ subs[r] \in PS!Row /\ CardRowOK(subs[r])
      /\ r \in PS!RowsOf(call[c].user) /\ day \in PS!Date
  BY <1>1, <1>2, CardHeldRow, CardCallTypes DEF CardHolding, CardInv, PS!Call
<1>4. PICK row : row = CardRenewedRow(subs[r], day)
  OBVIOUS
<1>5. row \in PS!Row /\ CardRowOK(row) /\ row.userId = subs[r].userId
  BY <1>3, <1>4, CardRenewedRowTypes, CardRenewedRowOK
<1>6. PICK k : k = [call[c] EXCEPT !.pc = "pay"]
  OBVIOUS
<1>7. call' = [call EXCEPT ![c] = k] /\ k \in PS!Call
  BY <1>2, <1>6, CardGoesOn DEF CardInv, PS!CallPC
<1>8. k.pc = "pay" /\ k.user = call[c].user /\ k.ref = call[c].ref
  BY <1>2, <1>6, CardCallTypes DEF CardInv, PS!Call
<1>9. CardBilledTo(call[c].ref, call[c].user)
  BY <1>2 DEF CardInv, CardCallOK, CardKeepsOK
<1>10. CardKeepsOK(k)
  BY <1>3, <1>8, <1>9 DEF CardKeepsOK, CardWithPlan, CardCharging, CardHolding
<1> QED
  BY <1>2, <1>3, <1>4, <1>5, <1>7, <1>10, CardWritesBack

(* The row is written and User.subscriptionId with it.                     *)
LEMMA CardWriteKeeps ==
    ASSUME CardInv, NEW c \in Callers, PS!Write(c)
    PROVE  CardKept
<1>1. /\ call[c].pc = "write" /\ PS!Goto(c, "pay")
      /\ UNCHANGED <<now, plans, payments, notices, charges, remote, hooks, mishaps,
                     PS!addressVars>>
  BY DEF PS!Write, PS!At
<1>2. PICK r, u : r = call[c].row /\ u = call[c].user
  OBVIOUS
<1>3. /\ call[c] \in PS!Call /\ r \in Nat /\ u \in Users
      /\ call[c].plan \in Plans /\ CardPaidBy(call[c].ref, u)
      /\ charges[call[c].ref].plan = call[c].plan
      /\ CardOwnCode(call[c].code, u) /\ (r = 0 \/ r \in PS!RowsOf(u))
  <2>1. call[c] \in PS!Call
    BY <1>1, CardCallTypes DEF CardInv
  <2> QED
    BY <1>1, <1>2, <2>1
       DEF CardInv, CardCallOK, CardKeepsOK, CardWithPlan, CardCharging,
           PS!Call
<1> DEFINE id == IF r = 0 THEN Len(subs) + 1 ELSE r
<1>4. PICK n : n = id
  OBVIOUS
<1>5. linked' = [linked EXCEPT ![u] = n]
  BY <1>2, <1>4 DEF PS!Write
<1>6. /\ subs' \in Seq(PS!Row) /\ Len(subs) <= Len(subs')
      /\ CardOwnersStay /\ CardRowsOK'
      /\ n \in PS!RowsOf(u)'
  <2>1. CASE r = 0 /\ PS!Create(PS!PaidRow(c, PS!BlankRow(c)))
    <3>1. PICK row : row = PS!PaidRow(c, PS!BlankRow(c))
      OBVIOUS
    <3>2. row \in PS!Row /\ CardRowOK(row) /\ row.userId = u
      BY <1>2, <1>3, <3>1, CardPaidRowOK DEF CardInv
    <3> QED
      BY <1>1, <1>4, <2>1, <3>1, <3>2, CardCreateWrites
  <2>2. CASE r # 0 /\ PS!Update(r, PS!PaidRow(c, subs[r]))
    <3>1. r \in 1..Len(subs) /\ subs[r] \in PS!Row /\ subs[r].userId = u
      BY <1>3, <2>2, CardRowIsRow DEF CardInv, PS!RowsOf
    <3>2. PICK row : row = PS!PaidRow(c, subs[r])
      OBVIOUS
    <3>3. row \in PS!Row /\ CardRowOK(row) /\ row.userId = u
      BY <1>2, <1>3, <3>1, <3>2, CardPaidRowOK DEF CardInv
    <3>4. /\ subs' \in Seq(PS!Row) /\ Len(subs) <= Len(subs')
          /\ CardOwnersStay /\ CardRowsOK'
      BY <1>1, <2>2, <3>1, <3>2, <3>3, CardUpdateWrites
    <3> QED
      BY <1>3, <1>4, <2>2, <3>4 DEF CardOwnersStay
  <2> QED
    BY <1>2, <2>1, <2>2 DEF PS!Write
<1>7. linked' \in [Users -> Nat] /\ PS!LinkedToOwnRow'
  <2>1. n \in Nat
    BY <1>6, LenProperties DEF PS!RowsOf
  <2>2. linked \in [Users -> Nat]
    BY DEF CardInv, PS!TypeOK, PS!TableTypeOK
  <2>3. \A v \in Users : linked'[v] = IF v = u THEN n ELSE linked[v]
    BY <1>3, <1>5, <2>2
  <2>4. PS!LinkedToOwnRow'
    BY <1>6, <2>3 DEF CardInv, PS!LinkedToOwnRow, CardOwnersStay
  <2> QED
    BY <1>3, <1>5, <2>1, <2>2, <2>4
<1>8. PICK k : k = [call[c] EXCEPT !.pc = "pay"]
  OBVIOUS
<1>9. call' = [call EXCEPT ![c] = k] /\ k \in PS!Call
  BY <1>1, <1>8, CardGoesOn DEF CardInv, PS!CallPC
<1>10. k.pc = "pay" /\ k.user = u /\ CardBilledTo(k.ref, u)
  BY <1>2, <1>3, <1>8, CardPaidIsBilled DEF PS!Call, CardInv
<1>11. PS!RowsOf(k.user)' # {} /\ CardBilledTo(k.ref, k.user)'
  BY <1>1, <1>6, <1>10, CardChargesStay, CardBilledToStays
<1>12. CardKeepsOK(k)'
  BY <1>10, <1>11 DEF CardKeepsOK, CardWithPlan, CardCharging, CardHolding
<1> QED
  BY <1>1, <1>6, <1>7, <1>9, <1>12, CardWroteTable

---------------------------------------------------------------------------
(* Payments and notices *)

LEMMA CardMoneyMoves ==
    ASSUME CardInv, NEW c \in Callers, NEW k \in PS!Call \cup {PS!NoCall},
           CardKeepsOK(k),
           call' = [call EXCEPT ![c] = k],
           payments' \in [Users \X Refs -> Nat],
           notices' \subseteq Users \X PS!NoticeTypes,
           PS!NoMoneyWithoutSubscription', CardChargesPay,
           mishaps' \in 0..MaxMishaps,
           UNCHANGED <<now, plans, subs, linked, charges, remote, hooks,
                       PS!addressVars>>
    PROVE  CardKept
<1>1. /\ call' \in [Callers -> PS!Call \cup {PS!NoCall}] /\ call'[c] = k
      /\ \A d \in Callers \ {c} : call'[d] = call[d]
  BY CardCallMoves DEF CardInv
<1>2. PS!TypeOK'
  BY <1>1 DEF CardInv, PS!TypeOK, PS!TableTypeOK, PS!addressVars
<1>3. CardPaidStays /\ CardHeldOK' /\ CardOwnersStay /\ Len(subs) <= Len(subs')
  BY CardSubsStay, CardChargesStay, LenProperties
     DEF CardInv, PS!TypeOK, PS!TableTypeOK
<1>4. CardRowsOK' /\ PS!LinkedToOwnRow'
  BY <1>3, CardRowStaysOK, CardSubsStay
     DEF CardInv, CardRowsOK, PS!LinkedToOwnRow
<1>5. CardRemoteOK' /\ CardHooksOK'
  BY <1>3, CardRemoteStaysOK, CardHookStaysOK
     DEF CardRemoteOK, CardHooksOK, CardInv
<1>6. CardKeepsOK(k)'
  BY <1>3, LenProperties, CardKeepsStayOK
     DEF CardInv, PS!TypeOK, PS!TableTypeOK
<1> QED
  BY <1>1, <1>2, <1>3, <1>4, <1>5, <1>6, CardNewLocalsOK, CardKeeps

LEMMA CardPayKeeps ==
    ASSUME CardInv, NEW c \in Callers, PS!Pay(c)
    PROVE  CardKept
<1>1. /\ call[c].pc = "pay"
      /\ UNCHANGED <<now, plans, subs, linked, notices, charges, remote, hooks,
                     PS!addressVars>>
  BY DEF PS!Pay, PS!At
<1>2. call[c] \in PS!Call
  BY <1>1, CardCallTypes DEF CardInv
<1>3. /\ CardBilledTo(call[c].ref, call[c].user) /\ call[c].user \in Users
      /\ call[c].ref \in Refs /\ PS!RowsOf(call[c].user) # {}
  BY <1>1, <1>2
     DEF CardInv, CardCallOK, CardKeepsOK, CardBilledTo, CardPaidFrom, PS!Call
<1>4. CASE PS!Mishap /\ PS!Finish(c) /\ UNCHANGED payments
  <2>1. mishaps' \in 0..MaxMishaps
    BY <1>4, CardConstants DEF PS!Mishap, CardInv, PS!TypeOK
  <2>2. PS!NoMoneyWithoutSubscription' /\ CardChargesPay
    BY <1>1, <1>4, CardChargesStay, CardTableStays DEF CardChargesPay
  <2> QED
    BY <1>1, <1>4, <2>1, <2>2, CardNoCallIsOK, CardMoneyMoves
       DEF PS!Finish, CardInv, PS!TypeOK, PS!TableTypeOK
<1>5. CASE /\ PS!RecordPayment(call[c].user, call[c].ref)
           /\ PS!Goto(c, "notify") /\ UNCHANGED mishaps
  <2>1. PICK u \in Users, ref \in Refs : u = call[c].user /\ ref = call[c].ref
    BY <1>3
  <2>2. payments' = [payments EXCEPT ![<<u, ref>>] = @ + 1]
    BY <1>5, <2>1 DEF PS!RecordPayment
  <2>3. payments \in [Users \X Refs -> Nat]
    BY DEF CardInv, PS!TypeOK, PS!TableTypeOK
  <2>4. /\ payments' \in [Users \X Refs -> Nat]
        /\ \A v \in Users, other \in Refs :
              v # u \/ other # ref => payments'[<<v, other>>] = payments[<<v, other>>]
    BY <2>2, <2>3
  <2>5. PS!NoMoneyWithoutSubscription'
    <3>1. \A v : PS!RowsOf(v)' = PS!RowsOf(v)
      BY <1>1, CardSubsStay
    <3> QED
      BY <1>1, <1>3, <2>1, <2>4, <3>1
         DEF CardInv, PS!NoMoneyWithoutSubscription
  <2>10. CardChargesPay
    BY <1>1, <1>3, <2>1, <2>4, CardChargesStay, CardBilledToStays
       DEF CardChargesPay
  <2>6. PICK k : k = [call[c] EXCEPT !.pc = "notify"]
    OBVIOUS
  <2>7. call' = [call EXCEPT ![c] = k] /\ k \in PS!Call
    BY <1>1, <1>5, <2>6, CardGoesOn DEF CardInv, PS!CallPC
  <2>8. k.pc = "notify" /\ k.user = call[c].user
    BY <1>2, <2>6 DEF PS!Call
  <2>9. CardKeepsOK(k)
    BY <1>3, <2>8 DEF CardKeepsOK, CardWithPlan, CardCharging, CardHolding
  <2> QED
    BY <1>1, <1>5, <2>4, <2>5, <2>7, <2>9, <2>10, CardMoneyMoves
       DEF CardInv, PS!TypeOK, PS!TableTypeOK
<1> QED
  BY <1>4, <1>5 DEF PS!Pay

LEMMA CardNotifyKeeps ==
    ASSUME CardInv, NEW c \in Callers, PS!Notify(c)
    PROVE  CardKept
<1>1. /\ call[c].pc = "notify"
      /\ call' = [call EXCEPT ![c] = PS!NoCall]
      /\ notices' \subseteq notices \cup {<<call[c].user, call[c].says>>}
      /\ UNCHANGED <<now, plans, subs, linked, payments, charges, remote, hooks,
                     PS!addressVars>>
  BY DEF PS!Notify, PS!At, PS!Finish
<1>2. call[c] \in PS!Call
  BY <1>1, CardCallTypes DEF CardInv
<1>3. /\ call[c].user \in Users /\ call[c].says \in PS!NoticeTypes
      /\ PS!RowsOf(call[c].user) # {}
  BY <1>1, <1>2 DEF CardInv, CardCallOK, CardKeepsOK, PS!Call
<1>4. mishaps' \in 0..MaxMishaps
  BY CardConstants DEF PS!Notify, PS!Mishap, CardInv, PS!TypeOK
<1>5. notices' \subseteq Users \X PS!NoticeTypes
  BY <1>1, <1>3 DEF CardInv, PS!TypeOK, PS!TableTypeOK
<1>6. PS!NoMoneyWithoutSubscription'
  <2>1. \A v : PS!RowsOf(v)' = PS!RowsOf(v)
    BY <1>1, CardSubsStay
  <2> QED
    BY <1>1, <1>3, <2>1 DEF CardInv, PS!NoMoneyWithoutSubscription
<1>7. CardChargesPay
  BY <1>1 DEF CardChargesPay
<1> QED
  BY <1>1, <1>4, <1>5, <1>6, <1>7, CardNoCallIsOK, CardMoneyMoves
     DEF CardInv, PS!TypeOK, PS!TableTypeOK

---------------------------------------------------------------------------
(* The invariant *)

(* The clock, a new plan, a lost event.                                    *)
LEMMA CardWorldKeeps ==
    ASSUME CardInv, now' \in Nat, plans' \subseteq Plans,
           hooks' \subseteq hooks,
           mishaps' \in 0..MaxMishaps,
           UNCHANGED <<subs, linked, payments, notices, call, charges, remote,
                       PS!addressVars>>
    PROVE  CardKept
<1>1. PS!TypeOK'
  BY DEF CardInv, PS!TypeOK, PS!TableTypeOK, PS!addressVars
<1>2. CardPaidStays /\ CardHeldOK' /\ CardOwnersStay /\ Len(subs) <= Len(subs')
  BY CardSubsStay, CardChargesStay, LenProperties
     DEF CardInv, PS!TypeOK, PS!TableTypeOK
<1>3. CardRowsOK' /\ PS!LinkedToOwnRow' /\ PS!NoMoneyWithoutSubscription'
  BY <1>2, CardTableStays
<1>4. CardRemoteOK' /\ CardHooksOK'
  BY <1>2, CardRemoteStaysOK, CardHookStaysOK
     DEF CardRemoteOK, CardHooksOK, CardInv
<1> QED
  BY <1>1, <1>2, <1>3, <1>4, CardKeeps DEF CardChargesPay

(* An account takes another address; nothing is forgotten.                 *)
LEMMA CardMoveAddressKeeps ==
    ASSUME CardInv, NEW u \in Users, NEW a \in Addresses, PS!MoveAddress(u, a)
    PROVE  CardKept
<1>1. /\ email' = [email EXCEPT ![u] = a] /\ held' = held \cup {<<u, a>>}
      /\ UNCHANGED <<PS!tableVars, call, charges, remote, hooks, mishaps>>
  BY DEF PS!MoveAddress
<1>2. /\ email' \in [Users -> Addresses]
      /\ held' \subseteq Users \X Addresses
      /\ moves' \in 0..MaxMoves
  BY <1>1, CardConstants DEF PS!MoveAddress, CardInv, PS!TypeOK
<1>3. CardPaidStays
  BY <1>1 DEF CardPaidStays
<1>4. CardHeldOK'
  <2>1. email \in [Users -> Addresses]
    BY DEF CardInv, PS!TypeOK
  <2> QED
    BY <1>1, <2>1 DEF CardInv, CardHeldOK
<1>5. CardRemoteOK' /\ CardHooksOK'
  BY <1>1, <1>3, CardRemoteStaysOK, CardHookStaysOK
     DEF CardRemoteOK, CardHooksOK, CardInv
<1> QED
  BY <1>1, <1>2, <1>3, <1>4, <1>5, CardPaystackMoves DEF CardInv, PS!TypeOK

LEMMA CardInvInit ==
    ASSUME PS!TableInit, PS!PsInit
    PROVE  CardInv
<1>1. PS!TypeOK /\ CardHeldOK
  <2>1. email \in [Users -> Addresses] /\ held = {<<u, email[u]>> : u \in Users}
    BY DEF PS!PsInit
  <2>2. charges = [ref \in Refs |-> None]
    BY DEF PS!PsInit
  <2>3. CardHeldOK
    BY <2>1, <2>2 DEF CardHeldOK
  <2>4. held \subseteq Users \X Addresses
    BY <2>1
  <2> QED
    BY <2>1, <2>3, <2>4, EmptySeq, CardConstants
       DEF PS!TableInit, PS!PsInit, PS!TypeOK, PS!TableTypeOK
<1>2. CardRowsOK
  <2>1. Len(subs) = 0
    BY DEF PS!TableInit
  <2> QED
    BY <2>1 DEF CardRowsOK
<1>3. PS!LinkedToOwnRow
  BY DEF PS!TableInit, PS!LinkedToOwnRow
<1>4. PS!NoMoneyWithoutSubscription
  <2>1. ASSUME NEW u \in Users, NEW ref \in Refs
        PROVE  ~(payments[<<u, ref>>] > 0)
    <3>1. payments = [k \in Users \X Refs |-> 0] /\ <<u, ref>> \in Users \X Refs
      BY DEF PS!TableInit
    <3>2. payments[<<u, ref>>] = 0
      BY <3>1
    <3> QED
      BY <3>2
  <2>2. notices = {}
    BY DEF PS!TableInit
  <2> QED
    BY <2>1, <2>2 DEF PS!NoMoneyWithoutSubscription
<1>5. CardRemoteOK /\ CardHooksOK
  BY DEF PS!PsInit, CardRemoteOK, CardHooksOK
<1>6. \A c \in Callers : CardCallOK(c)
  BY CardNoCallIsOK DEF PS!PsInit, CardCallOK, CardKeepsOK
<1> QED
  BY <1>1, <1>2, <1>3, <1>4, <1>5, <1>6 DEF CardInv

LEMMA CardCallStepKeeps ==
    ASSUME CardInv, NEW c \in Callers, PS!PsStep(c)
    PROVE  CardKept
BY CardTrialActiveKeeps, CardTrialCreateKeeps, CardStatusWriteKeeps,
   CardChargeRowKeeps,
   CardChargedKeeps, CardCreateRowKeeps, CardSuccessRowKeeps,
   CardVerifyKeeps, CardSubscribeKeeps, CardFindKeeps, CardWriteKeeps,
   CardPayKeeps, CardNotifyKeeps,
   CardDisableKeeps, CardCancelWriteKeeps, CardCodeWriteKeeps,
   CardRenewWriteKeeps,
   CardDisableWriteKeeps
   DEF PS!PsStep

LEMMA CardInvNext ==
    ASSUME CardInv, PS!PsNext
    PROVE  CardKept
<1>1. now \in Nat /\ plans \subseteq Plans /\ mishaps \in 0..MaxMishaps
  BY DEF CardInv, PS!TypeOK, PS!TableTypeOK
<1>4. ASSUME NEW p \in Plans, PS!CreatePlan(p)
      PROVE  CardKept
  <2>1. /\ plans' = plans \cup {p}
        /\ UNCHANGED <<now, subs, linked, payments, notices>>
        /\ UNCHANGED <<call, charges, remote, hooks, mishaps,
                       PS!addressVars>>
    BY <1>4 DEF PS!CreatePlan, PS!psVars
  <2> QED
    BY <1>1, <2>1, CardWorldKeeps
<1>5. ASSUME NEW h \in hooks, PS!LoseHook(h)
      PROVE  CardKept
  <2>1. /\ mishaps' \in 0..MaxMishaps /\ hooks' \subseteq hooks
        /\ UNCHANGED <<now, plans, subs, linked, payments, notices>>
        /\ UNCHANGED <<call, charges, remote, PS!addressVars>>
    BY <1>1, <1>5, CardConstants DEF PS!LoseHook, PS!Mishap, PS!tableVars
  <2> QED
    BY <1>1, <2>1, CardWorldKeeps
<1>12. ASSUME NEW u \in Users, NEW a \in Addresses, PS!MoveAddress(u, a)
       PROVE  CardKept
  BY <1>12, CardMoveAddressKeeps
<1>6. ASSUME NEW k \in remote, PS!RemoteRenews(k)
      PROVE  CardKept
  BY <1>6, CardRemoteRenewsKeeps
<1>7. ASSUME NEW c \in Callers, NEW u \in Users, PS!Status(c, u) \/ PS!Cancel(c, u)
      PROVE  CardKept
  BY <1>7, CardStatusKeeps, CardCancelKeeps
<1>8. ASSUME NEW c \in Callers, NEW u \in Users, NEW p \in Plans,
             PS!StartTrial(c, u, p) \/ PS!ChargeCard(c, u, p)
      PROVE  CardKept
  BY <1>8, CardStartTrialKeeps, CardChargeCardKeeps
<1>9. ASSUME NEW c \in Callers, NEW ref \in Refs, PS!SubmitOtp(c, ref)
      PROVE  CardKept
  BY <1>9, CardSubmitOtpKeeps
<1>10. ASSUME NEW c \in Callers, NEW h \in hooks,
              \/ PS!HandleSubscriptionCreate(c, h)
              \/ PS!HandleChargeSuccess(c, h)
              \/ PS!HandleSubscriptionDisable(c, h)
       PROVE  CardKept
  BY <1>10, CardSubscriptionCreateKeeps, CardChargeSuccessKeeps,
     CardSubscriptionDisableKeeps
<1>11. ASSUME NEW c \in Callers, PS!PsStep(c) \/ PS!Crash(c)
       PROVE  CardKept
  BY <1>11, CardCallStepKeeps, CardCrashKeeps
<1> QED
  BY <1>4, <1>5, <1>6, <1>7, <1>8, <1>9, <1>10, <1>11, <1>12 DEF PS!PsNext

---------------------------------------------------------------------------
(* Who writes the table *)

CardWrites(c) ==
    \/ PS!TrialCreate(c) \/ PS!StatusWrite(c) \/ PS!Write(c) \/ PS!CancelWrite(c)
    \/ PS!CodeWrite(c) \/ PS!RenewWrite(c) \/ PS!DisableWrite(c)

(* Every other step leaves the table alone.                                *)
LEMMA CardWhoWrites ==
    ASSUME PS!PsNext
    PROVE  UNCHANGED subs \/ \E c \in Callers : CardWrites(c)
<1>3. ASSUME NEW p \in Plans, PS!CreatePlan(p)
      PROVE  UNCHANGED subs
  BY <1>3 DEF PS!CreatePlan
<1>4. ASSUME NEW h \in hooks, PS!LoseHook(h)
      PROVE  UNCHANGED subs
  BY <1>4 DEF PS!LoseHook, PS!tableVars
<1>5. ASSUME NEW k \in remote, PS!RemoteRenews(k)
      PROVE  UNCHANGED subs
  BY <1>5 DEF PS!RemoteRenews, PS!tableVars
<1>6. ASSUME NEW c \in Callers, NEW u \in Users, PS!Status(c, u) \/ PS!Cancel(c, u)
      PROVE  UNCHANGED subs
  BY <1>6 DEF PS!Status, PS!Cancel, PS!tableVars
<1>7. ASSUME NEW c \in Callers, NEW u \in Users, NEW p \in Plans,
             PS!StartTrial(c, u, p) \/ PS!ChargeCard(c, u, p)
      PROVE  UNCHANGED subs
  BY <1>7 DEF PS!StartTrial, PS!ChargeCard, PS!tableVars
<1>8. ASSUME NEW c \in Callers, NEW ref \in Refs, PS!SubmitOtp(c, ref)
      PROVE  UNCHANGED subs
  BY <1>8 DEF PS!SubmitOtp, PS!tableVars
<1>9. ASSUME NEW c \in Callers, NEW h \in hooks,
             \/ PS!HandleSubscriptionCreate(c, h)
             \/ PS!HandleChargeSuccess(c, h)
             \/ PS!HandleSubscriptionDisable(c, h)
      PROVE  UNCHANGED subs
  BY <1>9 DEF PS!HandleSubscriptionCreate, PS!HandleChargeSuccess,
              PS!HandleSubscriptionDisable, PS!tableVars
<1>10. ASSUME NEW c \in Callers, PS!PsStep(c) \/ PS!Crash(c)
       PROVE  UNCHANGED subs \/ CardWrites(c)
  <2>1. ASSUME \/ PS!TrialActive(c) \/ PS!ChargeRow(c) \/ PS!Charged(c) \/ PS!Verify(c)
               \/ PS!Subscribe(c) \/ PS!Find(c) \/ PS!Pay(c) \/ PS!Notify(c)
               \/ PS!Disable(c) \/ PS!CreateRow(c) \/ PS!SuccessRow(c) \/ PS!Crash(c)
        PROVE  UNCHANGED subs
    BY <2>1
       DEF PS!TrialActive, PS!ChargeRow, PS!Charged, PS!Verify, PS!Subscribe,
           PS!Find, PS!Pay,
                PS!Notify, PS!Disable, PS!CreateRow, PS!SuccessRow, PS!Crash,
                PS!tableVars
  <2> QED
    BY <1>10, <2>1 DEF PS!PsStep, CardWrites
<1>11. ASSUME NEW u \in Users, NEW a \in Addresses, PS!MoveAddress(u, a)
       PROVE  UNCHANGED subs
  BY <1>11 DEF PS!MoveAddress, PS!tableVars
<1> QED
  BY <1>3, <1>4, <1>5, <1>6, <1>7, <1>8, <1>9, <1>10, <1>11 DEF PS!PsNext

(* What a handler that writes a row back may change: not the owner and not *)
(* the trial columns, and it switches nothing on.                          *)
CardFollows(old, new) ==
    /\ new.userId = old.userId
    /\ new.isTrial = old.isTrial
    /\ new.trialEndsAt = old.trialEndsAt
    /\ new.type \in {old.type, "FREE"}
    /\ new.isActive => old.isActive

CardDeadOK(row) == row.isActive \/ row.status \in PS!DeadStatus

LEMMA CardEndedRowFollows ==
    ASSUME NEW old \in PS!Row
    PROVE  CardFollows(old, CardEndedRow(old)) /\ CardDeadOK(CardEndedRow(old))
BY DEF CardEndedRow, PS!Row, CardFollows, CardDeadOK, PS!DeadStatus

LEMMA CardCanceledRowFollows ==
    ASSUME NEW old \in PS!Row
    PROVE  CardFollows(old, CardCanceledRow(old)) /\ CardDeadOK(CardCanceledRow(old))
BY DEF CardCanceledRow, PS!Row, CardFollows, CardDeadOK, PS!DeadStatus

LEMMA CardDisabledRowFollows ==
    ASSUME NEW old \in PS!Row
    PROVE  CardFollows(old, CardDisabledRow(old)) /\ CardDeadOK(CardDisabledRow(old))
BY DEF CardDisabledRow, PS!Row, CardFollows, CardDeadOK, PS!DeadStatus

LEMMA CardCodedRowFollows ==
    ASSUME NEW old \in PS!Row, NEW code \in PS!Code
    PROVE  /\ CardFollows(old, CardCodedRow(old, code))
           /\ CardDeadOK(old) => CardDeadOK(CardCodedRow(old, code))
BY DEF CardCodedRow, PS!Row, CardFollows, CardDeadOK

LEMMA CardRenewedRowFollows ==
    ASSUME NEW old \in PS!Row, NEW day \in PS!Date
    PROVE  /\ CardFollows(old, CardRenewedRow(old, day))
           /\ old.isActive => CardDeadOK(CardRenewedRow(old, day))
BY DEF CardRenewedRow, PS!Row, CardFollows, CardDeadOK

LEMMA CardWrittenBack ==
    ASSUME CardInv, NEW c \in Callers, CardWrites(c), ~PS!TrialCreate(c),
           ~PS!Write(c)
    PROVE  /\ call[c].row \in 1..Len(subs)
           /\ \E row \in PS!Row :
                 /\ PS!Update(call[c].row, row)
                 /\ CardFollows(subs[call[c].row], row)
                 /\ \/ CardDeadOK(row)
                    \/ call[c].pc = "codeWrite" /\ ~CardDeadOK(subs[call[c].row])
                    \/ call[c].pc = "renewWrite" /\ ~subs[call[c].row].isActive
<1>1. PICK r, code, day :
         r = call[c].row /\ code = call[c].code /\ day = call[c].day
  OBVIOUS
<1>2. ASSUME call[c].pc \in CardHolding \cup {"disableWrite"}
      PROVE  /\ r \in 1..Len(subs) /\ subs[r] \in PS!Row
             /\ code \in PS!Code /\ day \in PS!Date
  BY <1>1, <1>2, CardHeldRow, CardCallTypes DEF CardHolding, CardInv, PS!Call
<1>3. CASE PS!StatusWrite(c)
  BY <1>1, <1>2, <1>3, CardEndedRowTypes, CardEndedRowFollows
     DEF PS!StatusWrite, PS!At, CardEndedRow, CardHolding
<1>4. CASE PS!CancelWrite(c)
  BY <1>1, <1>2, <1>4, CardCanceledRowTypes, CardCanceledRowFollows
     DEF PS!CancelWrite, PS!At, CardCanceledRow, CardHolding
<1>5. CASE PS!CodeWrite(c)
  BY <1>1, <1>2, <1>5, CardCodedRowTypes, CardCodedRowFollows
     DEF PS!CodeWrite, PS!At, CardCodedRow, CardHolding
<1>6. CASE PS!RenewWrite(c)
  BY <1>1, <1>2, <1>6, CardRenewedRowTypes, CardRenewedRowFollows
     DEF PS!RenewWrite, PS!At, CardRenewedRow, CardHolding
<1>7. CASE PS!DisableWrite(c)
  BY <1>1, <1>2, <1>7, CardDisabledRowTypes, CardDisabledRowFollows
     DEF PS!DisableWrite, PS!At, CardDisabledRow, CardHolding
<1> QED
  BY <1>3, <1>4, <1>5, <1>6, <1>7 DEF CardWrites

(* A write leaves the other rows as they are.                              *)
LEMMA CardUpdateMoves ==
    ASSUME PS!TypeOK, NEW r \in 1..Len(subs), NEW row \in PS!Row, PS!Update(r,
           row)
    PROVE  /\ Len(subs) \in Nat /\ Len(subs') = Len(subs)
           /\ DOMAIN subs = 1..Len(subs) /\ DOMAIN subs' = 1..Len(subs)
           /\ \A i \in 1..Len(subs) : subs'[i] = IF i = r THEN row ELSE subs[i]
BY ExceptSeq, LenProperties DEF PS!TypeOK, PS!TableTypeOK, PS!Update

LEMMA CardCreateMoves ==
    ASSUME PS!TypeOK, NEW row \in PS!Row, PS!Create(row)
    PROVE  /\ Len(subs) \in Nat /\ Len(subs') = Len(subs) + 1
           /\ DOMAIN subs = 1..Len(subs) /\ DOMAIN subs' = 1..(Len(subs) + 1)
           /\ \A i \in 1..Len(subs) : subs'[i] = subs[i]
           /\ subs'[Len(subs) + 1] = row
BY AppendProperties, LenProperties DEF PS!TypeOK, PS!TableTypeOK, PS!Create

(* The row that activateSubscription writes.                               *)
LEMMA CardPaidWrite ==
    ASSUME CardInv, NEW c \in Callers, PS!Write(c)
    PROVE  /\ call[c].pc = "write" /\ call[c] \in PS!Call
           /\ call[c].user \in Users /\ call[c].plan \in Plans
           /\ \/ /\ call[c].row = 0
                 /\ PS!PaidRow(c, PS!BlankRow(c)) \in PS!Row
                 /\ PS!Create(PS!PaidRow(c, PS!BlankRow(c)))
              \/ /\ call[c].row \in PS!RowsOf(call[c].user)
                 /\ call[c].row \in 1..Len(subs)
                 /\ PS!PaidRow(c, subs[call[c].row]) \in PS!Row
                 /\ PS!Update(call[c].row, PS!PaidRow(c, subs[call[c].row]))
<1>1. call[c].pc = "write"
  BY DEF PS!Write, PS!At
<1>2. /\ call[c] \in PS!Call /\ call[c].plan \in Plans
      /\ CardPaidBy(call[c].ref, call[c].user)
      /\ charges[call[c].ref].plan = call[c].plan
      /\ CardOwnCode(call[c].code, call[c].user)
      /\ call[c].row = 0 \/ call[c].row \in PS!RowsOf(call[c].user)
  BY <1>1, CardCallTypes
     DEF CardInv, CardCallOK, CardKeepsOK, CardWithPlan, CardCharging
<1>3. PS!TypeOK /\ call[c].user \in Users
  BY <1>2 DEF CardInv, PS!Call
<1>4. CASE call[c].row = 0
  <2>1. PS!PaidRow(c, PS!BlankRow(c)) \in PS!Row
    BY <1>2, <1>3, CardPaidRowOK
  <2> QED
    BY <1>1, <1>2, <1>3, <1>4, <2>1 DEF PS!Write
<1>5. CASE call[c].row # 0
  <2>1. /\ call[c].row \in PS!RowsOf(call[c].user)
        /\ call[c].row \in 1..Len(subs)
    BY <1>2, <1>5 DEF PS!RowsOf
  <2>2. subs[call[c].row] \in PS!Row
    BY <1>3, <2>1, CardRowIsRow
  <2>3. PS!PaidRow(c, subs[call[c].row]) \in PS!Row
    BY <1>2, <1>3, <2>2, CardPaidRowOK
  <2> QED
    BY <1>1, <1>2, <1>3, <1>5, <2>1, <2>3 DEF PS!Write
<1> QED
  BY <1>4, <1>5

LEMMA CardTrialWrite ==
    ASSUME CardInv, NEW c \in Callers, PS!TrialCreate(c)
    PROVE  /\ call[c].pc = "trialCreate" /\ call[c] \in PS!Call
           /\ call[c].user \in Users /\ call[c].plan \in Plans
           /\ \/ UNCHANGED subs
              \/ PS!TrialRow(c) \in PS!Row /\ PS!Create(PS!TrialRow(c))
<1>1. call[c].pc = "trialCreate"
  BY DEF PS!TrialCreate, PS!At
<1>2. call[c] \in PS!Call
  BY <1>1, CardCallTypes DEF CardInv
<1>3. call[c].user \in Users /\ call[c].plan \in Plans
  BY <1>1, <1>2 DEF CardInv, CardCallOK, CardKeepsOK, CardWithPlan, PS!Call
<1> QED
  BY <1>1, <1>2, <1>3, CardTrialRowOK DEF CardInv, PS!TrialCreate

---------------------------------------------------------------------------
(* All of them together                                                    *)

(* A gift that will be recorded as paid goes to the user its request names.*)
GiftOK(w) ==
    /\ job[w].pc \in {"link", "pay"} => Head(job[w].todo).op = "give"
    /\ job[w].pc # "idle" /\ job[w].req.type \in RC!PaidTypes =>
          \A i \in 1..Len(job[w].todo) :
              job[w].todo[i].op = "give" =>
                  job[w].todo[i].user \in RC!ResolvedUsers(job[w].req)

(* What /auth/me goes by names rows that are there.                        *)
MayBeRow(r) == r = 0 \/ r \in 1..Len(subs)

ReadersOK ==
    /\ latest \in [Users -> Nat] /\ expiring \in [Readers -> Nat]
    /\ \A u \in Users : MayBeRow(latest[u])
    /\ \A q \in Readers : MayBeRow(expiring[q])

Inv ==
    /\ StoreInv /\ CardInv
    /\ \A w \in Workers : GiftOK(w)
    /\ PaymentsHaveASource
    /\ ReadersOK

---------------------------------------------------------------------------
(* One table                                                               *)

(* Both services and this module mean the same table.                      *)
LEMMA OneTable ==
    /\ \A u : RC!RowsOf(u) = RowsOf(u) /\ PS!RowsOf(u) = RowsOf(u)
    /\ RC!Row = PS!Row
    /\ RC!TableTypeOK <=> PS!TableTypeOK
    /\ RC!LinkedToOwnRow <=> PS!LinkedToOwnRow
    /\ RC!NoMoneyWithoutSubscription <=> PS!NoMoneyWithoutSubscription
    /\ RC!LiveStatus = PS!LiveStatus
<1>1. \A u : RC!RowsOf(u) = RowsOf(u) /\ PS!RowsOf(u) = RowsOf(u)
  BY DEF RC!RowsOf, PS!RowsOf, RowsOf
<1>2. RC!LiveStatus = PS!LiveStatus
  BY DEF RC!LiveStatus, PS!LiveStatus
<1>3. RC!Row = PS!Row
  BY DEF RC!Row, PS!Row, RC!LiveStatus, PS!LiveStatus, RC!DeadStatus,
         PS!DeadStatus, RC!PlanTypes, PS!PlanTypes, RC!Date, PS!Date,
         RC!Code, PS!Code
<1>4. RC!NoticeTypes = PS!NoticeTypes
  BY DEF RC!NoticeTypes, PS!NoticeTypes
<1>5. RC!TableTypeOK <=> PS!TableTypeOK
  BY <1>3, <1>4 DEF RC!TableTypeOK, PS!TableTypeOK
<1>6. RC!LinkedToOwnRow <=> PS!LinkedToOwnRow
  BY <1>1 DEF RC!LinkedToOwnRow, PS!LinkedToOwnRow
<1>7. RC!NoMoneyWithoutSubscription <=> PS!NoMoneyWithoutSubscription
  BY <1>1, <1>4
     DEF RC!NoMoneyWithoutSubscription, PS!NoMoneyWithoutSubscription
<1> QED
  BY <1>1, <1>2, <1>3, <1>5, <1>6, <1>7

LEMMA OneTableThen ==
    /\ \A u : RC!RowsOf(u)' = RowsOf(u)' /\ PS!RowsOf(u)' = RowsOf(u)'
    /\ RC!TableTypeOK' <=> PS!TableTypeOK'
    /\ RC!LinkedToOwnRow' <=> PS!LinkedToOwnRow'
    /\ RC!NoMoneyWithoutSubscription' <=> PS!NoMoneyWithoutSubscription'
<1>1. \A u : RC!RowsOf(u)' = RowsOf(u)' /\ PS!RowsOf(u)' = RowsOf(u)'
  BY DEF RC!RowsOf, PS!RowsOf, RowsOf
<1>2. RC!NoticeTypes = PS!NoticeTypes
  BY DEF RC!NoticeTypes, PS!NoticeTypes
<1>3. RC!TableTypeOK' <=> PS!TableTypeOK'
  BY <1>2, OneTable DEF RC!TableTypeOK, PS!TableTypeOK
<1>4. RC!LinkedToOwnRow' <=> PS!LinkedToOwnRow'
  BY <1>1 DEF RC!LinkedToOwnRow, PS!LinkedToOwnRow
<1>5. RC!NoMoneyWithoutSubscription' <=> PS!NoMoneyWithoutSubscription'
  BY <1>1, <1>2
     DEF RC!NoMoneyWithoutSubscription, PS!NoMoneyWithoutSubscription
<1> QED
  BY <1>1, <1>3, <1>4, <1>5

---------------------------------------------------------------------------
(* Each part after a step of the others                                    *)

(* The store's handlers, when somebody else wrote the table.               *)
LEMMA StoreSurvives ==
    ASSUME StoreInv, PS!TableTypeOK', CardRowsOK', PS!LinkedToOwnRow',
           PS!NoMoneyWithoutSubscription', CardOwnersStay,
           UNCHANGED storeVars
    PROVE  StoreInv'
<1>1. UNCHANGED <<job, delivered, answered, duplicates, failures>>
  BY DEF storeVars
<1>2. RC!TypeOK'
  BY <1>1, OneTableThen DEF StoreInv, RC!TypeOK
<1>3. RC!ActiveRowsAreLive'
  BY
     DEF CardRowsOK, CardRowOK, RC!ActiveRowsAreLive, RC!LiveStatus,
         PS!LiveStatus
<1>4. StoreTableInv'
  BY <1>3, OneTableThen DEF StoreTableInv
<1>5. \A u \in Users : RC!RowsOf(u) \subseteq RC!RowsOf(u)'
  BY OneTable, OneTableThen DEF CardOwnersStay
<1>6. \A v \in Workers : StoreJobOK(v)'
  BY <1>1, <1>5, StoreJobStaysOK DEF StoreInv
<1> QED
  BY <1>2, <1>4, <1>6 DEF StoreInv

(* The card handlers, when somebody else wrote the table.                  *)
LEMMA CardsSurvive ==
    ASSUME CardInv, PS!TableTypeOK', CardRowsOK', PS!LinkedToOwnRow',
           PS!NoMoneyWithoutSubscription', CardOwnersStay,
           Len(subs) <= Len(subs'), UNCHANGED cardVars
    PROVE  CardInv'
<1>1. UNCHANGED <<call, charges, remote, hooks, mishaps, email, held, moves>>
  BY DEF cardVars
<1>2. PS!TypeOK'
  BY <1>1 DEF CardInv, PS!TypeOK
<1>3. CardPaidStays /\ CardHeldOK'
  BY <1>1, CardChargesStay DEF PS!addressVars, CardInv
<1>4. CardRemoteOK' /\ CardHooksOK'
  BY <1>1, <1>3, CardRemoteStaysOK, CardHookStaysOK
     DEF CardRemoteOK, CardHooksOK, CardInv
<1> QED
  BY <1>1, <1>2, <1>3, <1>4, CardStays

Source(u, ref) ==
    \/ CardBilledTo(ref, u)
    \/ \E e \in delivered : /\ e.type \in RC!PaidTypes
                            /\ e.ref = ref
                            /\ u \in RC!ResolvedUsers(e)

(* A source stays one, and a new payment has one.                          *)
LEMMA SourcesStay ==
    ASSUME PaymentsHaveASource, CardPaidStays, delivered \subseteq delivered',
           \A u \in Users, ref \in Refs :
              payments'[<<u, ref>>] # payments[<<u, ref>>] => Source(u, ref)'
    PROVE  PaymentsHaveASource'
<1>1. SUFFICES ASSUME NEW u \in Users, NEW ref \in Refs,
                      payments'[<<u, ref>>] > 0
               PROVE  Source(u, ref)'
  BY DEF PaymentsHaveASource, Source, CardBilledTo, CardPaidFrom
<1>2. CASE payments'[<<u, ref>>] # payments[<<u, ref>>]
  BY <1>2
<1>3. CASE payments'[<<u, ref>>] = payments[<<u, ref>>]
  <2>1. Source(u, ref)
    BY <1>1, <1>3
       DEF PaymentsHaveASource, Source, CardBilledTo, CardPaidFrom
  <2> QED
    BY <2>1, CardBilledToStays DEF Source
<1> QED
  BY <1>2, <1>3

(* Every write leaves its stamp on a row that is there.                    *)
LEMMA StampOK ==
    ASSUME ReadersOK, Stamp, Len(subs) \in Nat, Len(subs') \in Nat,
           Len(subs) <= Len(subs'), DOMAIN subs' = 1..Len(subs')
    PROVE  /\ latest' \in [Users -> Nat]
           /\ \A u \in Users : MayBeRow(latest[u])'
<1> DEFINE written(u) == {i \in DOMAIN subs' :
                             /\ subs'[i].userId = u
                             /\ i \in DOMAIN subs => subs'[i] # subs[i]}
<1>1. latest' = [u \in Users |-> IF written(u) = {} THEN latest[u]
                                 ELSE CHOOSE i \in written(u) : TRUE]
  BY DEF Stamp
<1>2. \A u \in Users : written(u) # {} =>
          (CHOOSE i \in written(u) : TRUE) \in 1..Len(subs')
  <2>1. \A u \in Users : written(u) \subseteq 1..Len(subs')
    OBVIOUS
  <2>2. \A S : S # {} => (CHOOSE i \in S : TRUE) \in S
    OBVIOUS
  <2> HIDE DEF written
  <2> QED
    BY <2>1, <2>2
<1>3. \A u \in Users : latest[u] \in Nat /\ (latest[u] = 0 \/ latest[u] \in 1..Len(subs'))
  BY DEF ReadersOK, MayBeRow
<1> HIDE DEF written
<1>4. \A u \in Users : latest'[u] \in Nat /\ (latest'[u] = 0 \/ latest'[u] \in 1..Len(subs'))
  <2> SUFFICES ASSUME NEW u \in Users
               PROVE  latest'[u] \in Nat /\ (latest'[u] = 0 \/ latest'[u] \in 1..Len(subs'))
    OBVIOUS
  <2>1. CASE written(u) = {}
    BY <1>1, <1>3, <2>1
  <2>2. CASE written(u) # {}
    <3>1. latest'[u] \in 1..Len(subs')
      BY <1>1, <1>2, <2>2
    <3> QED
      BY <3>1
  <2> QED
    BY <2>1, <2>2
<1>5. latest' \in [Users -> Nat]
  BY <1>1, <1>4
<1> QED
  BY <1>4, <1>5 DEF MayBeRow

LEMMA TableGrows ==
    ASSUME PS!TableTypeOK, PS!TableTypeOK', CardOwnersStay
    PROVE  /\ Len(subs) \in Nat /\ Len(subs') \in Nat
           /\ Len(subs) <= Len(subs')
           /\ DOMAIN subs = 1..Len(subs) /\ DOMAIN subs' = 1..Len(subs')
           /\ \A i \in 1..Len(subs) : /\ i \in 1..Len(subs')
                                      /\ subs'[i].userId = subs[i].userId
<1>1. /\ Len(subs) \in Nat /\ Len(subs') \in Nat
      /\ DOMAIN subs = 1..Len(subs) /\ DOMAIN subs' = 1..Len(subs')
      /\ \A i \in 1..Len(subs) : subs[i] \in PS!Row
  BY LenProperties, ElementOfSeq DEF PS!TableTypeOK
<1>2. ASSUME NEW i \in 1..Len(subs)
      PROVE  i \in 1..Len(subs') /\ subs'[i].userId = subs[i].userId
  <2>1. PICK u \in Users : u = subs[i].userId
    BY <1>1 DEF PS!Row
  <2>2. i \in PS!RowsOf(u)
    BY <2>1 DEF PS!RowsOf
  <2>3. i \in PS!RowsOf(u)'
    BY <2>1, <2>2 DEF CardOwnersStay
  <2> QED
    BY <2>1, <2>3 DEF PS!RowsOf
<1>3. Len(subs) <= Len(subs')
  <2>1. CASE Len(subs) = 0
    BY <1>1, <2>1
  <2>2. CASE Len(subs) # 0
    <3>1. Len(subs) \in 1..Len(subs)
      BY <1>1, <2>2
    <3>2. Len(subs) \in 1..Len(subs')
      BY <1>2, <3>1
    <3> QED
      BY <1>1, <3>2
  <2> QED
    BY <2>1, <2>2
<1> QED
  BY <1>1, <1>2, <1>3

LEMMA GiftStaysOK ==
    ASSUME NEW w \in Workers, GiftOK(w), job'[w] = job[w]
    PROVE  GiftOK(w)'
BY DEF GiftOK, RC!ResolvedUsers

(* The rows a reader goes by, after a write that left it alone.            *)
LEMMA ReadersStayOK ==
    ASSUME ReadersOK, Stamp, UNCHANGED expiring,
           PS!TableTypeOK, PS!TableTypeOK', CardOwnersStay
    PROVE  ReadersOK'
<1>1. /\ latest' \in [Users -> Nat]
      /\ \A u \in Users : MayBeRow(latest[u])'
  BY TableGrows, StampOK
<1>2. \A q \in Readers : MayBeRow(expiring[q])'
  BY TableGrows DEF ReadersOK, MayBeRow
<1> QED
  BY <1>1, <1>2 DEF ReadersOK

LEMMA CardsKeepInv ==
    ASSUME Inv, Cards
    PROVE  Inv'
<1>1. CardInv /\ StoreInv /\ PaymentsHaveASource /\ ReadersOK
  BY DEF Inv
<1>2. PS!PsNext /\ Stamp /\ UNCHANGED storeVars /\ UNCHANGED expiring
  BY DEF Cards
<1>3. CardInv' /\ CardPaidStays /\ CardOwnersStay /\ CardChargesPay
  BY <1>1, <1>2, CardInvNext DEF CardKept
<1>4. /\ PS!TableTypeOK /\ PS!TableTypeOK' /\ CardRowsOK'
      /\ PS!LinkedToOwnRow' /\ PS!NoMoneyWithoutSubscription'
  BY <1>1, <1>3 DEF CardInv, PS!TypeOK
<1>5. StoreInv'
  BY <1>1, <1>2, <1>3, <1>4, StoreSurvives
<1>6. PaymentsHaveASource'
  <2>1. delivered \subseteq delivered'
    BY <1>2 DEF storeVars
  <2> QED
    BY <1>1, <1>3, <2>1, SourcesStay DEF CardChargesPay, Source
<1>7. \A w \in Workers : GiftOK(w)'
  BY <1>2, GiftStaysOK DEF Inv, storeVars
<1>8. ReadersOK'
  BY <1>1, <1>2, <1>3, <1>4, ReadersStayOK
<1> QED
  BY <1>3, <1>5, <1>6, <1>7, <1>8 DEF Inv

(* The clock, and a reader that has found a lapsed row.                    *)
LEMMA QuietStepKeepsInv ==
    ASSUME Inv, now' \in Nat,
           UNCHANGED <<plans, subs, linked, payments, notices>>,
           UNCHANGED storeVars, UNCHANGED cardVars, ReadersOK'
    PROVE  Inv'
<1>1. CardInv /\ StoreInv /\ PaymentsHaveASource
  BY DEF Inv
<1>2. PS!TableTypeOK'
  BY <1>1 DEF CardInv, PS!TypeOK, PS!TableTypeOK
<1>3. CardOwnersStay /\ Len(subs) \in Nat /\ Len(subs) <= Len(subs')
  BY <1>1, CardSubsStay, LenProperties DEF CardInv, PS!TypeOK, PS!TableTypeOK
<1>4. /\ CardPaidStays /\ CardHeldOK'
      /\ UNCHANGED <<job, delivered, charges>>
  BY <1>1, CardChargesStay DEF cardVars, storeVars, PS!addressVars, CardInv
<1>5. CardRowsOK' /\ PS!LinkedToOwnRow' /\ PS!NoMoneyWithoutSubscription'
  BY <1>1, <1>4, CardTableStays
<1>6. StoreInv' /\ CardInv'
  BY <1>1, <1>2, <1>3, <1>5, StoreSurvives, CardsSurvive
<1>7. PaymentsHaveASource'
  BY <1>1, <1>4, SourcesStay
<1>8. \A w \in Workers : GiftOK(w)'
  BY <1>4, GiftStaysOK DEF Inv
<1> QED
  BY <1>6, <1>7, <1>8 DEF Inv

LEMMA MeKeepsInv ==
    ASSUME Inv, NEW q \in Readers, NEW u \in Users, Me(q, u)
    PROVE  Inv'
<1>1. /\ expiring' = [expiring EXCEPT ![q] = latest[u]]
      /\ UNCHANGED <<tableVars, storeVars, cardVars, latest>>
  BY DEF Me
<1>2. UNCHANGED <<now, plans, subs, linked, payments, notices>>
  BY <1>1 DEF tableVars
<1>3. ReadersOK'
  BY <1>1, <1>2 DEF Inv, ReadersOK, MayBeRow
<1>4. now' \in Nat
  BY <1>2 DEF Inv, CardInv, PS!TypeOK, PS!TableTypeOK
<1> QED
  BY <1>1, <1>2, <1>3, <1>4, QuietStepKeepsInv

LEMMA RefreshKeepsInv ==
    ASSUME Inv, NEW u \in Users, Refresh(u)
    PROVE  Inv'
<1>1. PICK r \in RowsOf(u) : latest' = [latest EXCEPT ![u] = r]
  BY DEF Refresh
<1>2. UNCHANGED <<tableVars, storeVars, cardVars, expiring>>
  BY DEF Refresh
<1>3. UNCHANGED <<now, plans, subs, linked, payments, notices>>
  BY <1>2 DEF tableVars
<1>4. Len(subs) \in Nat /\ r \in 1..Len(subs)
  BY LenProperties DEF Inv, CardInv, PS!TypeOK, PS!TableTypeOK, RowsOf
<1>5. ReadersOK'
  BY <1>1, <1>2, <1>3, <1>4 DEF Inv, ReadersOK, MayBeRow
<1>6. now' \in Nat
  BY <1>3 DEF Inv, CardInv, PS!TypeOK, PS!TableTypeOK
<1> QED
  BY <1>2, <1>3, <1>5, <1>6, QuietStepKeepsInv

LEMMA TickKeepsInv ==
    ASSUME Inv, Tick
    PROVE  Inv'
<1>1. /\ now' = now + 1
      /\ UNCHANGED <<plans, subs, linked, payments, notices>>
      /\ UNCHANGED storeVars /\ UNCHANGED cardVars
      /\ UNCHANGED <<latest, expiring>>
  BY DEF Tick, readVars
<1>2. now' \in Nat
  BY <1>1 DEF Inv, CardInv, PS!TypeOK, PS!TableTypeOK
<1>3. ReadersOK'
  BY <1>1 DEF Inv, ReadersOK, MayBeRow
<1> QED
  BY <1>1, <1>2, <1>3, QuietStepKeepsInv

ExpiredRow(old) == [old EXCEPT !.isActive = FALSE, !.status = "expired"]

LEMMA ExpiredRowTypes ==
    ASSUME NEW old \in PS!Row
    PROVE  /\ ExpiredRow(old) \in PS!Row
           /\ ExpiredRow(old).userId = old.userId
           /\ ExpiredRow(old).paystackSubId = old.paystackSubId
           /\ ExpiredRow(old).isActive = FALSE
BY DEF ExpiredRow, PS!Row, PS!DeadStatus

(* The write of GET /auth/me, to whatever the row has become.              *)
LEMMA Expires ==
    ASSUME Inv, NEW q \in Readers, MeExpire(q)
    PROVE  \E r \in 1..Len(subs) :
              /\ subs[r] \in PS!Row
              /\ PS!Update(r, ExpiredRow(subs[r]))
<1>1. /\ expiring[q] # 0
      /\ subs' = [subs EXCEPT ![expiring[q]] = ExpiredRow(subs[expiring[q]])]
  BY DEF MeExpire, Update, ExpiredRow
<1>2. expiring[q] \in 1..Len(subs)
  BY <1>1 DEF Inv, ReadersOK, MayBeRow
<1>3. subs[expiring[q]] \in PS!Row
  BY <1>2, CardRowIsRow DEF Inv, CardInv
<1> QED
  BY <1>1, <1>2, <1>3 DEF PS!Update

LEMMA MeExpireKeepsInv ==
    ASSUME Inv, NEW q \in Readers, MeExpire(q)
    PROVE  Inv'
<1>1. CardInv /\ StoreInv /\ PaymentsHaveASource /\ ReadersOK
  BY DEF Inv
<1>2. /\ expiring' = [expiring EXCEPT ![q] = 0] /\ Stamp
      /\ UNCHANGED <<now, plans, linked, payments, notices>>
      /\ UNCHANGED storeVars /\ UNCHANGED cardVars
  BY DEF MeExpire
<1>3. UNCHANGED <<job, delivered, charges, PS!addressVars>>
  BY <1>2 DEF storeVars, cardVars, PS!addressVars
<1>4. PICK r \in 1..Len(subs) : /\ subs[r] \in PS!Row
                                /\ PS!Update(r, ExpiredRow(subs[r]))
  BY Expires
<1>5. PICK row : row = ExpiredRow(subs[r])
  OBVIOUS
<1>6. row \in PS!Row /\ CardRowOK(row) /\ row.userId = subs[r].userId
  <2>1. CardRowOK(subs[r])
    BY <1>1 DEF CardInv, CardRowsOK
  <2> QED
    BY <1>4, <1>5, <2>1, ExpiredRowTypes, CardDeadRowOK
<1>7. /\ subs' \in Seq(PS!Row) /\ Len(subs) <= Len(subs')
      /\ CardOwnersStay /\ CardRowsOK'
  BY <1>1, <1>3, <1>4, <1>5, <1>6, CardUpdateWrites
<1>8. PS!TableTypeOK /\ PS!TableTypeOK'
  BY <1>1, <1>2, <1>7 DEF CardInv, PS!TypeOK, PS!TableTypeOK
<1>9. PS!LinkedToOwnRow'
  BY <1>1, <1>2, <1>7, CardLinksStay
<1>10. PS!NoMoneyWithoutSubscription'
  BY <1>1, <1>2, <1>7
     DEF CardInv, PS!NoMoneyWithoutSubscription, CardOwnersStay
<1>11. StoreInv' /\ CardInv'
  BY <1>1, <1>2, <1>7, <1>8, <1>9, <1>10, StoreSurvives, CardsSurvive
<1>12. PaymentsHaveASource'
  BY <1>1, <1>2, <1>3, CardChargesStay, SourcesStay
<1>13. \A w \in Workers : GiftOK(w)'
  BY <1>3, GiftStaysOK DEF Inv
<1>14. ReadersOK'
  <2>1. /\ latest' \in [Users -> Nat]
        /\ \A u \in Users : MayBeRow(latest[u])'
    BY <1>1, <1>2, <1>7, <1>8, TableGrows, StampOK
  <2>2. expiring' \in [Readers -> Nat]
    BY <1>1, <1>2 DEF ReadersOK
  <2>3. \A p \in Readers : MayBeRow(expiring[p])'
    BY <1>1, <1>2, <1>7, <1>8, TableGrows DEF ReadersOK, MayBeRow
  <2> QED
    BY <2>1, <2>2, <2>3 DEF ReadersOK
<1> QED
  BY <1>11, <1>12, <1>13, <1>14 DEF Inv

---------------------------------------------------------------------------
(* What the store's handlers add: rows without a code of Paystack's, and   *)
(* payments of purchases                                                   *)

LEMMA GivenRowSays ==
    ASSUME NEW w \in Workers, NEW old,
           old \in RC!Row \/ \E u \in Users : old = RC!BlankRow(u)
    PROVE  /\ RC!GivenRow(w, old).paystackSubId = old.paystackSubId
           /\ \A u : old = RC!BlankRow(u) =>
                 RC!GivenRow(w, old).paystackSubId = None
BY DEF RC!GivenRow, RC!BlankRow, RC!Row

LEMMA TakenRowSays ==
    ASSUME NEW w \in Workers, NEW r, subs[r] \in RC!Row
    PROVE  RC!TakenRow(w, r).paystackSubId = subs[r].paystackSubId
BY DEF RC!TakenRow, RC!Row

LEMMA EndingRowSays ==
    ASSUME NEW r, subs[r] \in RC!Row
    PROVE  /\ RC!EndingRow(r).paystackSubId = subs[r].paystackSubId
           /\ RC!EndingRow(r).isActive = subs[r].isActive
BY DEF RC!EndingRow, RC!Row

(* A row the store's handler w writes over the row r.                      *)
StoreRewrites(w, r, row) ==
    /\ r = job[w].row /\ r \in 1..Len(subs)
    /\ row \in RC!Row
    /\ RC!Update(r, row)
    /\ row.userId = subs[r].userId
    /\ row.paystackSubId = subs[r].paystackSubId
    /\ row.isActive => subs[r].isActive \/ RC!WritingTask(w, "give")

StoreCreates(row) == row \in RC!Row /\ RC!Create(row) /\ row.paystackSubId = None

LEMMA GiveWrites ==
    ASSUME StoreInv, NEW w \in Workers, RC!Give(w)
    PROVE  \/ \E row : StoreCreates(row)
           \/ \E r, row : StoreRewrites(w, r, row)
<1>1. RC!WritingTask(w, "give")
  BY DEF RC!Give
<1>2. job[w].pc = "write" /\ Head(job[w].todo).op = "give"
  BY <1>1 DEF RC!WritingTask
<1>3. /\ RC!TaskUser(w) \in Users /\ job[w].req \in Requests
      /\ job[w].plan \in Plans /\ RC!TypeOK
  BY <1>2, StoreWriting, StoreGiftHasPlan DEF StoreInv
<1>4. CASE job[w].row = 0 /\ RC!Create(RC!GivenRow(w, RC!BlankRow(RC!TaskUser(w))))
  <2>1. PICK u \in Users : u = RC!TaskUser(w)
    BY <1>3
  <2>2. PICK old : old = RC!BlankRow(u)
    OBVIOUS
  <2>3. RC!GivenRow(w, old) \in RC!Row
    BY <1>3, <2>2, StoreGivenRowTypes
  <2>4. RC!GivenRow(w, old).paystackSubId = None
    BY <2>2, GivenRowSays
  <2> QED
    BY <1>4, <2>1, <2>2, <2>3, <2>4 DEF StoreCreates
<1>5. CASE job[w].row # 0 /\ RC!Update(job[w].row, RC!GivenRow(w, subs[job[w].row]))
  <2>1. PICK r : r = job[w].row
    OBVIOUS
  <2>2. r \in 1..Len(subs)
    BY <1>2, <1>3, <1>5, <2>1 DEF StoreInv, StoreJobOK, RC!RowsOf
  <2>3. subs[r] \in RC!Row
    BY <1>3, <2>2, ElementOfSeq DEF RC!TypeOK, RC!TableTypeOK
  <2>4. PICK row : row = RC!GivenRow(w, subs[r])
    OBVIOUS
  <2>5. row \in RC!Row /\ row.userId = subs[r].userId
    BY <1>3, <2>3, <2>4, StoreGivenRowTypes
  <2>6. row.paystackSubId = subs[r].paystackSubId
    BY <2>3, <2>4, GivenRowSays
  <2> QED
    BY <1>1, <1>5, <2>1, <2>2, <2>4, <2>5, <2>6 DEF StoreRewrites
<1> QED
  BY <1>4, <1>5 DEF RC!Give

LEMMA TakeWrites ==
    ASSUME StoreInv, NEW w \in Workers, RC!Take(w) \/ RC!End(w)
    PROVE  \E r, row : StoreRewrites(w, r, row)
<1>1. /\ job[w].pc = "write" /\ Head(job[w].todo).op \in {"take", "end"}
      /\ RC!TypeOK
  BY DEF RC!Take, RC!End, RC!WritingTask, StoreInv
<1>2. PICK r : r = job[w].row
  OBVIOUS
<1>3. r \in 1..Len(subs)
  BY <1>1, <1>2, StoreWriting DEF RC!RowsOf
<1>4. subs[r] \in RC!Row
  BY <1>1, <1>3, ElementOfSeq DEF RC!TypeOK, RC!TableTypeOK
<1>5. CASE RC!Take(w)
  <2>1. PICK row : row = RC!TakenRow(w, r)
    OBVIOUS
  <2>2. /\ row \in RC!Row /\ row.userId = subs[r].userId
        /\ row.isActive = FALSE
    BY <1>1, <1>3, <2>1, StoreTakenRowTypes
  <2>3. row.paystackSubId = subs[r].paystackSubId
    BY <1>4, <2>1, TakenRowSays
  <2>4. RC!Update(r, row)
    BY <1>2, <1>5, <2>1 DEF RC!Take
  <2> QED
    BY <1>2, <1>3, <2>2, <2>3, <2>4 DEF StoreRewrites
<1>6. CASE RC!End(w)
  <2>1. PICK row : row = RC!EndingRow(r)
    OBVIOUS
  <2>2. row \in RC!Row /\ row.userId = subs[r].userId
    BY <1>1, <1>3, <2>1, StoreEndingRowTypes
  <2>3. row.paystackSubId = subs[r].paystackSubId /\ row.isActive = subs[r].isActive
    BY <1>4, <2>1, EndingRowSays
  <2>4. RC!Update(r, row)
    BY <1>2, <1>6, <2>1 DEF RC!End
  <2> QED
    BY <1>2, <1>3, <2>2, <2>3, <2>4 DEF StoreRewrites
<1> QED
  BY <1>5, <1>6

LEMMA StoreWrites ==
    ASSUME StoreInv, RC!RcNext
    PROVE  \/ UNCHANGED subs
           \/ \E row : StoreCreates(row)
           \/ \E w \in Workers : \E r, row : StoreRewrites(w, r, row)
<1>1. ASSUME NEW w \in Workers, NEW e \in Requests,
             RC!Receive(w, e) \/ RC!Duplicate(w, e)
      PROVE  UNCHANGED subs
  BY <1>1 DEF RC!Receive, RC!Duplicate, RC!Start, RC!tableVars
<1>2. ASSUME NEW w \in Workers,
             \/ RC!Answer(w) \/ RC!Plan(w) \/ RC!NoPlanToGive(w)
             \/ RC!SkipStranger(w) \/ RC!FindToGive(w) \/ RC!Link(w)
             \/ RC!Pay(w) \/ RC!FindActive(w) \/ RC!Notify(w) \/ RC!Fail(w)
      PROVE  UNCHANGED subs
  BY <1>2 DEF RC!Answer, RC!Plan, RC!NoPlanToGive, RC!SkipStranger,
              RC!FindToGive, RC!Link, RC!Pay, RC!FindActive, RC!Notify,
              RC!Fail, RC!tableVars
<1> QED
  BY <1>1, <1>2, GiveWrites, TakeWrites DEF RC!RcNext, RC!RcStep

(* A gift that goes to pay goes to the user its request names.             *)
LEMMA StorePays ==
    ASSUME StoreInv, \A w \in Workers : GiftOK(w), RC!RcNext,
           NEW u \in Users, NEW ref \in Refs,
           payments'[<<u, ref>>] # payments[<<u, ref>>]
    PROVE  \E e \in delivered : /\ e.type \in RC!PaidTypes
                                /\ e.ref = ref
                                /\ u \in RC!ResolvedUsers(e)
<1>1. ASSUME NEW w \in Workers, NEW e \in Requests,
             RC!Receive(w, e) \/ RC!Duplicate(w, e)
      PROVE  UNCHANGED payments
  BY <1>1 DEF RC!Receive, RC!Duplicate, RC!Start, RC!tableVars
<1>2. ASSUME NEW w \in Workers,
             \/ RC!Answer(w) \/ RC!Plan(w) \/ RC!NoPlanToGive(w)
             \/ RC!SkipStranger(w) \/ RC!FindToGive(w) \/ RC!Link(w)
             \/ RC!Give(w) \/ RC!Take(w) \/ RC!End(w)
             \/ RC!FindActive(w) \/ RC!Notify(w) \/ RC!Fail(w)
      PROVE  UNCHANGED payments
  BY <1>2 DEF RC!Answer, RC!Plan, RC!NoPlanToGive, RC!SkipStranger,
              RC!FindToGive, RC!Link, RC!Give, RC!Take, RC!End,
              RC!FindActive, RC!Notify, RC!Fail, RC!tableVars
<1>3. PICK w \in Workers : RC!Pay(w)
  BY <1>1, <1>2 DEF RC!RcNext, RC!RcStep
<1>4. PICK e : e = job[w].req
  OBVIOUS
<1>5. /\ job[w].pc = "pay" /\ e.type \in RC!PaidTypes
      /\ RC!RecordPayment(RC!TaskUser(w), e.ref)
  BY <1>3, <1>4 DEF RC!Pay
<1>6. /\ job[w].todo # <<>> /\ job[w].todo \in Seq(RC!Task)
      /\ RC!TaskUser(w) \in Users /\ e \in Requests /\ e \in delivered
  BY <1>4, <1>5, StoreWriting DEF StoreInv, StoreJobOK
<1>7. /\ 1 \in 1..Len(job[w].todo)
      /\ job[w].todo[1] = Head(job[w].todo)
  BY <1>6, HeadTailProperties, LenProperties, EmptySeq
<1>8. RC!TaskUser(w) \in RC!ResolvedUsers(e)
  BY <1>4, <1>5, <1>7 DEF GiftOK, RC!TaskUser
<1>9. e.ref \in Refs
  BY <1>6, StoreConstants DEF RC!Request
<1>10. payments \in [Users \X Refs -> Nat]
  BY DEF StoreInv, RC!TypeOK, RC!TableTypeOK
<1>11. u = RC!TaskUser(w) /\ ref = e.ref
  <2>1. PICK v \in Users, other \in Refs : v = RC!TaskUser(w) /\ other = e.ref
    BY <1>6, <1>9
  <2>2. payments' = [payments EXCEPT ![<<v, other>>] = @ + 1]
    BY <1>5, <2>1 DEF RC!RecordPayment
  <2> QED
    BY <1>10, <2>1, <2>2
<1> QED
  BY <1>5, <1>6, <1>8, <1>11

---------------------------------------------------------------------------
(* Gifts                                                                   *)

LEMMA GiftStarts ==
    ASSUME NEW w \in Workers, NEW e \in RC!Request,
           NEW tasks \in RC!TaskLists(e),
           job'[w].pc = "next", job'[w].req = e, job'[w].todo = tasks
    PROVE  GiftOK(w)'
<1>1. SUFFICES ASSUME e.type \in RC!PaidTypes, NEW i \in 1..Len(tasks),
                      tasks[i].op = "give"
               PROVE  tasks[i].user \in RC!ResolvedUsers(e)
  BY DEF GiftOK, RC!ResolvedUsers
<1>2. /\ e.type \in RC!GivingTypes /\ e.type # "TRANSFER"
  BY <1>1 DEF RC!PaidTypes, RC!GivingTypes
<1>3. tasks # <<>>
  BY <1>1
<1>4. PICK u \in RC!ResolvedUsers(e) : tasks = RC!UserTasks(e, u)
  BY <1>2, <1>3 DEF RC!TaskLists
<1>5. tasks = RC!FindPlan \o RC!Each("give", <<u>>)
  BY <1>2, <1>4 DEF RC!UserTasks, RC!GivingTypes, RC!EndingTypes
<1>6. /\ RC!FindPlan \in Seq(RC!Task) /\ Len(RC!FindPlan) = 1
      /\ RC!FindPlan[1].op = "plan"
  BY StoreFindPlanTypes
<1>7. u \in RC!Ids
  BY <1>4 DEF RC!ResolvedUsers, RC!Ids
<1>8. PICK gives : gives = RC!Each("give", <<u>>)
  OBVIOUS
<1>9. gives \in Seq(RC!Task) /\ Len(gives) = 1 /\ gives[1].user = u
  <2>1. <<u>> \in Seq(RC!Ids) /\ Len(<<u>>) = 1
    BY <1>7
  <2>2. gives \in Seq(RC!Task) /\ Len(gives) = 1
    BY <1>8, <2>1, StoreEachTypes DEF StoreUserOps
  <2>3. gives[1] = [op |-> "give", user |-> u]
    BY <1>8 DEF RC!Each
  <2> QED
    BY <2>2, <2>3
<1>10. /\ Len(tasks) = 2
       /\ tasks[1] = RC!FindPlan[1] /\ tasks[2] = gives[1]
  <2>1. PICK plan : plan = RC!FindPlan
    OBVIOUS
  <2>2. /\ plan \in Seq(RC!Task) /\ Len(plan) = 1
        /\ tasks = plan \o gives
    BY <1>5, <1>6, <1>8, <2>1
  <2>3. /\ Len(tasks) = 2
        /\ \A k \in 1..2 : tasks[k] = IF k <= 1 THEN plan[k] ELSE gives[k - 1]
    BY <1>9, <2>2, ConcatProperties
  <2>4. tasks[1] = plan[1] /\ tasks[2] = gives[2 - 1]
    BY <2>3
  <2> QED
    BY <2>1, <2>3, <2>4
<1>11. i = 2
  BY <1>1, <1>6, <1>10
<1> QED
  BY <1>4, <1>9, <1>10, <1>11

(* A handler that goes on with its task.                                   *)
LEMMA GiftGoesOn ==
    ASSUME NEW w \in Workers, GiftOK(w), job[w].pc # "idle",
           job'[w].req = job[w].req, job'[w].todo = job[w].todo,
           job'[w].pc \in {"link", "pay"} => Head(job[w].todo).op = "give"
    PROVE  GiftOK(w)'
BY DEF GiftOK, RC!ResolvedUsers

(* A handler whose task is done.                                           *)
LEMMA GiftIsDone ==
    ASSUME NEW w \in Workers, GiftOK(w), job[w].pc # "idle",
           job[w].todo \in Seq(RC!Task), job[w].todo # <<>>,
           job'[w].req = job[w].req, job'[w].todo = Tail(job[w].todo),
           job'[w].pc = "next"
    PROVE  GiftOK(w)'
<1>1. PICK todo, e : todo = job[w].todo /\ e = job[w].req
  OBVIOUS
<1>2. /\ Len(todo) \in Nat /\ Len(Tail(todo)) = Len(todo) - 1
      /\ \A i \in 1..Len(Tail(todo)) : Tail(todo)[i] = todo[i + 1]
  BY <1>1, HeadTailProperties, LenProperties
<1>3. ASSUME e.type \in RC!PaidTypes, NEW i \in 1..Len(Tail(todo)),
             Tail(todo)[i].op = "give"
      PROVE  Tail(todo)[i].user \in RC!ResolvedUsers(e)
  <2>1. i + 1 \in 1..Len(todo) /\ Tail(todo)[i] = todo[i + 1]
    BY <1>2
  <2> QED
    BY <1>1, <1>3, <2>1 DEF GiftOK
<1> QED
  BY <1>1, <1>3 DEF GiftOK, RC!ResolvedUsers

LEMMA GiftIsOver ==
    ASSUME NEW w \in Workers, job'[w] = RC!Idle
    PROVE  GiftOK(w)'
BY DEF GiftOK, RC!Idle

(* What a step of handler w does to w, and that it does nothing to others. *)
LEMMA StoreKeepsGifts ==
    ASSUME StoreInv, \A w \in Workers : GiftOK(w), RC!RcNext
    PROVE  \A w \in Workers : GiftOK(w)'
<1> DEFINE Others(w) == \A v \in Workers \ {w} : job'[v] = job[v]
<1>1. RC!TypeOK
  BY DEF StoreInv
<1>2. \A w \in Workers : job[w].todo \in Seq(RC!Task) /\ job[w].row \in Nat
  BY <1>1 DEF RC!TypeOK, RC!Job
<1>3. ASSUME NEW w \in Workers, NEW e \in Requests,
             RC!Receive(w, e) \/ RC!Duplicate(w, e)
      PROVE  GiftOK(w)' /\ Others(w)
  <2>1. PICK tasks \in RC!TaskLists(e) :
           job' = [job EXCEPT ![w] = [RC!Idle EXCEPT !.pc = "next", !.req = e,
                                                     !.todo = tasks]]
    BY <1>3 DEF RC!Receive, RC!Duplicate, RC!Start
  <2>2. /\ job'[w].pc = "next" /\ job'[w].req = e /\ job'[w].todo = tasks
        /\ Others(w)
    BY <1>1, <2>1 DEF RC!TypeOK, RC!Idle
  <2> QED
    BY <2>2, StoreConstants, GiftStarts
<1>4. ASSUME NEW w \in Workers,
             RC!Answer(w) \/ RC!Fail(w) \/ RC!NoPlanToGive(w)
      PROVE  GiftOK(w)' /\ Others(w)
  <2>1. job' = [job EXCEPT ![w] = RC!Idle]
    BY <1>4 DEF RC!Answer, RC!Fail, RC!NoPlanToGive
  <2> QED
    BY <1>1, <2>1, StoreIdleTypes, GiftIsOver
<1>5. ASSUME NEW w \in Workers, RC!Plan(w)
      PROVE  GiftOK(w)' /\ Others(w)
  <2>1. /\ job[w].pc = "next" /\ job[w].todo # <<>>
        /\ \E p : job' = [job EXCEPT ![w].plan = p, ![w].todo = Tail(@)]
    BY <1>5 DEF RC!Plan, RC!AtTask
  <2>2. /\ job'[w].pc = "next" /\ job'[w].req = job[w].req
        /\ job'[w].todo = Tail(job[w].todo) /\ Others(w)
    BY <1>1, <2>1 DEF RC!TypeOK, RC!Job
  <2> QED
    BY <1>2, <2>1, <2>2, GiftIsDone
<1>6. ASSUME NEW w \in Workers, RC!TaskDone(w), job[w].todo # <<>>,
             job[w].pc # "idle"
      PROVE  GiftOK(w)' /\ Others(w)
  BY <1>1, <1>2, <1>6, StoreTaskDoneTypes, GiftIsDone
<1>7. ASSUME NEW w \in Workers, NEW pc \in RC!PCs, NEW r \in Nat,
             RC!StepWithRow(w, pc, r) \/ (r = job[w].row /\ RC!Step(w, pc)),
             job[w].pc # "idle",
             pc \in {"link", "pay"} => Head(job[w].todo).op = "give"
      PROVE  GiftOK(w)' /\ Others(w)
  <2>1. /\ job'[w].pc = pc /\ job'[w].req = job[w].req
        /\ job'[w].todo = job[w].todo /\ Others(w)
    BY <1>1, <1>7, StoreStepTypes
  <2> QED
    BY <1>7, <2>1, GiftGoesOn
<1>8. ASSUME NEW w \in Workers, RC!FindToGive(w)
      PROVE  GiftOK(w)' /\ Others(w)
  <2>1. PICK r \in RC!FindFirst(RC!RowsToGive(RC!TaskUser(w))) :
           RC!StepWithRow(w, "write", r)
    BY <1>8 DEF RC!FindToGive
  <2>2. r \in Nat
    BY <2>1 DEF RC!FindFirst, RC!RowsToGive, RC!Newest, RC!RowsOf
  <2> QED
    BY <1>7, <1>8, <2>1, <2>2 DEF RC!FindToGive, RC!AtTask, RC!PCs
<1>9. ASSUME NEW w \in Workers, RC!FindActive(w)
      PROVE  GiftOK(w)' /\ Others(w)
  <2>1. job[w].pc = "next" /\ job[w].todo # <<>>
    BY <1>9 DEF RC!FindActive, RC!AtTask
  <2>2. CASE RC!TaskDone(w)
    BY <1>6, <2>1, <2>2
  <2>3. ASSUME NEW r \in RC!Newest(RC!ActiveRows(RC!TaskUser(w))),
               RC!StepWithRow(w, "write", r)
        PROVE  GiftOK(w)' /\ Others(w)
    <3>1. r \in Nat
      BY <2>3 DEF RC!Newest, RC!ActiveRows, RC!RowsOf
    <3> QED
      BY <1>7, <2>1, <2>3, <3>1 DEF RC!PCs
  <2> QED
    BY <1>9, <2>2, <2>3 DEF RC!FindActive
<1>10. ASSUME NEW w \in Workers, RC!Give(w)
       PROVE  GiftOK(w)' /\ Others(w)
  <2>1. job[w].pc = "write" /\ Head(job[w].todo).op = "give"
    BY <1>10 DEF RC!Give, RC!WritingTask
  <2>2. Len(subs) + 1 \in Nat
    BY <1>1, LenProperties DEF RC!TypeOK, RC!TableTypeOK
  <2>3. \/ RC!StepWithRow(w, "link", Len(subs) + 1)
        \/ RC!Step(w, "link")
    BY <1>10 DEF RC!Give
  <2> QED
    BY <1>2, <1>7, <2>1, <2>2, <2>3 DEF RC!PCs
<1>11. ASSUME NEW w \in Workers, RC!Link(w) \/ RC!Pay(w)
       PROVE  GiftOK(w)' /\ Others(w)
  <2>1. /\ job[w].pc \in {"link", "pay"}
        /\ RC!Step(w, "pay") \/ RC!Step(w, "notify")
    BY <1>11 DEF RC!Link, RC!Pay
  <2>2. Head(job[w].todo).op = "give"
    BY <2>1 DEF GiftOK
  <2> QED
    BY <1>2, <1>7, <2>1, <2>2 DEF RC!PCs
<1>12. ASSUME NEW w \in Workers, RC!Take(w) \/ RC!End(w) \/ RC!Notify(w)
       PROVE  GiftOK(w)' /\ Others(w)
  <2>1. /\ job[w].pc \in {"write", "notify"}
        /\ RC!TaskDone(w) \/ RC!Step(w, "notify")
    BY <1>12 DEF RC!Take, RC!End, RC!Notify, RC!WritingTask
  <2>2. job[w].todo # <<>>
    BY <2>1, StoreWriting
  <2> QED
    BY <1>2, <1>6, <1>7, <2>1, <2>2 DEF RC!PCs
<1>13. ASSUME NEW w \in Workers, RC!SkipStranger(w)
       PROVE  GiftOK(w)' /\ Others(w)
  BY <1>6, <1>13 DEF RC!SkipStranger, RC!AtTask
<1>14. \E w \in Workers : GiftOK(w)' /\ Others(w)
  BY <1>3, <1>4, <1>5, <1>8, <1>9, <1>10, <1>11, <1>12, <1>13
     DEF RC!RcNext, RC!RcStep
<1> QED
  BY <1>14, GiftStaysOK

---------------------------------------------------------------------------
(* The invariant                                                           *)

LEMMA StoreKeepsInv ==
    ASSUME Inv, Store
    PROVE  Inv'
<1>1. CardInv /\ StoreInv /\ PaymentsHaveASource /\ ReadersOK
  BY DEF Inv
<1>2. RC!RcNext /\ Stamp /\ UNCHANGED cardVars /\ UNCHANGED expiring
  BY DEF Store
<1>3. StoreInv'
  BY <1>1, <1>2, StoreInvNext
<1>4. UNCHANGED charges /\ CardPaidStays
  BY <1>2, CardChargesStay DEF cardVars, PS!addressVars
<1>5. /\ PS!TypeOK /\ PS!TableTypeOK /\ PS!TableTypeOK'
      /\ PS!LinkedToOwnRow' /\ PS!NoMoneyWithoutSubscription'
      /\ \A i \in 1..Len(subs)' : subs'[i].isActive => subs'[i].status \in PS!LiveStatus
  <2>1. RC!TableTypeOK' /\ StoreTableInv'
    BY <1>3 DEF StoreInv, RC!TypeOK
  <2> QED
    BY <1>1, <2>1, OneTable, OneTableThen
       DEF CardInv, PS!TypeOK, StoreTableInv, RC!ActiveRowsAreLive
<1>6. /\ CardOwnersStay
      /\ \A i \in 1..Len(subs)' : CardOwnCode(subs'[i].paystackSubId, subs'[i].userId)
  <2>1. \A i \in 1..Len(subs) : CardOwnCode(subs[i].paystackSubId, subs[i].userId)
    BY <1>1 DEF CardInv, CardRowsOK, CardRowOK
  <2>2. CASE UNCHANGED subs
    BY <2>1, <2>2, CardSubsStay
  <2>3. ASSUME NEW row, StoreCreates(row)
        PROVE  <1>6!1 /\ <1>6!2
    <3>1. /\ Len(subs) \in Nat /\ Len(subs') = Len(subs) + 1
          /\ \A i \in 1..Len(subs) : subs'[i] = subs[i]
          /\ subs'[Len(subs) + 1] = row
      BY <1>5, <2>3, OneTable, CardCreateMoves
         DEF StoreCreates, RC!Create, PS!Create
    <3>2. CardOwnersStay
      BY <3>1 DEF CardOwnersStay, PS!RowsOf
    <3>3. CardOwnCode(row.paystackSubId, row.userId)
      BY <2>3 DEF StoreCreates, CardOwnCode
    <3> QED
      BY <2>1, <3>1, <3>2, <3>3
  <2>4. ASSUME NEW w \in Workers, NEW r, NEW row, StoreRewrites(w, r, row)
        PROVE  <1>6!1 /\ <1>6!2
    <3>1. /\ Len(subs) \in Nat /\ Len(subs') = Len(subs)
          /\ \A i \in 1..Len(subs) : subs'[i] = IF i = r THEN row ELSE subs[i]
      BY <1>5, <2>4, OneTable, CardUpdateMoves
         DEF StoreRewrites, RC!Update, PS!Update
    <3>2. row.userId = subs[r].userId /\ row.paystackSubId = subs[r].paystackSubId
      BY <2>4 DEF StoreRewrites
    <3>3. CardOwnersStay
      BY <3>1, <3>2 DEF CardOwnersStay, PS!RowsOf
    <3> QED
      BY <2>1, <3>1, <3>2, <3>3
  <2> QED
    BY <1>1, <1>2, <2>2, <2>3, <2>4, StoreWrites
<1>7. CardRowsOK'
  BY <1>2, <1>5, <1>6 DEF CardRowsOK, CardRowOK, CardOwnCode, cardVars
<1>8. CardInv'
  BY <1>1, <1>2, <1>5, <1>6, <1>7, TableGrows, CardsSurvive
<1>9. delivered \subseteq delivered'
  BY <1>2 DEF RC!RcNext, RC!RcStep, RC!Receive, RC!Duplicate, RC!Start,
              RC!Answer, RC!Plan, RC!NoPlanToGive, RC!SkipStranger,
              RC!FindToGive, RC!Give, RC!Link, RC!Pay, RC!FindActive,
              RC!Take, RC!End, RC!Notify, RC!Fail
<1>10. PaymentsHaveASource'
  <2>1. ASSUME NEW u \in Users, NEW ref \in Refs,
               payments'[<<u, ref>>] # payments[<<u, ref>>]
        PROVE  Source(u, ref)'
    <3>1. PICK e \in delivered : /\ e.type \in RC!PaidTypes
                                 /\ e.ref = ref
                                 /\ u \in RC!ResolvedUsers(e)
      BY <1>2, <2>1, StorePays DEF Inv
    <3> QED
      BY <1>9, <3>1 DEF Source, RC!ResolvedUsers
  <2> QED
    BY <1>1, <1>4, <1>9, <2>1, SourcesStay
<1>11. \A w \in Workers : GiftOK(w)'
  BY <1>2, StoreKeepsGifts DEF Inv
<1>12. ReadersOK'
  BY <1>1, <1>2, <1>5, <1>6, ReadersStayOK
<1> QED
  BY <1>3, <1>8, <1>10, <1>11, <1>12 DEF Inv

LEMMA InvInit == Init => Inv
<1> SUFFICES ASSUME Init PROVE Inv
  OBVIOUS
<1>1. RC!TableInit /\ PS!TableInit
  BY DEF Init, TableInit, RC!TableInit, PS!TableInit
<1>2. StoreInv /\ CardInv
  BY <1>1, StoreInvInit, CardInvInit DEF Init
<1>3. \A w \in Workers : GiftOK(w)
  BY DEF Init, RC!RcInit, RC!Idle, GiftOK
<1>4. PaymentsHaveASource
  <2>1. ASSUME NEW u \in Users, NEW ref \in Refs
        PROVE  ~(payments[<<u, ref>>] > 0)
    <3>1. payments = [k \in Users \X Refs |-> 0] /\ <<u, ref>> \in Users \X Refs
      BY DEF Init, TableInit
    <3>2. payments[<<u, ref>>] = 0
      BY <3>1
    <3> QED
      BY <3>2
  <2> QED
    BY <2>1 DEF PaymentsHaveASource
<1>5. ReadersOK
  BY DEF Init, ReadersOK, MayBeRow
<1> QED
  BY <1>2, <1>3, <1>4, <1>5 DEF Inv

LEMMA InvNext == Inv /\ [Next]_vars => Inv'
<1> SUFFICES ASSUME Inv, [Next]_vars PROVE Inv'
  OBVIOUS
<1>1. CASE UNCHANGED vars
  <2>1. /\ UNCHANGED <<now, plans, subs, linked, payments, notices>>
        /\ UNCHANGED storeVars /\ UNCHANGED cardVars
        /\ UNCHANGED <<latest, expiring>>
    BY <1>1 DEF vars, tableVars, readVars
  <2>2. now' \in Nat /\ ReadersOK'
    BY <2>1 DEF Inv, CardInv, PS!TypeOK, PS!TableTypeOK, ReadersOK, MayBeRow
  <2> QED
    BY <2>1, <2>2, QuietStepKeepsInv
<1>2. CASE Store
  BY <1>2, StoreKeepsInv
<1>3. CASE Cards
  BY <1>3, CardsKeepInv
<1>4. CASE Read
  BY <1>4, MeKeepsInv, MeExpireKeepsInv, RefreshKeepsInv DEF Read
<1>5. CASE Tick
  BY <1>5, TickKeepsInv
<1> QED
  BY <1>1, <1>2, <1>3, <1>4, <1>5 DEF Next

LEMMA Invariance == Spec => []Inv
<1> QED
  BY InvInit, InvNext, PTL DEF Spec

---------------------------------------------------------------------------
(* What holds of the table                                                 *)

(* Whoever writes, no column that a guard trusts says a subscription is    *)
(* live that is over: ActiveRowsAreLive of the three writers together.     *)
THEOREM ActiveRowsStayLive == Spec => []ActiveRowsAreLive
<1>1. Inv => ActiveRowsAreLive
  BY DEF Inv, CardInv, CardRowsOK, CardRowOK, ActiveRowsAreLive, LiveStatus,
         PS!LiveStatus
<1> QED
  BY <1>1, Invariance, PTL

(* A user's link names a row of his own, whichever service wrote it and    *)
(* whatever the other and /auth/me do to that row.                         *)
THEOREM LinksStayOwn == Spec => []LinkedToOwnRow
<1>1. Inv => LinkedToOwnRow
  BY OneTable DEF Inv, CardInv, PS!LinkedToOwnRow, LinkedToOwnRow
<1> QED
  BY <1>1, Invariance, PTL

(* Nobody has paid, or was told of a subscription, who has no row: also    *)
(* when the row that one service found is written by the other.            *)
THEOREM MoneyNeedsSubscription == Spec => []NoMoneyWithoutSubscription
<1>1. NoticeTypes = PS!NoticeTypes
  BY DEF NoticeTypes, PS!NoticeTypes
<1>2. Inv => NoMoneyWithoutSubscription
  BY <1>1, OneTable DEF Inv, CardInv, PS!NoMoneyWithoutSubscription,
                        NoMoneyWithoutSubscription
<1> QED
  BY <1>2, Invariance, PTL

(* Every payment row goes back to a charge of a customer whose address this*)
(* user has had, or to a delivered purchase that names this user.          *)
THEOREM PaymentsAreSourced == Spec => []PaymentsHaveASource
<1>1. Inv => PaymentsHaveASource
  BY DEF Inv
<1> QED
  BY <1>1, Invariance, PTL

(* A row carries codes of customers only whose address its owner has had,  *)
(* also after the store has taken the row over: a cancellation disables no *)
(* subscription of an account that never shared an address with this one.  *)
THEOREM CodesKeepTheirAddress == Spec => []CodeOfAddress
<1>1. ASSUME Inv PROVE CodeOfAddress
  <2>1. DOMAIN subs = 1..Len(subs)
    BY <1>1, LenProperties DEF Inv, CardInv, PS!TypeOK, PS!TableTypeOK
  <2> QED
    BY <1>1, <2>1 DEF Inv, CardInv, CardRowsOK, CardRowOK, CardOwnCode,
                      CodeOfAddress, PS!CodeOfAddress
<1> QED
  BY <1>1, Invariance, PTL

---------------------------------------------------------------------------
(* What a step does to the rows                                            *)

(* A handler that may switch row i on.                                     *)
Waking(i) ==
    \/ \E c \in Callers : PS!At(c, "write") /\ call[c].row = i
    \/ \E w \in Workers : RC!WritingTask(w, "give") /\ job[w].row = i

(* A row rewritten: its owner stays, and it is not woken by just anybody.  *)
Rewrites(r, row) ==
    /\ r \in 1..Len(subs)
    /\ row \in PS!Row
    /\ PS!Update(r, row)
    /\ row.userId = subs[r].userId
    /\ row.isActive => subs[r].isActive \/ Waking(r)

LEMMA StoreRowWrites ==
    ASSUME Inv, Store
    PROVE  \/ UNCHANGED subs
           \/ \E row \in PS!Row : PS!Create(row)
           \/ \E r, row : Rewrites(r, row)
<1>1. StoreInv /\ RC!RcNext
  BY DEF Inv, Store
<1>2. ASSUME NEW row, StoreCreates(row)
      PROVE  row \in PS!Row /\ PS!Create(row)
  BY <1>2, OneTable DEF StoreCreates, RC!Create, PS!Create
<1>3. ASSUME NEW w \in Workers, NEW r, NEW row, StoreRewrites(w, r, row)
      PROVE  Rewrites(r, row)
  <2>1. /\ r = job[w].row /\ r \in 1..Len(subs) /\ row \in PS!Row
        /\ PS!Update(r, row) /\ row.userId = subs[r].userId
        /\ row.isActive => subs[r].isActive \/ RC!WritingTask(w, "give")
    BY <1>3, OneTable DEF StoreRewrites, RC!Update, PS!Update
  <2>2. RC!WritingTask(w, "give") => Waking(r)
    BY <2>1 DEF Waking
  <2> QED
    BY <2>1, <2>2 DEF Rewrites
<1> QED
  BY <1>1, <1>2, <1>3, StoreWrites

LEMMA PaidRowIsTheirs ==
    ASSUME NEW c \in Callers, NEW old \in PS!Row
    PROVE  PS!PaidRow(c, old).userId = call[c].user
BY DEF PS!PaidRow, PS!Row

LEMMA CardRowWrites ==
    ASSUME Inv, Cards
    PROVE  \/ UNCHANGED subs
           \/ \E row \in PS!Row : PS!Create(row)
           \/ \E r, row : Rewrites(r, row)
<1>1. CardInv /\ PS!PsNext
  BY DEF Inv, Cards
<1>2. ASSUME NEW c \in Callers, PS!TrialCreate(c)
      PROVE  UNCHANGED subs \/ \E row \in PS!Row : PS!Create(row)
  BY <1>1, <1>2, CardTrialWrite
<1>3. ASSUME NEW c \in Callers, PS!Write(c)
      PROVE  \/ \E row \in PS!Row : PS!Create(row)
             \/ \E r, row : Rewrites(r, row)
  <2>1. PICK r : r = call[c].row
    OBVIOUS
  <2>2. CASE \E row \in PS!Row : PS!Create(row)
    BY <2>2
  <2>3. CASE /\ r \in PS!RowsOf(call[c].user) /\ r \in 1..Len(subs)
             /\ PS!PaidRow(c, subs[r]) \in PS!Row
             /\ PS!Update(r, PS!PaidRow(c, subs[r]))
    <3>1. PICK row : row = PS!PaidRow(c, subs[r])
      OBVIOUS
    <3>2. row.userId = subs[r].userId
      <4>1. subs[r] \in PS!Row
        BY <1>1, <2>3, CardRowIsRow DEF CardInv
      <4> QED
        BY <2>3, <3>1, <4>1, PaidRowIsTheirs DEF PS!RowsOf
    <3>3. Waking(r)
      BY <1>3, <2>1 DEF Waking, PS!Write
    <3> QED
      BY <2>3, <3>1, <3>2, <3>3 DEF Rewrites
  <2> QED
    BY <1>1, <1>3, <2>1, <2>2, <2>3, CardPaidWrite
<1>4. ASSUME NEW c \in Callers, CardWrites(c), ~PS!TrialCreate(c), ~PS!Write(c)
      PROVE  \E r, row : Rewrites(r, row)
  <2>1. PICK r : r = call[c].row
    OBVIOUS
  <2>2. PICK row \in PS!Row : PS!Update(r, row) /\ CardFollows(subs[r], row)
    BY <1>1, <1>4, <2>1, CardWrittenBack
  <2>3. r \in 1..Len(subs)
    BY <1>1, <1>4, <2>1, CardWrittenBack
  <2> QED
    BY <2>2, <2>3 DEF Rewrites, CardFollows
<1> QED
  BY <1>1, <1>2, <1>3, <1>4, CardWhoWrites

LEMMA RowWrites ==
    ASSUME Inv, [Next]_vars
    PROVE  \/ UNCHANGED subs
           \/ \E row \in PS!Row : PS!Create(row)
           \/ \E r, row : Rewrites(r, row)
<1>1. ASSUME NEW q \in Readers, MeExpire(q)
      PROVE  \E r, row : Rewrites(r, row)
  <2>1. PICK r \in 1..Len(subs) : /\ subs[r] \in PS!Row
                                  /\ PS!Update(r, ExpiredRow(subs[r]))
    BY <1>1, Expires
  <2>2. PICK row : row = ExpiredRow(subs[r])
    OBVIOUS
  <2> QED
    BY <2>1, <2>2, ExpiredRowTypes DEF Rewrites
<1>2. ASSUME NEW q \in Readers, NEW u \in Users, Me(q, u)
      PROVE  UNCHANGED subs
  BY <1>2 DEF Me, tableVars
<1>3. ASSUME NEW u \in Users, Refresh(u)
      PROVE  UNCHANGED subs
  BY <1>3 DEF Refresh, tableVars
<1>4. Tick \/ UNCHANGED vars => UNCHANGED subs
  BY DEF Tick, vars, tableVars
<1> QED
  BY <1>1, <1>2, <1>3, <1>4, StoreRowWrites, CardRowWrites DEF Next, Read

(* What each row has become after a step.                                  *)
LEMMA RowsFollow ==
    ASSUME Inv, [Next]_vars, NEW i \in DOMAIN subs
    PROVE  /\ subs'[i].userId = subs[i].userId
           /\ ~subs[i].isActive /\ subs'[i].isActive => Waking(i)
<1>1. PS!TypeOK /\ i \in 1..Len(subs)
  BY LenProperties DEF Inv, CardInv, PS!TypeOK, PS!TableTypeOK
<1>2. CASE UNCHANGED subs
  BY <1>2
<1>3. CASE \E row \in PS!Row : PS!Create(row)
  BY <1>1, <1>3, CardCreateMoves
<1>4. ASSUME NEW r, NEW row, Rewrites(r, row)
      PROVE  /\ subs'[i].userId = subs[i].userId
             /\ ~subs[i].isActive /\ subs'[i].isActive => Waking(i)
  <2>1. subs'[i] = IF i = r THEN row ELSE subs[i]
    BY <1>1, <1>4, CardUpdateMoves DEF Rewrites
  <2>2. CASE i = r
    BY <1>4, <2>1, <2>2 DEF Rewrites
  <2>3. CASE i # r
    BY <2>1, <2>3
  <2> QED
    BY <2>2, <2>3
<1> QED
  BY <1>2, <1>3, <1>4, RowWrites

(* Each service writes rows it found some awaits ago, /auth/me as well, and*)
(* yet no row passes from one account to another.                          *)
THEOREM RowsStayWithOwner == Spec => RowsKeepTheirOwner
<1>1. ASSUME Inv, [Next]_vars
      PROVE  [\A i \in DOMAIN subs : subs'[i].userId = subs[i].userId]_vars
  BY <1>1, RowsFollow
<1> QED
  BY <1>1, Invariance, PTL DEF Spec, RowsKeepTheirOwner

(* No late event, stale read or expiry of one service brings back what the *)
(* other has taken: a row wakes by a gift of the store or a charged card.  *)
THEOREM OnlyGiftsAndChargesWake == Spec => OnlyGiftsAndChargesWakeRows
<1> DEFINE Asleep ==
        \A i \in DOMAIN subs :
            ~subs[i].isActive /\ subs'[i].isActive =>
                \/ \E c \in Callers : PS!At(c, "write") /\ call[c].row = i
                \/ \E w \in Workers : RC!WritingTask(w, "give") /\ job[w].row = i
<1>1. ASSUME Inv, [Next]_vars
      PROVE  [Asleep]_vars
  BY <1>1, RowsFollow DEF Waking
<1> QED
  BY <1>1, Invariance, PTL DEF Spec, OnlyGiftsAndChargesWakeRows
=============================================================================
