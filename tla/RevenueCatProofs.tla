-------------------------- MODULE RevenueCatProofs --------------------------
(***************************************************************************)
(* Safety of RevenueCat for any number of users, requests, plans and       *)
(* handlers in flight, and any bound on duplicates and failures.           *)
(*                                                                         *)
(* The invariants of the table are not inductive: a handler writes the row *)
(* it found some awaits ago.  JobOK says what a handler may rely on when   *)
(* it resumes: its request has been delivered, a plan was found before     *)
(* anything is given, and the row it holds belongs to the user its task is *)
(* about.  The last holds because no step takes a row from its owner.      *)
(*                                                                         *)
(* The last part is about handlers that run one at a time (OneAtATime):    *)
(* then nobody writes between what a handler finds and what it writes.     *)
(* TransferOK and SyncOK say what is so while a transfer or a sync is      *)
(* half-way, and StoreEntitlement is implemented.                          *)
(***************************************************************************)
EXTENDS RevenueCat, SequenceTheorems, TLAPS

UserOps == {"give", "take", "end"}

(* A purchase is given only behind the task that finds the plan.           *)
PlanFirst(todo) ==
    \A i \in 1..Len(todo) :
        todo[i].op = "give" => \E k \in 1..(i - 1) : todo[k].op = "plan"

JobOK(w) ==
    /\ job[w].pc # "idle" => job[w].req \in delivered
    /\ job[w].plan \in Plans \/ PlanFirst(job[w].todo)
    /\ job[w].pc \in {"write", "link", "pay", "notify"} =>
          /\ job[w].todo # <<>>
          /\ Head(job[w].todo).op \in UserOps
          /\ TaskUser(w) \in Users
          /\ \/ job[w].row \in RowsOf(TaskUser(w))
             \/ /\ job[w].pc = "write"
                /\ Head(job[w].todo).op = "give"
                /\ job[w].row = 0

TableInv == ActiveRowsAreLive /\ LinkedToOwnRow /\ NoMoneyWithoutSubscription

Inv == TypeOK /\ TableInv /\ \A w \in Workers : JobOK(w)

---------------------------------------------------------------------------
(* The tasks of a request *)

LEMMA EachTypes ==
    ASSUME NEW op \in UserOps, NEW ids \in Seq(Ids)
    PROVE  /\ Each(op, ids) \in Seq(Task)
           /\ Len(Each(op, ids)) = Len(ids)
           /\ \A i \in 1..Len(ids) : Each(op, ids)[i].op = op
<1>1. DOMAIN ids = 1..Len(ids) /\ Len(ids) \in Nat
  BY LenProperties
<1>2. \A i \in 1..Len(ids) : ids[i] \in Ids
  BY ElementOfSeq
<1>3. \A i \in 1..Len(ids) : [op |-> op, user |-> ids[i]] \in Task
  BY <1>2 DEF Task, UserOps
<1>4. Each(op, ids) \in [1..Len(ids) -> Task]
  BY <1>1, <1>3 DEF Each
<1> QED
  BY <1>1, <1>4, IsASeq, LenProperties DEF Each

LEMMA FindPlanTypes ==
    /\ FindPlan \in Seq(Task)
    /\ Len(FindPlan) = 1
    /\ FindPlan[1].op = "plan"
BY DEF FindPlan, Task

(* Nothing is given in front of the plan, whatever follows it.             *)
LEMMA PlanThenAnything ==
    ASSUME NEW s \in Seq(Task)
    PROVE  FindPlan \o s \in Seq(Task) /\ PlanFirst(FindPlan \o s)
<1> DEFINE t == FindPlan \o s
<1>1. /\ t \in Seq(Task)
      /\ Len(t) = 1 + Len(s)
      /\ t[1] = FindPlan[1]
  BY FindPlanTypes, ConcatProperties, LenProperties
<1>2. t[1].op = "plan"
  BY <1>1, FindPlanTypes
<1>3. ASSUME NEW i \in 1..Len(t), t[i].op = "give"
      PROVE  \E k \in 1..(i - 1) : t[k].op = "plan"
  <2>1. i # 1
    BY <1>2, <1>3
  <2> QED
    BY <1>1, <1>2, <2>1, LenProperties
<1> QED
  BY <1>1, <1>3 DEF PlanFirst

LEMMA TransferTasksTypes ==
    ASSUME NEW e \in Request
    PROVE  TransferTasks(e) \in Seq(Task) /\ PlanFirst(TransferTasks(e))
<1> DEFINE takes == Each("take", e.from)
           gives == Each("give", TransferTargets(e))
           t == takes \o FindPlan \o gives
<1>1. e.from \in Seq(Ids) /\ e.to \in Seq(Ids) /\ e.ids \in Seq(Ids)
  BY DEF Request
<1>2. TransferTargets(e) \in Seq(Ids)
  BY <1>1 DEF TransferTargets
<1>3. /\ takes \in Seq(Task)
      /\ Len(takes) \in Nat
      /\ \A i \in 1..Len(takes) : takes[i].op = "take"
  BY <1>1, EachTypes, LenProperties DEF UserOps
<1>4. gives \in Seq(Task)
  BY <1>2, EachTypes DEF UserOps
<1> HIDE DEF takes, gives
<1>5. /\ takes \o FindPlan \in Seq(Task)
      /\ Len(takes \o FindPlan) = Len(takes) + 1
      /\ \A i \in 1..Len(takes) : (takes \o FindPlan)[i] = takes[i]
      /\ (takes \o FindPlan)[Len(takes) + 1] = FindPlan[1]
  <2>1. /\ takes \o FindPlan \in Seq(Task)
        /\ Len(takes \o FindPlan) = Len(takes) + Len(FindPlan)
        /\ \A i \in 1..(Len(takes) + Len(FindPlan)) :
              (takes \o FindPlan)[i] = IF i <= Len(takes) THEN takes[i]
                                       ELSE FindPlan[i - Len(takes)]
    BY <1>3, FindPlanTypes, ConcatProperties
  <2>2. (takes \o FindPlan)[Len(takes) + 1] = FindPlan[1]
    <3>1. Len(takes) + 1 \in 1..(Len(takes) + Len(FindPlan))
      BY <1>3, FindPlanTypes
    <3>2. ~(Len(takes) + 1 <= Len(takes)) /\ Len(takes) + 1 - Len(takes) = 1
      BY <1>3
    <3> QED
      BY <2>1, <3>1, <3>2
  <2> QED
    BY <1>3, <2>1, <2>2, FindPlanTypes
<1>6. /\ t \in Seq(Task)
      /\ \A i \in 1..Len(takes) : t[i] = takes[i]
      /\ t[Len(takes) + 1] = FindPlan[1]
      /\ Len(t) \in Nat
  BY <1>3, <1>4, <1>5, ConcatProperties, LenProperties
<1>7. ASSUME NEW i \in 1..Len(t), t[i].op = "give"
      PROVE  \E k \in 1..(i - 1) : t[k].op = "plan"
  <2>1. i > Len(takes) + 1
    BY <1>3, <1>6, <1>7, FindPlanTypes
  <2> QED
    BY <1>3, <1>6, <2>1, FindPlanTypes
<1> QED
  BY <1>6, <1>7 DEF PlanFirst, TransferTasks, takes, gives

LEMMA TaskListsTypes ==
    ASSUME NEW e \in Request, NEW tasks \in TaskLists(e)
    PROVE  tasks \in Seq(Task) /\ PlanFirst(tasks)
<1>1. <<>> \in Seq(Task) /\ PlanFirst(<<>>)
  BY EmptySeq DEF PlanFirst
<1>2. ASSUME NEW u \in ResolvedUsers(e)
      PROVE  UserTasks(e, u) \in Seq(Task) /\ PlanFirst(UserTasks(e, u))
  <2>1. u \in Ids
    BY <1>2 DEF ResolvedUsers, Ids
  <2>2. <<u>> \in Seq(Ids)
    BY <2>1
  <2>3. \A op \in UserOps : /\ FindPlan \o Each(op, <<u>>) \in Seq(Task)
                            /\ PlanFirst(FindPlan \o Each(op, <<u>>))
    BY <2>2, EachTypes, PlanThenAnything
  <2>4. FindPlan \in Seq(Task) /\ PlanFirst(FindPlan)
    BY FindPlanTypes DEF PlanFirst
  <2> QED
    BY <2>3, <2>4 DEF UserTasks, UserOps
<1> QED
  BY <1>1, <1>2, TransferTasksTypes DEF TaskLists

(* Only the plan's own task may lead to a purchase being next.             *)
LEMMA PlanFirstTail ==
    ASSUME NEW s \in Seq(Task), s # <<>>, PlanFirst(s), Head(s).op # "plan"
    PROVE  PlanFirst(Tail(s))
<1>1. /\ Len(s) \in Nat /\ Len(s) > 0
      /\ Len(Tail(s)) = Len(s) - 1
      /\ \A i \in 1..Len(Tail(s)) : Tail(s)[i] = s[i + 1]
      /\ Head(s) = s[1]
  BY HeadTailProperties, LenProperties, EmptySeq
<1>2. ASSUME NEW i \in 1..Len(Tail(s)), Tail(s)[i].op = "give"
      PROVE  \E k \in 1..(i - 1) : Tail(s)[k].op = "plan"
  <2>1. PICK k \in 1..i : s[k].op = "plan"
    BY <1>1, <1>2 DEF PlanFirst
  <2>2. k # 1
    BY <1>1, <2>1
  <2>3. k - 1 \in 1..(i - 1) /\ Tail(s)[k - 1] = s[k]
    BY <1>1, <2>1, <2>2
  <2> QED
    BY <2>1, <2>3
<1> QED
  BY <1>2 DEF PlanFirst

---------------------------------------------------------------------------
(* Moving one handler *)

LEMMA StepTypes ==
    ASSUME TypeOK, NEW w \in Workers, NEW pc \in PCs, NEW r \in Nat,
           StepWithRow(w, pc, r) \/ (r = job[w].row /\ Step(w, pc))
    PROVE  /\ job' \in [Workers -> Job]
           /\ \A v \in Workers \ {w} : job'[v] = job[v]
           /\ job'[w].pc = pc /\ job'[w].row = r
           /\ job'[w].req = job[w].req
           /\ job'[w].todo = job[w].todo
           /\ job'[w].plan = job[w].plan
<1>1. job \in [Workers -> Job] /\ job[w] \in Job
  BY DEF TypeOK
<1>2. CASE StepWithRow(w, pc, r)
  <2>1. job' = [job EXCEPT ![w] = [job[w] EXCEPT !.pc = pc, !.row = r]]
    BY <1>1, <1>2, Zenon DEF StepWithRow
  <2>2. [job[w] EXCEPT !.pc = pc, !.row = r] \in Job
    BY <1>1 DEF Job
  <2> QED
    BY <1>1, <2>1, <2>2 DEF Job
<1>3. CASE r = job[w].row /\ Step(w, pc)
  <2>1. [job[w] EXCEPT !.pc = pc] \in Job
    BY <1>1 DEF Job
  <2> QED
    BY <1>1, <1>3, <2>1 DEF Job, Step
<1> QED
  BY <1>2, <1>3

LEMMA TaskDoneTypes ==
    ASSUME TypeOK, NEW w \in Workers, job[w].todo # <<>>, TaskDone(w)
    PROVE  /\ job' \in [Workers -> Job]
           /\ \A v \in Workers \ {w} : job'[v] = job[v]
           /\ job'[w].pc = "next" /\ job'[w].row = 0
           /\ job'[w].req = job[w].req
           /\ job'[w].todo = Tail(job[w].todo)
           /\ job'[w].plan = job[w].plan
<1>1. Tail(job[w].todo) \in Seq(Task)
  BY HeadTailProperties DEF TypeOK, Job
<1> QED
  BY <1>1 DEF TypeOK, Job, TaskDone, PCs

LEMMA IdleTypes ==
    ASSUME TypeOK, NEW w \in Workers, job' = [job EXCEPT ![w] = Idle]
    PROVE  /\ job' \in [Workers -> Job]
           /\ \A v \in Workers \ {w} : job'[v] = job[v]
           /\ job'[w] = Idle
<1>1. Idle \in Job
  BY EmptySeq DEF Idle, Job, PCs
<1> QED
  BY <1>1 DEF TypeOK

LEMMA IdleIsOK ==
    ASSUME NEW w \in Workers, job'[w] = Idle
    PROVE  JobOK(w)'
BY DEF JobOK, Idle, PlanFirst

(* The handlers a step does not move keep what they rely on.               *)
LEMMA OthersStayOK ==
    ASSUME NEW w \in Workers, \A v \in Workers : JobOK(v), JobOK(w)',
           \A v \in Workers \ {w} : job'[v] = job[v],
           delivered \subseteq delivered',
           \A u \in Users : RowsOf(u) \subseteq RowsOf(u)'
    PROVE  \A v \in Workers : JobOK(v)'
<1>1. SUFFICES ASSUME NEW v \in Workers \ {w} PROVE JobOK(v)'
  OBVIOUS
<1>2. JobOK(v) /\ job'[v] = job[v]
  OBVIOUS
<1>3. job[v].pc # "idle" => job'[v].req \in delivered'
  BY <1>2 DEF JobOK
<1>4. ASSUME TaskUser(v) \in Users, job[v].row \in RowsOf(TaskUser(v))
      PROVE  job[v].row \in RowsOf(TaskUser(v))'
  <2> DEFINE u == Head(job[v].todo).user
  <2>1. u \in Users /\ job[v].row \in RowsOf(u)
    BY <1>4 DEF TaskUser
  <2>2. Head(job'[v].todo).user = Head(job[v].todo).user
    BY <1>2
  <2> QED
    BY <2>1, <2>2 DEF TaskUser, RowsOf
<1> QED
  BY <1>2, <1>3, <1>4 DEF JobOK, TaskUser

---------------------------------------------------------------------------
(* Writing the table *)

LEMMA SubsStay ==
    ASSUME UNCHANGED subs
    PROVE  \A u \in Users : RowsOf(u)' = RowsOf(u)
BY DEF RowsOf

(* A step that writes none of the table's columns the properties are about.*)
LEMMA TableStays ==
    ASSUME TableInv, UNCHANGED <<subs, linked, payments, notices>>
    PROVE  TableInv'
BY SubsStay DEF TableInv, ActiveRowsAreLive, LinkedToOwnRow,
                NoMoneyWithoutSubscription

LEMMA CreateKeeps ==
    ASSUME TypeOK, TableInv, NEW row \in Row, Create(row),
           row.isActive => row.status \in LiveStatus,
           UNCHANGED <<linked, payments, notices>>
    PROVE  /\ subs' \in Seq(Row)
           /\ TableInv'
           /\ \A u \in Users : RowsOf(u) \subseteq RowsOf(u)'
<1>1. /\ subs \in Seq(Row) /\ subs' \in Seq(Row)
      /\ Len(subs) \in Nat /\ Len(subs') = Len(subs) + 1
      /\ \A i \in 1..Len(subs) : subs'[i] = subs[i]
      /\ subs'[Len(subs) + 1] = row
  BY AppendProperties, LenProperties DEF TypeOK, TableTypeOK, Create
<1>2. \A u \in Users : RowsOf(u) \subseteq RowsOf(u)'
  BY <1>1 DEF RowsOf
<1>3. ActiveRowsAreLive'
  BY <1>1 DEF TableInv, ActiveRowsAreLive
<1>4. LinkedToOwnRow'
  BY <1>2 DEF TableInv, LinkedToOwnRow
<1>5. NoMoneyWithoutSubscription'
  BY <1>2 DEF TableInv, NoMoneyWithoutSubscription
<1> QED
  BY <1>1, <1>2, <1>3, <1>4, <1>5 DEF TableInv

LEMMA UpdateKeeps ==
    ASSUME TypeOK, TableInv, NEW r \in 1..Len(subs), NEW row \in Row,
           Update(r, row), row.userId = subs[r].userId,
           row.isActive => row.status \in LiveStatus,
           UNCHANGED <<linked, payments, notices>>
    PROVE  /\ subs' \in Seq(Row)
           /\ TableInv'
           /\ \A u \in Users : RowsOf(u)' = RowsOf(u)
<1>1. /\ subs \in Seq(Row) /\ subs' \in Seq(Row)
      /\ Len(subs') = Len(subs)
      /\ \A i \in 1..Len(subs) :
            subs'[i] = IF i = r THEN row ELSE subs[i]
  BY ExceptSeq DEF TypeOK, TableTypeOK, Update
<1>2. \A u \in Users : RowsOf(u)' = RowsOf(u)
  BY <1>1 DEF RowsOf
<1>3. ActiveRowsAreLive'
  BY <1>1 DEF TableInv, ActiveRowsAreLive
<1>4. LinkedToOwnRow'
  BY <1>2 DEF TableInv, LinkedToOwnRow
<1>5. NoMoneyWithoutSubscription'
  BY <1>2 DEF TableInv, NoMoneyWithoutSubscription
<1> QED
  BY <1>1, <1>2, <1>3, <1>4, <1>5 DEF TableInv

---------------------------------------------------------------------------
(* What the handlers write *)

LEMMA GivenRowTypes ==
    ASSUME TypeOK, NEW w \in Workers, job[w].req \in Requests,
           job[w].plan \in Plans, NEW old,
           old \in Row \/ \E u \in Users : old = BlankRow(u)
    PROVE  /\ GivenRow(w, old) \in Row
           /\ GivenRow(w, old).userId = old.userId
           /\ GivenRow(w, old).status \in LiveStatus
<1> DEFINE e == job[w].req
<1>1. e \in Request
  BY RequestsAreRequests
<1>2. /\ StartOf(e) \in Nat
      /\ e.expiresAt \in Date
      /\ e.trial \in BOOLEAN
      /\ (e.trial /\ e.expiresAt # None) \in BOOLEAN
      /\ PlanType[job[w].plan] \in PlanTypes
  BY <1>1, PlansAreTyped
     DEF Request, Date, StartOf, TypeOK, TableTypeOK
<1>3. (IF e.trial THEN "trialing" ELSE "active") \in LiveStatus
  BY DEF LiveStatus
<1>4. CASE old \in Row
  BY <1>2, <1>3, <1>4 DEF GivenRow, Row
<1>5. CASE \E u \in Users : old = BlankRow(u)
  <2>1. PICK u \in Users : old = BlankRow(u)
    BY <1>5
  <2>2. None \in Code /\ None \in Date
    BY DEF Code, Date
  <2> QED
    BY <1>2, <1>3, <2>1, <2>2 DEF GivenRow, BlankRow, Row
<1> QED
  BY <1>4, <1>5

LEMMA TakenRowTypes ==
    ASSUME TypeOK, NEW w \in Workers, NEW r \in 1..Len(subs)
    PROVE  /\ TakenRow(w, r) \in Row
           /\ TakenRow(w, r).userId = subs[r].userId
           /\ TakenRow(w, r).isActive = FALSE
<1>1. subs[r] \in Row
  BY ElementOfSeq DEF TypeOK, TableTypeOK
<1> QED
  BY <1>1 DEF TakenRow, Row, DeadStatus

LEMMA EndingRowTypes ==
    ASSUME TypeOK, NEW r \in 1..Len(subs)
    PROVE  /\ EndingRow(r) \in Row
           /\ EndingRow(r).userId = subs[r].userId
           /\ EndingRow(r).status \in LiveStatus
<1>1. subs[r] \in Row
  BY ElementOfSeq DEF TypeOK, TableTypeOK
<1> QED
  BY <1>1 DEF EndingRow, Row, LiveStatus

---------------------------------------------------------------------------
(* Steps that write nothing but their own handler *)

LEMMA MovesOneJob ==
    ASSUME Inv, NEW w \in Workers, UNCHANGED tableVars,
           job' \in [Workers -> Job], JobOK(w)',
           \A v \in Workers \ {w} : job'[v] = job[v],
           delivered \subseteq delivered', delivered' \subseteq Requests,
           answered' \subseteq delivered',
           duplicates' \in 0..MaxDuplicates, failures' \in 0..MaxFailures
    PROVE  Inv'
<1>1. TypeOK'
  BY DEF Inv, TypeOK, TableTypeOK, tableVars
<1>2. TableInv'
  BY TableStays DEF Inv, tableVars
<1>3. \A u \in Users : RowsOf(u)' = RowsOf(u)
  BY SubsStay DEF tableVars
<1>4. \A v \in Workers : JobOK(v)'
  BY <1>3, OthersStayOK DEF Inv
<1> QED
  BY <1>1, <1>2, <1>4 DEF Inv

LEMMA StartKeeps ==
    ASSUME Inv, NEW w \in Workers, NEW e \in Requests, Start(w, e),
           duplicates' \in 0..MaxDuplicates
    PROVE  Inv'
<1>1. PICK tasks \in TaskLists(e) :
         job' = [job EXCEPT ![w] = [Idle EXCEPT !.pc = "next", !.req = e,
                                                !.todo = tasks]]
  BY DEF Start
<1>2. tasks \in Seq(Task) /\ PlanFirst(tasks)
  BY <1>1, TaskListsTypes, RequestsAreRequests
<1> DEFINE j == [Idle EXCEPT !.pc = "next", !.req = e, !.todo = tasks]
<1>3. j \in Job /\ j.pc = "next" /\ j.req = e /\ j.todo = tasks
  BY <1>2 DEF Idle, Job, PCs
<1>4. job' \in [Workers -> Job] /\ job'[w] = j
  BY <1>1, <1>3 DEF Inv, TypeOK
<1>5. \A v \in Workers \ {w} : job'[v] = job[v]
  BY <1>1 DEF Inv, TypeOK
<1>6. /\ delivered' = delivered \cup {e}
      /\ UNCHANGED <<tableVars, answered, failures>>
  BY DEF Start
<1>7. JobOK(w)'
  BY <1>2, <1>3, <1>4, <1>6 DEF JobOK
<1>8. /\ delivered \subseteq delivered' /\ delivered' \subseteq Requests
      /\ answered' \subseteq delivered' /\ failures' \in 0..MaxFailures
  BY <1>6 DEF Inv, TypeOK
<1>9. UNCHANGED tableVars
  BY <1>6
<1> QED
  BY <1>4, <1>5, <1>7, <1>8, <1>9, MovesOneJob

LEMMA BackToIdleKeeps ==
    ASSUME Inv, NEW w \in Workers, Answer(w) \/ Fail(w) \/ NoPlanToGive(w)
    PROVE  Inv'
<1>1. job' = [job EXCEPT ![w] = Idle] /\ UNCHANGED <<tableVars, delivered, duplicates>>
  BY DEF Answer, Fail, NoPlanToGive
<1>2. /\ job' \in [Workers -> Job]
      /\ \A v \in Workers \ {w} : job'[v] = job[v]
      /\ JobOK(w)'
  BY <1>1, IdleTypes, IdleIsOK DEF Inv
<1>3. failures' \in 0..MaxFailures
  BY RevenueCatBounds DEF Inv, TypeOK, Answer, Fail, NoPlanToGive
<1>4. answered' \subseteq delivered'
  <2>1. CASE Answer(w)
    <3>1. job[w].req \in delivered /\ answered' = answered \cup {job[w].req}
      BY <2>1 DEF Inv, JobOK, Answer
    <3> QED
      BY <1>1, <3>1 DEF Inv, TypeOK
  <2>2. CASE Fail(w) \/ NoPlanToGive(w)
    BY <1>1, <2>2 DEF Inv, TypeOK, Fail, NoPlanToGive
  <2> QED
    BY <2>1, <2>2
<1>5. UNCHANGED tableVars /\ delivered' = delivered /\ duplicates' = duplicates
  BY <1>1
<1> QED
  BY <1>2, <1>3, <1>4, <1>5, MovesOneJob DEF Inv, TypeOK

(* The handler's own bookkeeping moves and nothing else.                   *)
LEMMA OwnStepKeeps ==
    ASSUME Inv, NEW w \in Workers,
           UNCHANGED <<tableVars, delivered, answered, duplicates, failures>>,
           job' \in [Workers -> Job], JobOK(w)',
           \A v \in Workers \ {w} : job'[v] = job[v]
    PROVE  Inv'
<1>1. UNCHANGED tableVars
  OBVIOUS
<1> QED
  BY <1>1, MovesOneJob DEF Inv, TypeOK

LEMMA PlanKeeps ==
    ASSUME Inv, NEW w \in Workers, Plan(w)
    PROVE  Inv'
<1>1. PICK p \in ResolvedPlans(job[w].req) :
         job' = [job EXCEPT ![w].plan = p, ![w].todo = Tail(@)]
  BY DEF Plan
<1>2. job[w] \in Job /\ job[w].pc = "next" /\ job[w].todo # <<>>
  BY DEF Inv, TypeOK, Plan, AtTask
<1>3. job[w].req \in Requests
  BY <1>2 DEF Inv, TypeOK, JobOK
<1>4. p \in Plans
  BY <1>1, <1>3 DEF ResolvedPlans, Inv, TypeOK, TableTypeOK
<1>5. Tail(job[w].todo) \in Seq(Task)
  BY <1>2, HeadTailProperties DEF Job
<1> DEFINE j == [job[w] EXCEPT !.plan = p, !.todo = Tail(job[w].todo)]
<1>6. j \in Job /\ j.pc = "next" /\ j.req = job[w].req /\ j.plan = p
  BY <1>2, <1>4, <1>5 DEF Job
<1>7. job' = [job EXCEPT ![w] = j]
  BY <1>1, <1>2, Zenon DEF Inv, TypeOK, Job
<1>8. /\ job' \in [Workers -> Job] /\ job'[w] = j
      /\ \A v \in Workers \ {w} : job'[v] = job[v]
  BY <1>6, <1>7 DEF Inv, TypeOK
<1>9. UNCHANGED <<tableVars, delivered, answered, duplicates, failures>>
  BY DEF Plan
<1>10. JobOK(w)'
  BY <1>2, <1>4, <1>6, <1>8, <1>9 DEF Inv, JobOK
<1> QED
  BY <1>8, <1>9, <1>10, OwnStepKeeps

(* A task that is not the plan's is done.                                  *)
LEMMA TaskDoneIsOK ==
    ASSUME Inv, NEW w \in Workers, job[w].todo # <<>>, TaskDone(w),
           job[w].pc # "idle", Head(job[w].todo).op # "plan",
           delivered' = delivered
    PROVE  /\ JobOK(w)'
           /\ job' \in [Workers -> Job]
           /\ \A v \in Workers \ {w} : job'[v] = job[v]
<1>1. /\ job' \in [Workers -> Job]
      /\ \A v \in Workers \ {w} : job'[v] = job[v]
      /\ job'[w].pc = "next"
      /\ job'[w].req = job[w].req
      /\ job'[w].todo = Tail(job[w].todo)
      /\ job'[w].plan = job[w].plan
  BY TaskDoneTypes DEF Inv
<1>2. job[w].todo \in Seq(Task)
  BY DEF Inv, TypeOK, Job
<1>3. PlanFirst(job[w].todo) => PlanFirst(Tail(job[w].todo))
  BY <1>2, PlanFirstTail
<1>4. job'[w].plan \in Plans \/ PlanFirst(job'[w].todo)
  BY <1>1, <1>3 DEF Inv, JobOK
<1>5. job'[w].req \in delivered'
  BY <1>1 DEF Inv, JobOK
<1> QED
  BY <1>1, <1>4, <1>5 DEF JobOK

LEMMA SkipStrangerKeeps ==
    ASSUME Inv, NEW w \in Workers, SkipStranger(w)
    PROVE  Inv'
<1>1. /\ job[w].pc = "next" /\ job[w].todo # <<>>
      /\ Head(job[w].todo).op # "plan" /\ TaskDone(w)
      /\ UNCHANGED <<tableVars, delivered, answered, duplicates, failures>>
  BY DEF SkipStranger, AtTask
<1> QED
  BY <1>1, TaskDoneIsOK, OwnStepKeeps

(* A row has been found, or there is none and one will be created.         *)
LEMMA FoundKeeps ==
    ASSUME Inv, NEW w \in Workers, NEW r \in Nat,
           job[w].pc = "next", job[w].todo # <<>>,
           Head(job[w].todo).op \in UserOps, TaskUser(w) \in Users,
           r \in RowsOf(TaskUser(w)) \/ (r = 0 /\ Head(job[w].todo).op = "give"),
           StepWithRow(w, "write", r),
           UNCHANGED <<tableVars, delivered, answered, duplicates, failures>>
    PROVE  Inv'
<1>1. /\ job' \in [Workers -> Job]
      /\ \A v \in Workers \ {w} : job'[v] = job[v]
      /\ job'[w].pc = "write" /\ job'[w].row = r
      /\ job'[w].req = job[w].req
      /\ job'[w].todo = job[w].todo
      /\ job'[w].plan = job[w].plan
  BY StepTypes DEF Inv, PCs
<1>2. /\ TaskUser(w)' = TaskUser(w)
      /\ subs' = subs /\ delivered' = delivered
  BY <1>1 DEF TaskUser, tableVars
<1>3. RowsOf(TaskUser(w))' = RowsOf(TaskUser(w))
  BY <1>2 DEF RowsOf
<1>4. JobOK(w)'
  BY <1>1, <1>2, <1>3 DEF Inv, JobOK
<1> QED
  BY <1>1, <1>4, OwnStepKeeps

LEMMA FindToGiveKeeps ==
    ASSUME Inv, NEW w \in Workers, FindToGive(w)
    PROVE  Inv'
<1>1. PICK r \in FindFirst(RowsToGive(TaskUser(w))) : StepWithRow(w, "write", r)
  BY DEF FindToGive
<1>2. Len(subs) \in Nat
  BY LenProperties DEF Inv, TypeOK, TableTypeOK
<1>3. r \in Nat /\ (r \in RowsOf(TaskUser(w)) \/ r = 0)
  BY <1>1, <1>2 DEF FindFirst, RowsToGive, Newest, RowsOf
<1> QED
  BY <1>1, <1>3, FoundKeeps DEF FindToGive, AtTask, UserOps

LEMMA FindActiveKeeps ==
    ASSUME Inv, NEW w \in Workers, FindActive(w)
    PROVE  Inv'
<1> DEFINE found == Newest(ActiveRows(TaskUser(w)))
<1>1. /\ job[w].pc = "next" /\ job[w].todo # <<>>
      /\ Head(job[w].todo).op \in UserOps
      /\ Head(job[w].todo).op # "plan"
      /\ TaskUser(w) \in Users
      /\ UNCHANGED <<tableVars, delivered, answered, duplicates, failures>>
  BY DEF FindActive, AtTask, UserOps
<1>2. CASE TaskDone(w)
  BY <1>1, <1>2, TaskDoneIsOK, OwnStepKeeps
<1>3. CASE \E r \in found : StepWithRow(w, "write", r)
  <2>1. PICK r \in found : StepWithRow(w, "write", r)
    BY <1>3
  <2>2. Len(subs) \in Nat
    BY LenProperties DEF Inv, TypeOK, TableTypeOK
  <2>3. r \in Nat /\ r \in RowsOf(TaskUser(w))
    BY <2>1, <2>2 DEF Newest, ActiveRows, RowsOf
  <2> QED
    BY <1>1, <2>1, <2>3, FoundKeeps
<1> QED
  BY <1>2, <1>3 DEF FindActive

---------------------------------------------------------------------------
(* Steps that write the table *)

(* What every one of them may rely on.                                     *)
LEMMA Writing ==
    ASSUME Inv, NEW w \in Workers,
           job[w].pc \in {"write", "link", "pay", "notify"}
    PROVE  /\ job[w] \in Job
           /\ job[w].todo # <<>> /\ job[w].todo \in Seq(Task)
           /\ Head(job[w].todo).op \in UserOps
           /\ TaskUser(w) \in Users
           /\ job[w].req \in Requests
           /\ job[w].pc # "write" \/ Head(job[w].todo).op # "give" =>
                 job[w].row \in RowsOf(TaskUser(w))
<1>1. job[w] \in Job
  BY DEF Inv, TypeOK
<1>2. job[w].req \in Requests
  BY DEF Inv, TypeOK, JobOK
<1> QED
  BY <1>1, <1>2 DEF Inv, JobOK, Job

(* A gift is next, so the plan has been found.                             *)
LEMMA GiftHasPlan ==
    ASSUME Inv, NEW w \in Workers, job[w].todo # <<>>,
           Head(job[w].todo).op = "give"
    PROVE  job[w].plan \in Plans
<1>1. job[w].todo \in Seq(Task)
  BY DEF Inv, TypeOK, Job
<1>2. Len(job[w].todo) \in Nat /\ Len(job[w].todo) >= 1
  BY <1>1, LenProperties, EmptySeq
<1>3. job[w].todo[1].op = "give"
  BY <1>1
<1>4. ~PlanFirst(job[w].todo)
  BY <1>2, <1>3 DEF PlanFirst
<1> QED
  BY <1>4 DEF Inv, JobOK

(* A handler goes on to pc with the row r of its user.                     *)
LEMMA GoesOnOK ==
    ASSUME Inv, NEW w \in Workers, NEW pc \in {"link", "pay", "notify"},
           NEW r \in Nat,
           job[w].pc \in {"write", "link", "pay", "notify"},
           StepWithRow(w, pc, r) \/ (r = job[w].row /\ Step(w, pc)),
           r \in RowsOf(TaskUser(w))', delivered' = delivered
    PROVE  /\ JobOK(w)'
           /\ job' \in [Workers -> Job]
           /\ \A v \in Workers \ {w} : job'[v] = job[v]
<1>1. /\ job' \in [Workers -> Job]
      /\ \A v \in Workers \ {w} : job'[v] = job[v]
      /\ job'[w].pc = pc /\ job'[w].row = r
      /\ job'[w].req = job[w].req
      /\ job'[w].todo = job[w].todo
      /\ job'[w].plan = job[w].plan
  BY StepTypes DEF Inv, PCs
<1>2. TaskUser(w)' = TaskUser(w)
  BY <1>1 DEF TaskUser
<1>3. job'[w].req \in delivered'
  BY <1>1 DEF Inv, JobOK
<1>4. job'[w].plan \in Plans \/ PlanFirst(job'[w].todo)
  BY <1>1 DEF Inv, JobOK
<1>5. /\ job'[w].todo # <<>> /\ Head(job'[w].todo).op \in UserOps
      /\ TaskUser(w)' \in Users
  BY <1>1, <1>2, Writing
<1>6. job'[w].row \in RowsOf(TaskUser(w))'
  BY <1>1
<1> QED
  BY <1>1, <1>3, <1>4, <1>5, <1>6 DEF JobOK

(* The invariant after a step that moved w and wrote the table.            *)
LEMMA WroteTable ==
    ASSUME Inv, NEW w \in Workers, TableTypeOK', TableInv', JobOK(w)',
           job' \in [Workers -> Job],
           \A v \in Workers \ {w} : job'[v] = job[v],
           \A u \in Users : RowsOf(u) \subseteq RowsOf(u)',
           UNCHANGED <<delivered, answered, duplicates>>,
           failures' \in 0..MaxFailures
    PROVE  Inv'
<1>1. TypeOK'
  BY DEF Inv, TypeOK
<1>2. \A v \in Workers : JobOK(v)'
  BY OthersStayOK DEF Inv
<1> QED
  BY <1>1, <1>2 DEF Inv

LEMMA GiveKeeps ==
    ASSUME Inv, NEW w \in Workers, Give(w)
    PROVE  Inv'
<1>1. /\ job[w].pc = "write" /\ Head(job[w].todo).op = "give"
      /\ UNCHANGED <<now, plans, linked, payments, notices,
                     delivered, answered, duplicates, failures>>
  BY DEF Give, WritingTask
<1>2. /\ job[w] \in Job /\ job[w].todo # <<>>
      /\ TaskUser(w) \in Users /\ job[w].req \in Requests
  BY <1>1, Writing
<1>3. job[w].plan \in Plans
  BY <1>1, <1>2, GiftHasPlan
<1>4. TypeOK /\ TableInv /\ Len(subs) \in Nat
  BY LenProperties DEF Inv, TypeOK, TableTypeOK
<1>5. CASE job[w].row = 0 /\ Create(GivenRow(w, BlankRow(TaskUser(w))))
                          /\ StepWithRow(w, "link", Len(subs) + 1)
  <2> DEFINE row == GivenRow(w, BlankRow(TaskUser(w)))
  <2>1. row \in Row /\ row.userId = TaskUser(w) /\ row.status \in LiveStatus
    BY <1>2, <1>3, <1>4, GivenRowTypes DEF BlankRow
  <2>2. /\ subs' \in Seq(Row) /\ TableInv'
        /\ \A u \in Users : RowsOf(u) \subseteq RowsOf(u)'
    BY <1>1, <1>4, <1>5, <2>1, CreateKeeps
  <2>3. TableTypeOK'
    BY <1>1, <1>4, <2>2 DEF TypeOK, TableTypeOK
  <2>4. job'[w].todo = job[w].todo
    BY <1>4, <1>5, StepTypes DEF PCs
  <2>5. Len(subs) + 1 \in RowsOf(TaskUser(w))'
    <3>1. /\ Len(subs) + 1 \in 1..Len(subs')
          /\ subs'[Len(subs) + 1].userId = TaskUser(w)
      <4>1. subs' = Append(subs, row)
        BY <1>5 DEF Create
      <4> QED
        BY <1>4, <2>1, <4>1, AppendProperties DEF TypeOK, TableTypeOK
    <3>2. TaskUser(w)' = TaskUser(w)
      BY <2>4 DEF TaskUser
    <3> QED
      BY <3>1, <3>2 DEF RowsOf
  <2>6. /\ JobOK(w)' /\ job' \in [Workers -> Job]
        /\ \A v \in Workers \ {w} : job'[v] = job[v]
    BY <1>1, <1>4, <1>5, <2>5, GoesOnOK
  <2> QED
    BY <1>1, <1>4, <2>2, <2>3, <2>6, WroteTable DEF TypeOK
<1>6. CASE job[w].row # 0 /\ Update(job[w].row, GivenRow(w, subs[job[w].row]))
                          /\ Step(w, "link")
  <2> DEFINE r == job[w].row
             row == GivenRow(w, subs[r])
  <2>1. r \in RowsOf(TaskUser(w))
    BY <1>1, <1>6 DEF Inv, JobOK
  <2>2. r \in 1..Len(subs) /\ subs[r] \in Row /\ r \in Nat
    BY <1>2, <1>4, <2>1, ElementOfSeq DEF RowsOf, TypeOK, TableTypeOK, Job
  <2>3. row \in Row /\ row.userId = subs[r].userId /\ row.status \in LiveStatus
    BY <1>2, <1>3, <1>4, <2>2, GivenRowTypes
  <2>4. /\ subs' \in Seq(Row) /\ TableInv'
        /\ \A u \in Users : RowsOf(u)' = RowsOf(u)
    BY <1>1, <1>4, <1>6, <2>2, <2>3, UpdateKeeps
  <2>5. TableTypeOK'
    BY <1>1, <1>4, <2>4 DEF TypeOK, TableTypeOK
  <2>6. r \in RowsOf(TaskUser(w))'
    <3>1. job'[w].todo = job[w].todo
      BY <1>4, <1>6, <2>2, StepTypes DEF PCs
    <3>2. TaskUser(w)' = TaskUser(w)
      BY <3>1 DEF TaskUser
    <3> QED
      BY <1>2, <2>1, <2>4, <3>2 DEF RowsOf
  <2>7. /\ JobOK(w)' /\ job' \in [Workers -> Job]
        /\ \A v \in Workers \ {w} : job'[v] = job[v]
    BY <1>1, <1>6, <2>2, <2>6, GoesOnOK
  <2> QED
    BY <1>1, <1>4, <2>4, <2>5, <2>7, WroteTable DEF TypeOK
<1> QED
  BY <1>5, <1>6 DEF Give

(* The steps behind the write leave the rows alone.                        *)
LEMMA RowStays ==
    ASSUME Inv, NEW w \in Workers, job[w].pc \in {"link", "pay", "notify"},
           UNCHANGED subs, job'[w].todo = job[w].todo
    PROVE  /\ job[w].row \in Nat
           /\ job[w].row \in RowsOf(TaskUser(w))'
           /\ TaskUser(w) \in Users /\ RowsOf(TaskUser(w)) # {}
<1>1. /\ job[w].row \in Nat /\ TaskUser(w) \in Users
      /\ job[w].row \in RowsOf(TaskUser(w))
  BY Writing DEF Job
<1>2. TaskUser(w)' = TaskUser(w)
  BY DEF TaskUser
<1> QED
  BY <1>1, <1>2 DEF RowsOf

LEMMA LinkKeeps ==
    ASSUME Inv, NEW w \in Workers, Link(w)
    PROVE  Inv'
<1>1. /\ job[w].pc = "link" /\ Step(w, "pay")
      /\ linked' = [linked EXCEPT ![TaskUser(w)] = job[w].row]
      /\ UNCHANGED <<now, plans, subs, payments, notices,
                     delivered, answered, duplicates, failures>>
  BY DEF Link
<1>2. job[w].row \in Nat /\ TaskUser(w) \in Users
      /\ job[w].row \in RowsOf(TaskUser(w))
  BY <1>1, Writing DEF Job
<1>3. job'[w].todo = job[w].todo
  BY <1>1, <1>2, StepTypes DEF Inv, PCs
<1>4. /\ JobOK(w)' /\ job' \in [Workers -> Job]
      /\ \A v \in Workers \ {w} : job'[v] = job[v]
  BY <1>1, <1>2, <1>3, RowStays, GoesOnOK
<1>5. \A u \in Users : RowsOf(u)' = RowsOf(u)
  BY <1>1, SubsStay
<1>6. TableTypeOK'
  BY <1>1, <1>2 DEF Inv, TypeOK, TableTypeOK
<1>7. LinkedToOwnRow'
  BY <1>1, <1>2, <1>5
     DEF Inv, TypeOK, TableTypeOK, TableInv, LinkedToOwnRow
<1>8. ActiveRowsAreLive' /\ NoMoneyWithoutSubscription'
  BY <1>1, <1>5 DEF Inv, TableInv, ActiveRowsAreLive, NoMoneyWithoutSubscription
<1> QED
  BY <1>1, <1>4, <1>5, <1>6, <1>7, <1>8, WroteTable DEF TableInv, Inv, TypeOK

(* A row is written back to its owner, and the handler is done with its    *)
(* task or goes on to the notification.                                    *)
LEMMA WritesBack ==
    ASSUME Inv, NEW w \in Workers, job[w].pc = "write",
           job[w].row \in RowsOf(TaskUser(w)), NEW row \in Row,
           row.userId = subs[job[w].row].userId,
           row.isActive => row.status \in LiveStatus,
           Update(job[w].row, row),
           TaskDone(w) \/ Step(w, "notify"),
           UNCHANGED <<now, plans, linked, payments, notices,
                       delivered, answered, duplicates, failures>>
    PROVE  Inv'
<1>1. /\ job[w] \in Job /\ job[w].todo # <<>>
      /\ Head(job[w].todo).op \in UserOps /\ TaskUser(w) \in Users
  BY Writing
<1>2. TypeOK /\ TableInv /\ Len(subs) \in Nat
  BY LenProperties DEF Inv, TypeOK, TableTypeOK
<1>3. job[w].row \in 1..Len(subs) /\ job[w].row \in Nat
  BY <1>1 DEF RowsOf, Job
<1>4. /\ subs' \in Seq(Row) /\ TableInv'
      /\ \A u \in Users : RowsOf(u)' = RowsOf(u)
  BY <1>2, <1>3, UpdateKeeps
<1>5. TableTypeOK'
  BY <1>2, <1>4 DEF TypeOK, TableTypeOK
<1>6. /\ JobOK(w)' /\ job' \in [Workers -> Job]
      /\ \A v \in Workers \ {w} : job'[v] = job[v]
  <2>1. CASE TaskDone(w)
    BY <1>1, <2>1, TaskDoneIsOK DEF UserOps
  <2>2. CASE Step(w, "notify")
    <3>1. job'[w].todo = job[w].todo
      BY <1>2, <1>3, <2>2, StepTypes DEF PCs
    <3>2. TaskUser(w)' = TaskUser(w)
      BY <3>1 DEF TaskUser
    <3>3. job[w].row \in RowsOf(TaskUser(w))'
      BY <1>1, <1>4, <3>2 DEF RowsOf
    <3> QED
      BY <1>3, <2>2, <3>3, GoesOnOK
  <2> QED
    BY <2>1, <2>2
<1> QED
  BY <1>2, <1>4, <1>5, <1>6, WroteTable DEF TypeOK

LEMMA TakeKeeps ==
    ASSUME Inv, NEW w \in Workers, Take(w)
    PROVE  Inv'
<1>1. job[w].pc = "write" /\ Head(job[w].todo).op = "take"
  BY DEF Take, WritingTask
<1>2. job[w].row \in RowsOf(TaskUser(w)) /\ job[w].row \in 1..Len(subs)
  BY <1>1, Writing DEF RowsOf
<1>3. /\ TakenRow(w, job[w].row) \in Row
      /\ TakenRow(w, job[w].row).userId = subs[job[w].row].userId
      /\ TakenRow(w, job[w].row).isActive = FALSE
  BY <1>2, TakenRowTypes DEF Inv
<1> QED
  BY <1>1, <1>2, <1>3, WritesBack DEF Take

LEMMA EndKeeps ==
    ASSUME Inv, NEW w \in Workers, End(w)
    PROVE  Inv'
<1>1. job[w].pc = "write" /\ Head(job[w].todo).op = "end"
  BY DEF End, WritingTask
<1>2. job[w].row \in RowsOf(TaskUser(w)) /\ job[w].row \in 1..Len(subs)
  BY <1>1, Writing DEF RowsOf
<1>3. /\ EndingRow(job[w].row) \in Row
      /\ EndingRow(job[w].row).userId = subs[job[w].row].userId
      /\ EndingRow(job[w].row).status \in LiveStatus
  BY <1>2, EndingRowTypes DEF Inv
<1> QED
  BY <1>1, <1>2, <1>3, WritesBack DEF End

(* Money and notices are for a user with a row.                            *)
LEMMA MoneyStays ==
    ASSUME Inv, NEW w \in Workers, UNCHANGED <<subs, linked>>,
           RowsOf(TaskUser(w)) # {},
           \A u \in Users \ {TaskUser(w)} :
              /\ \A ref \in Refs : payments'[<<u, ref>>] = payments[<<u, ref>>]
              /\ \A n \in NoticeTypes : <<u, n>> \in notices' => <<u, n>> \in notices
    PROVE  TableInv'
<1>1. \A u \in Users : RowsOf(u)' = RowsOf(u)
  BY SubsStay
<1>2. ActiveRowsAreLive' /\ LinkedToOwnRow'
  BY <1>1 DEF Inv, TableInv, ActiveRowsAreLive, LinkedToOwnRow
<1>3. NoMoneyWithoutSubscription'
  BY <1>1 DEF Inv, TableInv, NoMoneyWithoutSubscription
<1> QED
  BY <1>2, <1>3 DEF TableInv

LEMMA PayKeeps ==
    ASSUME Inv, NEW w \in Workers, Pay(w)
    PROVE  Inv'
<1>1. /\ job[w].pc = "pay" /\ Step(w, "notify")
      /\ UNCHANGED <<now, plans, subs, linked, notices,
                     delivered, answered, duplicates>>
      /\ payments' = payments \/ RecordPayment(TaskUser(w), job[w].req.ref)
  BY DEF Pay
<1>2. /\ job[w].row \in Nat /\ TaskUser(w) \in Users
      /\ job[w].req \in Requests /\ RowsOf(TaskUser(w)) # {}
  BY <1>1, Writing DEF Job
<1>3. job[w].req.ref \in Refs
  BY <1>2, RequestsAreRequests DEF Request
<1>4. job'[w].todo = job[w].todo
  BY <1>1, <1>2, StepTypes DEF Inv, PCs
<1>5. /\ JobOK(w)' /\ job' \in [Workers -> Job]
      /\ \A v \in Workers \ {w} : job'[v] = job[v]
  BY <1>1, <1>2, <1>4, RowStays, GoesOnOK
<1>6. payments \in [Users \X Refs -> Nat]
  BY DEF Inv, TypeOK, TableTypeOK
<1>7. /\ payments' \in [Users \X Refs -> Nat]
      /\ \A u \in Users \ {TaskUser(w)}, ref \in Refs :
            payments'[<<u, ref>>] = payments[<<u, ref>>]
  BY <1>1, <1>2, <1>3, <1>6 DEF RecordPayment
<1>8. TableTypeOK'
  BY <1>1, <1>7 DEF Inv, TypeOK, TableTypeOK
<1>9. TableInv'
  BY <1>1, <1>2, <1>7, MoneyStays
<1>10. failures' \in 0..MaxFailures
  BY RevenueCatBounds DEF Inv, TypeOK, Pay
<1>11. \A u \in Users : RowsOf(u)' = RowsOf(u)
  BY <1>1, SubsStay
<1> QED
  BY <1>1, <1>5, <1>8, <1>9, <1>10, <1>11, WroteTable

LEMMA NotifyKeeps ==
    ASSUME Inv, NEW w \in Workers, Notify(w)
    PROVE  Inv'
<1>1. /\ job[w].pc = "notify" /\ TaskDone(w)
      /\ UNCHANGED <<now, plans, subs, linked, payments,
                     delivered, answered, duplicates>>
      /\ notices' \subseteq notices \cup ({TaskUser(w)} \X NoticeOf(w))
  BY DEF Notify
<1>2. /\ job[w].todo # <<>> /\ Head(job[w].todo).op # "plan"
      /\ TaskUser(w) \in Users /\ RowsOf(TaskUser(w)) # {}
  BY <1>1, Writing DEF UserOps
<1>3. /\ JobOK(w)' /\ job' \in [Workers -> Job]
      /\ \A v \in Workers \ {w} : job'[v] = job[v]
  BY <1>1, <1>2, TaskDoneIsOK
<1>4. NoticeOf(w) \subseteq NoticeTypes
  BY DEF NoticeOf, NoticeTypes
<1>5. TableTypeOK'
  BY <1>1, <1>2, <1>4 DEF Inv, TypeOK, TableTypeOK
<1>6. TableInv'
  BY <1>1, <1>2, MoneyStays
<1>7. failures' \in 0..MaxFailures
  BY RevenueCatBounds DEF Inv, TypeOK, Notify
<1>8. \A u \in Users : RowsOf(u)' = RowsOf(u)
  BY <1>1, SubsStay
<1> QED
  BY <1>1, <1>3, <1>5, <1>6, <1>7, <1>8, WroteTable

---------------------------------------------------------------------------
(* The invariant *)

LEMMA InvInit == Init => Inv
<1> SUFFICES ASSUME Init PROVE Inv
  OBVIOUS
<1>1. TypeOK
  <2>1. TableTypeOK
    BY EmptySeq DEF Init, TableInit, TableTypeOK
  <2>2. Idle \in Job
    BY EmptySeq DEF Idle, Job, PCs
  <2> QED
    BY <2>1, <2>2, RevenueCatBounds DEF Init, RcInit, TypeOK
<1>2. TableInv
  <2>1. ActiveRowsAreLive
    <3>1. Len(subs) = 0
      BY DEF Init, TableInit
    <3> QED
      BY <3>1 DEF ActiveRowsAreLive
  <2>2. LinkedToOwnRow
    BY DEF Init, TableInit, LinkedToOwnRow
  <2>3. NoMoneyWithoutSubscription
    <3>1. ASSUME NEW u \in Users, NEW ref \in Refs
          PROVE  ~(payments[<<u, ref>>] > 0)
      <4>1. payments = [k \in Users \X Refs |-> 0]
        BY DEF Init, TableInit
      <4>2. <<u, ref>> \in Users \X Refs
        OBVIOUS
      <4>3. payments[<<u, ref>>] = 0
        BY <4>1, <4>2
      <4> QED
        BY <4>3
    <3>2. notices = {}
      BY DEF Init, TableInit
    <3> QED
      BY <3>1, <3>2 DEF NoMoneyWithoutSubscription
  <2> QED
    BY <2>1, <2>2, <2>3 DEF TableInv
<1>3. \A w \in Workers : JobOK(w)
  BY DEF Init, RcInit, JobOK, Idle, PlanFirst
<1> QED
  BY <1>1, <1>2, <1>3 DEF Inv

LEMMA InvNext == Inv /\ [Next]_vars => Inv'
<1> SUFFICES ASSUME Inv, [Next]_vars PROVE Inv'
  OBVIOUS
<1>1. CASE UNCHANGED vars
  BY <1>1 DEF vars, rcVars, tableVars, Inv, TypeOK, TableTypeOK, TableInv,
              ActiveRowsAreLive, LinkedToOwnRow, NoMoneyWithoutSubscription,
              RowsOf, JobOK, TaskUser
<1>2. ASSUME NEW w \in Workers, NEW e \in Requests, Receive(w, e)
      PROVE  Inv'
  BY <1>2, StartKeeps DEF Receive, Inv, TypeOK
<1>3. ASSUME NEW w \in Workers, NEW e \in Requests, Duplicate(w, e)
      PROVE  Inv'
  <2>1. duplicates' \in 0..MaxDuplicates
    BY <1>3, RevenueCatBounds DEF Duplicate, Inv, TypeOK
  <2> QED
    BY <1>3, <2>1, StartKeeps DEF Duplicate
<1>4. ASSUME NEW w \in Workers, RcStep(w) \/ Fail(w)
      PROVE  Inv'
  BY <1>4, BackToIdleKeeps, PlanKeeps, SkipStrangerKeeps, FindToGiveKeeps,
     GiveKeeps, LinkKeeps, PayKeeps, FindActiveKeeps, TakeKeeps, EndKeeps,
     NotifyKeeps
     DEF RcStep
<1> QED
  BY <1>1, <1>2, <1>3, <1>4 DEF Next, RcNext

LEMMA Invariance == Spec => []Inv
<1> QED
  BY InvInit, InvNext, PTL DEF Spec

(* No handler ever writes a value the schema has no place for, whatever    *)
(* handlers it interleaves with.                                           *)
THEOREM TypeCorrect == Spec => []TypeOK
<1>1. Inv => TypeOK
  BY DEF Inv
<1> QED
  BY <1>1, Invariance, PTL

(* A row that opens the premium features never carries a status that says  *)
(* the subscription is over.                                               *)
THEOREM ActiveRowsStayLive == Spec => []ActiveRowsAreLive
<1>1. Inv => ActiveRowsAreLive
  BY DEF Inv, TableInv
<1> QED
  BY <1>1, Invariance, PTL

(* User.subscriptionId is null or names one of the user's own rows, though *)
(* a handler writes it two awaits after it found the row.                  *)
THEOREM LinksStayOwn == Spec => []LinkedToOwnRow
<1>1. Inv => LinkedToOwnRow
  BY DEF Inv, TableInv
<1> QED
  BY <1>1, Invariance, PTL

(* Payments and notices name only users who have a subscription row.       *)
THEOREM MoneyNeedsSubscription == Spec => []NoMoneyWithoutSubscription
<1>1. Inv => NoMoneyWithoutSubscription
  BY DEF Inv, TableInv
<1> QED
  BY <1>1, Invariance, PTL

---------------------------------------------------------------------------
(* Handlers that run one at a time                                         *)
(*                                                                         *)
(* What a handler has found still holds when it writes: nobody else has    *)
(* written in between.  A delivery may still be lost, repeated, late, out  *)
(* of order, or fail half-way.                                             *)

OneAtATime == \A v, w \in Workers : v = w

Asked(e, t) == \E tasks \in TaskLists(e) : \E i \in 1..Len(tasks) : tasks[i] = t

(* What is left to do was asked for.                                       *)
TodoOK(w) ==
    job[w].pc # "idle" =>
        \A k \in 1..Len(job[w].todo) : Asked(job[w].req, job[w].todo[k])

(* What was found is still so.                                             *)
FoundOK(w) ==
    /\ job[w].pc = "write" /\ job[w].row = 0 => RowsOf(TaskUser(w)) = {}
    /\ job[w].pc = "write" /\ Head(job[w].todo).op # "give" =>
           subs[job[w].row].isActive
    /\ job[w].pc \in {"link", "pay", "notify"} =>
           Head(job[w].todo).op \in {"give", "end"}

TargetOf(e, u) ==
    \E k \in DOMAIN TransferTargets(e) : TransferTargets(e)[k] = u

Retired(w, u) ==
    \/ \E k \in 1..Len(job[w].todo) :
          job[w].todo[k] = [op |-> "take", user |-> u]
    \/ ActiveRows(u) = {}
    \/ TargetOf(job[w].req, u)

TransferOK(w) ==
    /\ job[w].pc # "idle"
    /\ SubscriptionRequired
    /\ job[w].req.type = "TRANSFER"
    => \A i \in DOMAIN job[w].req.from :
          job[w].req.from[i] \in Users => Retired(w, job[w].req.from[i])

Given(w, u, r) == r \in ActiveRows(u) /\ subs[r].planId = job[w].plan

SyncOK(w) ==
    /\ job[w].pc # "idle"
    /\ SubscriptionRequired
    /\ job[w].req.via = "sync"
    => LET u    == job[w].req.ids[1]
           todo == job[w].todo
           gift == [op |-> "give", user |-> u]
       IN \/ /\ Len(todo) = 2 /\ todo[1].op = "plan" /\ todo[2] = gift
             /\ job[w].pc = "next"
          \/ /\ Len(todo) = 1 /\ todo[1] = gift
             /\ \/ job[w].pc \in {"next", "write"}
                \/ job[w].pc = "link" /\ Given(w, u, job[w].row)
                \/ /\ job[w].pc \in {"pay", "notify"}
                   /\ Given(w, u, job[w].row) /\ linked[u] = job[w].row
          \/ /\ Len(todo) = 0 /\ job[w].pc = "next"
             /\ \E r \in ActiveRows(u) : Given(w, u, r) /\ linked[u] = r

SerialInv ==
    /\ Inv
    /\ OneRowPerUser
    /\ \A w \in Workers : TodoOK(w) /\ FoundOK(w) /\ TransferOK(w) /\ SyncOK(w)

(* The rest of a list of tasks.                                            *)
LEMMA TodoTail ==
    ASSUME NEW s \in Seq(Task), s # <<>>
    PROVE  /\ Len(s) \in Nat /\ Len(s) >= 1
           /\ Len(Tail(s)) = Len(s) - 1
           /\ \A i \in 1..(Len(s) - 1) : Tail(s)[i] = s[i + 1]
           /\ Head(s) = s[1]
BY HeadTailProperties, LenProperties, EmptySeq

LEMMA PlanMoves ==
    ASSUME Inv, NEW w \in Workers, Plan(w)
    PROVE  /\ job'[w].pc = "next" /\ job'[w].req = job[w].req
           /\ job'[w].todo = Tail(job[w].todo)
           /\ job[w].pc = "next"
           /\ job[w].todo # <<>> /\ Head(job[w].todo).op = "plan"
           /\ UNCHANGED <<subs, linked, delivered>>
<1>1. PICK p \in ResolvedPlans(job[w].req) :
         job' = [job EXCEPT ![w].plan = p, ![w].todo = Tail(@)]
  BY DEF Plan
<1>2. job[w] \in Job /\ job[w].pc = "next" /\ job[w].todo # <<>>
      /\ Head(job[w].todo).op = "plan"
  BY DEF Inv, TypeOK, Plan, AtTask
<1>3. PICK j : j = [job[w] EXCEPT !.plan = p, !.todo = Tail(job[w].todo)]
  OBVIOUS
<1>4. job' = [job EXCEPT ![w] = j]
  BY <1>1, <1>2, <1>3, Zenon DEF Inv, TypeOK, Job
<1>5. job'[w] = j
  BY <1>4 DEF Inv, TypeOK
<1>6. /\ j.pc = job[w].pc /\ j.req = job[w].req
      /\ j.todo = Tail(job[w].todo)
  BY <1>2, <1>3 DEF Job
<1> QED
  BY <1>2, <1>5, <1>6 DEF Plan, tableVars

LEMMA StartMoves ==
    ASSUME Inv, NEW w \in Workers, NEW e \in Requests, Start(w, e)
    PROVE  /\ UNCHANGED tableVars /\ delivered' = delivered \cup {e}
           /\ \E tasks \in TaskLists(e) :
                 job'[w] = [Idle EXCEPT !.pc = "next", !.req = e, !.todo = tasks]
BY DEF Start, Inv, TypeOK

LEMMA StartFields ==
    ASSUME NEW e, NEW tasks
    PROVE  LET j == [Idle EXCEPT !.pc = "next", !.req = e, !.todo = tasks] IN
           j.pc = "next" /\ j.req = e /\ j.todo = tasks
BY DEF Idle

(* Every step of w but a start takes one of these ways.                    *)
Forgets(w) == job'[w] = Idle

Pops(w) ==
    /\ job'[w].pc = "next"
    /\ job[w].todo # <<>> /\ job[w].todo \in Seq(Task)
    /\ job'[w].todo = Tail(job[w].todo)
    /\ job'[w].req = job[w].req

GoesOn(w, pc) ==
    /\ job'[w].pc = pc
    /\ job[w].todo # <<>> /\ job[w].todo \in Seq(Task)
    /\ job'[w].todo = job[w].todo
    /\ job'[w].req = job[w].req
    /\ job'[w].plan = job[w].plan

LEMMA StepsGoOn ==
    ASSUME Inv, NEW w \in Workers
    PROVE  /\ FindToGive(w) => GoesOn(w, "write")
           /\ Give(w) => GoesOn(w, "link")
           /\ Link(w) => GoesOn(w, "pay") /\ job'[w].row = job[w].row
           /\ Pay(w) => GoesOn(w, "notify") /\ job'[w].row = job[w].row
           /\ End(w) => GoesOn(w, "notify") /\ job'[w].row = job[w].row
<1>1. /\ TypeOK /\ job[w].todo \in Seq(Task) /\ job[w].row \in Nat
      /\ Len(subs) \in Nat
  BY LenProperties DEF Inv, TypeOK, TableTypeOK, Job
<1>2. ASSUME NEW pc \in PCs, NEW r \in Nat, job[w].todo # <<>>,
             StepWithRow(w, pc, r) \/ (r = job[w].row /\ Step(w, pc))
      PROVE  GoesOn(w, pc) /\ job'[w].row = r
  BY <1>1, <1>2, StepTypes DEF GoesOn
<1>3. job[w].pc \in {"write", "link", "pay", "notify"} => job[w].todo # <<>>
  BY Writing
<1>4. ASSUME FindToGive(w) PROVE GoesOn(w, "write")
  <2>1. PICK r \in FindFirst(RowsToGive(TaskUser(w))) : StepWithRow(w, "write", r)
    BY <1>4 DEF FindToGive
  <2>2. r \in Nat
    BY <1>1, <2>1 DEF FindFirst, RowsToGive, Newest, RowsOf
  <2> QED
    BY <1>2, <1>4, <2>1, <2>2 DEF FindToGive, AtTask, PCs
<1>5. ASSUME Give(w) PROVE GoesOn(w, "link")
  <2>1. job[w].todo # <<>>
    BY <1>3, <1>5 DEF Give, WritingTask
  <2>2. StepWithRow(w, "link", Len(subs) + 1) \/ Step(w, "link")
    BY <1>5 DEF Give
  <2>3. Len(subs) + 1 \in Nat
    BY <1>1
  <2> QED
    BY <1>1, <1>2, <2>1, <2>2, <2>3 DEF PCs
<1>6. ASSUME Link(w) PROVE GoesOn(w, "pay") /\ job'[w].row = job[w].row
  BY <1>1, <1>2, <1>3, <1>6 DEF Link, PCs
<1>7. ASSUME Pay(w) PROVE GoesOn(w, "notify") /\ job'[w].row = job[w].row
  BY <1>1, <1>2, <1>3, <1>7 DEF Pay, PCs
<1>8. ASSUME End(w) PROVE GoesOn(w, "notify") /\ job'[w].row = job[w].row
  BY <1>1, <1>2, <1>3, <1>8 DEF End, WritingTask, PCs
<1> QED
  BY <1>4, <1>5, <1>6, <1>7, <1>8

LEMMA StepsPop ==
    ASSUME Inv, NEW w \in Workers,
           \/ Plan(w) \/ SkipStranger(w) \/ Take(w) \/ Notify(w)
           \/ FindActive(w) /\ TaskDone(w)
    PROVE  Pops(w)
<1>1. TypeOK /\ job[w].todo \in Seq(Task)
  BY DEF Inv, TypeOK, Job
<1>2. CASE Plan(w)
  BY <1>1, <1>2, PlanMoves DEF Pops
<1>3. CASE SkipStranger(w) \/ Take(w) \/ Notify(w) \/ (FindActive(w) /\ TaskDone(w))
  <2>1. TaskDone(w)
    BY <1>3 DEF SkipStranger, Take, Notify
  <2>2. job[w].todo # <<>>
    BY <1>3, Writing
       DEF SkipStranger, Take, Notify, FindActive, AtTask, WritingTask
  <2> QED
    BY <1>1, <2>1, <2>2, TaskDoneTypes DEF Pops
<1> QED
  BY <1>2, <1>3

(* A row that is found by FindActive.                                      *)
LEMMA FindsActive ==
    ASSUME Inv, NEW w \in Workers, FindActive(w)
    PROVE  /\ job[w].pc = "next" /\ TaskUser(w) \in Users
           /\ job[w].todo # <<>> /\ Head(job[w].todo).op \in {"take", "end"}
           /\ UNCHANGED <<subs, linked, delivered>>
           /\ \/ TaskDone(w) /\ Newest(ActiveRows(TaskUser(w))) = {}
              \/ /\ GoesOn(w, "write")
                 /\ job'[w].row \in ActiveRows(TaskUser(w)) /\ job'[w].row \in Nat
<1>1. /\ job[w].pc = "next" /\ TaskUser(w) \in Users
      /\ job[w].todo # <<>> /\ Head(job[w].todo).op \in {"take", "end"}
      /\ UNCHANGED <<subs, linked, delivered>>
  BY DEF FindActive, AtTask, tableVars
<1>2. ASSUME NEW r \in Newest(ActiveRows(TaskUser(w))), StepWithRow(w, "write", r)
      PROVE  GoesOn(w, "write") /\ job'[w].row = r /\ r \in Nat
                                /\ r \in ActiveRows(TaskUser(w))
  <2>1. r \in ActiveRows(TaskUser(w)) /\ r \in Nat
    BY LenProperties
       DEF Newest, ActiveRows, RowsOf, Inv, TypeOK, TableTypeOK
  <2> QED
    BY <1>1, <1>2, <2>1, StepTypes DEF Inv, TypeOK, Job, PCs, GoesOn
<1> QED
  BY <1>1, <1>2 DEF FindActive

---------------------------------------------------------------------------
(* One row per user *)

(* A write of user u's row, or of a first row for u, is nobody else's      *)
(* business.                                                               *)
OnlyRowsOf(u) ==
    \A v \in Users \ {u} :
        /\ RowsOf(v)' = RowsOf(v)
        /\ ActiveRows(v)' = ActiveRows(v)
        /\ EntOf(v)' = EntOf(v)

LEMMA OthersKeepRows ==
    ASSUME NEW u, NEW v, RowsOf(v)' = RowsOf(v),
           \A i \in RowsOf(v) : subs'[i] = subs[i]
    PROVE  ActiveRows(v)' = ActiveRows(v) /\ EntOf(v)' = EntOf(v)
<1>1. ActiveRows(v)' = ActiveRows(v)
  BY DEF ActiveRows
<1>2. \A i \in ActiveRows(v) : subs'[i] = subs[i]
  BY DEF ActiveRows
<1> QED
  BY <1>1, <1>2 DEF EntOf

(* The row r is all that its owner has.                                    *)
LEMMA OnlyRow ==
    ASSUME OneRowPerUser, NEW u, NEW r \in RowsOf(u)
    PROVE  /\ RowsOf(u) = {r}
           /\ ActiveRows(u) = IF subs[r].isActive THEN {r} ELSE {}
           /\ EntOf(u) = IF ~subs[r].isActive THEN "off"
                         ELSE IF subs[r].cancelAtPeriodEnd THEN "ending"
                         ELSE "on"
<1>1. RowsOf(u) = {r}
  BY DEF OneRowPerUser, RowsOf
<1>2. ActiveRows(u) = IF subs[r].isActive THEN {r} ELSE {}
  BY <1>1 DEF ActiveRows
<1> QED
  BY <1>1, <1>2 DEF EntOf

LEMMA OnlyRowThen ==
    ASSUME OneRowPerUser', NEW u, NEW r, r \in RowsOf(u)', NEW row, subs'[r] = row
    PROVE  /\ RowsOf(u)' = {r}
           /\ ActiveRows(u)' = IF row.isActive THEN {r} ELSE {}
           /\ EntOf(u)' = IF ~row.isActive THEN "off"
                          ELSE IF row.cancelAtPeriodEnd THEN "ending"
                          ELSE "on"
<1>1. RowsOf(u)' = {r}
  BY DEF OneRowPerUser, RowsOf
<1>2. ActiveRows(u)' = IF row.isActive THEN {r} ELSE {}
  BY <1>1 DEF ActiveRows
<1> QED
  BY <1>1, <1>2 DEF EntOf

(* Of one row or none, the newest is found.                                *)
LEMMA NewestOfOne ==
    ASSUME TypeOK, OneRowPerUser, NEW u, NEW S \in SUBSET RowsOf(u)
    PROVE  Newest(S) = S
<1>1. \A i, j \in S : i = j
  BY DEF OneRowPerUser, RowsOf
<1>2. \A i \in S : subs[i].startDate \in Nat
  <2> SUFFICES ASSUME NEW i \in S PROVE subs[i].startDate \in Nat
    OBVIOUS
  <2>1. subs[i] \in Row
    BY ElementOfSeq DEF RowsOf, TypeOK, TableTypeOK
  <2> QED
    BY <2>1 DEF Row
<1>3. \A i \in S, j \in S : subs[j].startDate <= subs[i].startDate
  BY <1>1, <1>2
<1> QED
  BY <1>3 DEF Newest

LEMMA UpdateMoves ==
    ASSUME TypeOK, OneRowPerUser, NEW u \in Users, NEW r \in RowsOf(u),
           NEW row \in Row, row.userId = u, Update(r, row)
    PROVE  /\ OneRowPerUser' /\ OnlyRowsOf(u)
           /\ r \in RowsOf(u)' /\ subs'[r] = row
<1>1. /\ subs \in Seq(Row) /\ r \in 1..Len(subs) /\ subs[r].userId = u
      /\ Len(subs') = Len(subs)
      /\ \A i \in 1..Len(subs) : subs'[i] = IF i = r THEN row ELSE subs[i]
  BY ExceptSeq DEF TypeOK, TableTypeOK, Update, RowsOf
<1>2. OneRowPerUser'
  BY <1>1 DEF OneRowPerUser
<1>3. ASSUME NEW v \in Users \ {u}
      PROVE  RowsOf(v)' = RowsOf(v) /\ \A i \in RowsOf(v) : subs'[i] = subs[i]
  BY <1>1 DEF RowsOf
<1>4. OnlyRowsOf(u)
  BY <1>3, OthersKeepRows DEF OnlyRowsOf
<1> QED
  BY <1>1, <1>2, <1>4 DEF RowsOf

LEMMA CreateMoves ==
    ASSUME TypeOK, OneRowPerUser, NEW u \in Users, RowsOf(u) = {},
           NEW row \in Row, row.userId = u, Create(row)
    PROVE  /\ OneRowPerUser' /\ OnlyRowsOf(u)
           /\ Len(subs) + 1 \in RowsOf(u)' /\ subs'[Len(subs) + 1] = row
<1>1. /\ subs \in Seq(Row) /\ Len(subs) \in Nat /\ Len(subs') = Len(subs) + 1
      /\ \A i \in 1..Len(subs) : subs'[i] = subs[i]
      /\ subs'[Len(subs) + 1] = row
  BY AppendProperties, LenProperties DEF TypeOK, TableTypeOK, Create
<1>2. OneRowPerUser'
  <2> SUFFICES ASSUME NEW i \in 1..Len(subs'), NEW j \in 1..Len(subs'),
                      subs'[i].userId = subs'[j].userId
               PROVE  i = j
    BY DEF OneRowPerUser
  <2>1. \A k \in 1..Len(subs) : subs[k].userId # u
    BY DEF RowsOf
  <2> QED
    BY <1>1, <2>1 DEF OneRowPerUser
<1>3. ASSUME NEW v \in Users \ {u}
      PROVE  RowsOf(v)' = RowsOf(v) /\ \A i \in RowsOf(v) : subs'[i] = subs[i]
  BY <1>1 DEF RowsOf
<1>4. OnlyRowsOf(u)
  BY <1>3, OthersKeepRows DEF OnlyRowsOf
<1> QED
  BY <1>1, <1>2, <1>4 DEF RowsOf

(* The columns of the rows the handlers write.                             *)
LEMMA GivenRowSays ==
    ASSUME NEW w \in Workers, NEW old,
           old \in Row \/ \E u \in Users : old = BlankRow(u)
    PROVE  /\ GivenRow(w, old).isActive = TRUE
           /\ GivenRow(w, old).cancelAtPeriodEnd = FALSE
           /\ GivenRow(w, old).planId = job[w].plan
BY DEF GivenRow, Row, BlankRow

LEMMA EndingRowSays ==
    ASSUME NEW r, subs[r] \in Row
    PROVE  /\ EndingRow(r).isActive = subs[r].isActive
           /\ EndingRow(r).cancelAtPeriodEnd = TRUE
BY DEF EndingRow, Row

(* A gift: the user has one active row, on the plan that was found.        *)
LEMMA GiveWrites ==
    ASSUME SerialInv, NEW w \in Workers, Give(w)
    PROVE  /\ OneRowPerUser' /\ OnlyRowsOf(TaskUser(w))
           /\ TaskUser(w) \in Users
           /\ job'[w].row \in RowsOf(TaskUser(w))'
           /\ \E row : /\ subs'[job'[w].row] = row
                       /\ row.isActive = TRUE /\ row.cancelAtPeriodEnd = FALSE
                       /\ row.planId = job[w].plan
           /\ UNCHANGED <<linked, delivered>>
<1>1. /\ Inv /\ TypeOK /\ OneRowPerUser /\ FoundOK(w)
      /\ job[w].pc = "write" /\ Head(job[w].todo).op = "give"
      /\ UNCHANGED <<linked, delivered>>
  BY DEF SerialInv, Inv, Give, WritingTask
<1>2. PICK u : u = TaskUser(w)
  OBVIOUS
<1>3. /\ u \in Users /\ job[w].req \in Requests /\ job[w].todo # <<>>
      /\ job[w].row \in Nat /\ (job[w].row = 0 \/ job[w].row \in RowsOf(u))
  <2>1. job[w].row = 0 \/ job[w].row \in RowsOf(u)
    BY <1>1, <1>2 DEF Inv, JobOK
  <2> QED
    BY <1>1, <1>2, <2>1, Writing DEF Job
<1>4. job[w].plan \in Plans
  BY <1>1, <1>3, GiftHasPlan
<1>5. CASE job[w].row = 0 /\ Create(GivenRow(w, BlankRow(u)))
                          /\ StepWithRow(w, "link", Len(subs) + 1)
  <2>1. PICK row : row = GivenRow(w, BlankRow(u))
    OBVIOUS
  <2>2. row \in Row /\ row.userId = u
    BY <1>1, <1>3, <1>4, <2>1, GivenRowTypes DEF BlankRow
  <2>3. RowsOf(u) = {}
    BY <1>1, <1>2, <1>5 DEF FoundOK
  <2>4. /\ OneRowPerUser' /\ OnlyRowsOf(u)
        /\ Len(subs) + 1 \in RowsOf(u)' /\ subs'[Len(subs) + 1] = row
    BY <1>1, <1>3, <1>5, <2>1, <2>2, <2>3, CreateMoves
  <2>5. job'[w].row = Len(subs) + 1
    <3>1. Len(subs) + 1 \in Nat
      BY <1>1, LenProperties DEF TypeOK, TableTypeOK
    <3> QED
      BY <1>1, <1>5, <3>1, StepTypes DEF PCs
  <2>6. /\ row.isActive = TRUE /\ row.cancelAtPeriodEnd = FALSE
        /\ row.planId = job[w].plan
    BY <1>3, <2>1, GivenRowSays
  <2>7. Len(subs) + 1 \in RowsOf(TaskUser(w))'
    BY <1>2, <2>4, <1>5, <1>1, StepsGoOn DEF RowsOf, GoesOn, TaskUser
  <2> QED
    BY <1>1, <1>2, <1>3, <2>4, <2>5, <2>6, <2>7
<1>6. CASE job[w].row # 0 /\ Update(job[w].row, GivenRow(w, subs[job[w].row]))
                          /\ Step(w, "link")
  <2>1. PICK r : r = job[w].row
    OBVIOUS
  <2>2. r \in RowsOf(u) /\ subs[r] \in Row /\ subs[r].userId = u
    BY <1>1, <1>3, <1>6, <2>1, ElementOfSeq DEF RowsOf, TypeOK, TableTypeOK
  <2>3. PICK row : row = GivenRow(w, subs[r])
    OBVIOUS
  <2>4. row \in Row /\ row.userId = u
    BY <1>1, <1>3, <1>4, <2>2, <2>3, GivenRowTypes
  <2>5. OneRowPerUser' /\ OnlyRowsOf(u) /\ r \in RowsOf(u)' /\ subs'[r] = row
    BY <1>1, <1>3, <1>6, <2>1, <2>2, <2>3, <2>4, UpdateMoves
  <2>6. job'[w].row = r
    BY <1>1, <1>3, <1>6, <2>1, StepTypes DEF PCs
  <2>7. /\ row.isActive = TRUE /\ row.cancelAtPeriodEnd = FALSE
        /\ row.planId = job[w].plan
    BY <2>2, <2>3, GivenRowSays
  <2>8. r \in RowsOf(TaskUser(w))'
    BY <1>1, <1>2, <2>5, StepsGoOn DEF RowsOf, GoesOn, TaskUser
  <2> QED
    BY <1>1, <1>2, <1>3, <2>5, <2>6, <2>7, <2>8
<1> QED
  BY <1>2, <1>5, <1>6 DEF Give

(* What is taken or ended: the user's one row, which is active.            *)
LEMMA RowToWrite ==
    ASSUME SerialInv, NEW w \in Workers, Take(w) \/ End(w)
    PROVE  /\ Inv /\ TypeOK /\ OneRowPerUser /\ TaskUser(w) \in Users
           /\ job[w].todo # <<>> /\ job[w].pc = "write"
           /\ job[w].row \in RowsOf(TaskUser(w))
           /\ job[w].row \in 1..Len(subs)
           /\ subs[job[w].row] \in Row /\ subs[job[w].row].isActive
           /\ subs[job[w].row].userId = TaskUser(w)
           /\ UNCHANGED <<linked, delivered>>
<1>1. /\ Inv /\ TypeOK /\ OneRowPerUser /\ FoundOK(w)
      /\ job[w].pc = "write" /\ Head(job[w].todo).op \in {"take", "end"}
      /\ UNCHANGED <<linked, delivered>>
  BY DEF SerialInv, Inv, Take, End, WritingTask
<1>2. /\ TaskUser(w) \in Users /\ job[w].todo # <<>>
      /\ job[w].row \in RowsOf(TaskUser(w))
  BY <1>1, Writing
<1>3. job[w].row \in 1..Len(subs) /\ subs[job[w].row].userId = TaskUser(w)
  BY <1>2 DEF RowsOf
<1>4. subs[job[w].row] \in Row
  BY <1>1, <1>3, ElementOfSeq DEF TypeOK, TableTypeOK
<1>5. subs[job[w].row].isActive
  BY <1>1 DEF FoundOK
<1> QED
  BY <1>1, <1>2, <1>3, <1>4, <1>5

LEMMA TakeWrites ==
    ASSUME SerialInv, NEW w \in Workers, Take(w)
    PROVE  /\ OneRowPerUser' /\ OnlyRowsOf(TaskUser(w))
           /\ TaskUser(w) \in Users /\ RowsOf(TaskUser(w)) # {}
           /\ \A u : u = TaskUser(w) =>
                 /\ EntOf(u) \in {"on", "ending"}
                 /\ EntOf(u)' = "off" /\ ActiveRows(u)' = {}
<1>1. PICK u, r : u = TaskUser(w) /\ r = job[w].row
  OBVIOUS
<1>2. /\ Inv /\ TypeOK /\ OneRowPerUser /\ u \in Users
      /\ r \in RowsOf(u) /\ r \in 1..Len(subs) /\ subs[r].userId = u
      /\ subs[r].isActive
  BY <1>1, RowToWrite
<1>3. PICK row : row = TakenRow(w, r)
  OBVIOUS
<1>4. /\ row \in Row /\ row.userId = u /\ row.isActive = FALSE
      /\ Update(r, row)
  BY <1>1, <1>2, <1>3, TakenRowTypes DEF Take
<1>5. OneRowPerUser' /\ OnlyRowsOf(u) /\ r \in RowsOf(u)' /\ subs'[r] = row
  BY <1>2, <1>4, UpdateMoves
<1>6. EntOf(u) \in {"on", "ending"}
  BY <1>2, OnlyRow
<1>7. EntOf(u)' = "off" /\ ActiveRows(u)' = {}
  BY <1>4, <1>5, OnlyRowThen
<1> QED
  BY <1>1, <1>2, <1>5, <1>6, <1>7

LEMMA EndWrites ==
    ASSUME SerialInv, NEW w \in Workers, End(w)
    PROVE  /\ OneRowPerUser' /\ OnlyRowsOf(TaskUser(w))
           /\ TaskUser(w) \in Users
           /\ \A u : u = TaskUser(w) =>
                 /\ EntOf(u) \in {"on", "ending"}
                 /\ EntOf(u)' = "ending" /\ ActiveRows(u)' = ActiveRows(u)
<1>1. PICK u, r : u = TaskUser(w) /\ r = job[w].row
  OBVIOUS
<1>2. /\ Inv /\ TypeOK /\ OneRowPerUser /\ u \in Users
      /\ r \in RowsOf(u) /\ r \in 1..Len(subs) /\ subs[r].userId = u
      /\ subs[r] \in Row /\ subs[r].isActive
  BY <1>1, RowToWrite
<1>3. PICK row : row = EndingRow(r)
  OBVIOUS
<1>4. /\ row \in Row /\ row.userId = u /\ Update(r, row)
      /\ row.isActive = subs[r].isActive /\ row.cancelAtPeriodEnd = TRUE
  BY <1>1, <1>2, <1>3, EndingRowTypes, EndingRowSays DEF End
<1>5. OneRowPerUser' /\ OnlyRowsOf(u) /\ r \in RowsOf(u)' /\ subs'[r] = row
  BY <1>2, <1>4, UpdateMoves
<1>6. EntOf(u) \in {"on", "ending"} /\ ActiveRows(u) = {r}
  BY <1>2, OnlyRow
<1>7. EntOf(u)' = "ending" /\ ActiveRows(u)' = {r}
  BY <1>2, <1>4, <1>5, OnlyRowThen
<1> QED
  BY <1>1, <1>2, <1>5, <1>6, <1>7

(* The remaining steps only read the table.                                *)
LEMMA WhoWrites ==
    ASSUME NEW w \in Workers, RcStep(w) \/ Fail(w)
    PROVE  UNCHANGED subs \/ Give(w) \/ Take(w) \/ End(w)
BY DEF RcStep, Fail, Answer, Plan, NoPlanToGive, SkipStranger, FindToGive,
       Link, Pay, FindActive, Notify, tableVars

---------------------------------------------------------------------------
(* The tasks of a transfer and of a sync call                              *)

LEMMA EachSays ==
    ASSUME NEW op \in UserOps, NEW ids \in Seq(Ids)
    PROVE  /\ Each(op, ids) \in Seq(Task)
           /\ Len(Each(op, ids)) = Len(ids) /\ Len(ids) \in Nat
           /\ DOMAIN ids = 1..Len(ids)
           /\ \A i \in 1..Len(ids) :
                 Each(op, ids)[i] = [op |-> op, user |-> ids[i]]
<1>1. DOMAIN ids = 1..Len(ids) /\ Len(ids) \in Nat
  BY LenProperties
<1>2. \A i \in DOMAIN ids : Each(op, ids)[i] = [op |-> op, user |-> ids[i]]
  BY DEF Each
<1> QED
  BY <1>1, <1>2, EachTypes

(* A transfer gives to its targets only, and takes from every source.      *)
LEMMA TransferAsks ==
    ASSUME NEW e \in Request
    PROVE  /\ \A i \in 1..Len(TransferTasks(e)) :
                 LET t == TransferTasks(e)[i] IN
                 /\ t.op \in {"take", "plan", "give"}
                 /\ t.op = "give" => TargetOf(e, t.user)
           /\ \A i \in DOMAIN e.from :
                 \E k \in 1..Len(TransferTasks(e)) :
                    TransferTasks(e)[k] = [op |-> "take", user |-> e.from[i]]
<1>1. e.from \in Seq(Ids) /\ e.to \in Seq(Ids) /\ e.ids \in Seq(Ids)
  BY DEF Request
<1>2. PICK targets : targets = TransferTargets(e)
  OBVIOUS
<1>3. targets \in Seq(Ids)
  BY <1>1, <1>2 DEF TransferTargets
<1>4. PICK takes, gives : /\ takes = Each("take", e.from)
                          /\ gives = Each("give", targets)
  OBVIOUS
<1>5. /\ takes \in Seq(Task) /\ Len(takes) = Len(e.from)
      /\ Len(takes) \in Nat /\ DOMAIN e.from = 1..Len(takes)
      /\ \A i \in 1..Len(takes) : takes[i] = [op |-> "take", user |-> e.from[i]]
  BY <1>1, <1>4, EachSays DEF UserOps
<1>6. /\ gives \in Seq(Task) /\ Len(gives) = Len(targets)
      /\ Len(gives) \in Nat /\ DOMAIN targets = 1..Len(gives)
      /\ \A i \in 1..Len(gives) : gives[i] = [op |-> "give", user |-> targets[i]]
  BY <1>3, <1>4, EachSays DEF UserOps
<1>7. PICK front : front = takes \o FindPlan
  OBVIOUS
<1>8. /\ front \in Seq(Task) /\ Len(takes) \in Nat /\ Len(front) = Len(takes) + 1
      /\ \A i \in 1..Len(front) :
            front[i] = IF i <= Len(takes) THEN takes[i]
                       ELSE FindPlan[i - Len(takes)]
  BY <1>5, <1>7, FindPlanTypes, ConcatProperties, LenProperties
<1>9. /\ \A i \in 1..Len(takes) : front[i] = takes[i]
      /\ front[Len(takes) + 1] = FindPlan[1]
  <2>1. Len(takes) + 1 \in 1..Len(front) /\ Len(takes) + 1 - Len(takes) = 1
    BY <1>8
  <2> QED
    BY <1>8, <2>1
<1>10. PICK t : t = TransferTasks(e)
  OBVIOUS
<1>11. /\ t = front \o gives
       /\ Len(t) = Len(front) + Len(gives)
       /\ \A i \in 1..Len(t) : t[i] = IF i <= Len(front) THEN front[i]
                                      ELSE gives[i - Len(front)]
  <2>1. t = front \o gives
    BY <1>2, <1>4, <1>7, <1>10 DEF TransferTasks
  <2>2. front \in Seq(Task) /\ gives \in Seq(Task)
    BY <1>6, <1>8
  <2>3. /\ Len(front \o gives) = Len(front) + Len(gives)
        /\ \A i \in 1..(Len(front) + Len(gives)) :
              (front \o gives)[i] = IF i <= Len(front) THEN front[i]
                                    ELSE gives[i - Len(front)]
    BY <2>2, ConcatProperties, Zenon
  <2> QED
    BY <2>1, <2>3
<1>12. ASSUME NEW i \in 1..Len(t)
       PROVE  /\ t[i].op \in {"take", "plan", "give"}
              /\ t[i].op = "give" => TargetOf(e, t[i].user)
  <2>1. CASE i \in 1..Len(takes)
    <3>1. t[i] = [op |-> "take", user |-> e.from[i]]
      BY <1>5, <1>8, <1>9, <1>11, <2>1
    <3> QED
      BY <3>1
  <2>2. CASE i = Len(takes) + 1
    <3>1. t[i].op = "plan"
      BY <1>8, <1>9, <1>11, <2>2, FindPlanTypes
    <3> QED
      BY <3>1
  <2>3. CASE i > Len(front)
    <3>1. PICK k : k = i - Len(front)
      OBVIOUS
    <3>2. k \in 1..Len(gives) /\ t[i] = gives[k]
      BY <1>8, <1>11, <2>3, <3>1
    <3>3. gives[k] = [op |-> "give", user |-> targets[k]]
      BY <1>6, <3>2
    <3>4. t[i].op = "give" /\ t[i].user = targets[k]
      BY <3>2, <3>3
    <3>5. k \in DOMAIN targets
      BY <1>6, <3>2
    <3> QED
      BY <1>2, <3>4, <3>5 DEF TargetOf
  <2> QED
    BY <1>8, <1>11, <2>1, <2>2, <2>3
<1>13. ASSUME NEW i \in DOMAIN e.from
       PROVE  \E k \in 1..Len(t) : t[k] = [op |-> "take", user |-> e.from[i]]
  <2>1. i \in 1..Len(takes)
    BY <1>5
  <2>2. i \in 1..Len(t) /\ t[i] = takes[i]
    BY <1>5, <1>6, <1>8, <1>9, <1>11, <2>1
  <2>3. takes[i] = [op |-> "take", user |-> e.from[i]]
    BY <1>5, <2>1
  <2> QED
    BY <2>2, <2>3
<1> QED
  BY <1>10, <1>12, <1>13

(* A sync call is made for a user and asks for the plan and one gift.      *)
LEMMA SyncAsks ==
    ASSUME NEW e \in Requests, e.via = "sync", SubscriptionRequired,
           NEW tasks \in TaskLists(e)
    PROVE  /\ e.ids[1] \in Users /\ ResolvedUsers(e) = {e.ids[1]}
           /\ Len(tasks) = 2 /\ tasks[1].op = "plan"
           /\ tasks[2] = [op |-> "give", user |-> e.ids[1]]
<1>1. PICK u \in Users : e.ids = <<u>>
  BY RequestsAreRequests
<1>2. e.type = "INITIAL_PURCHASE" /\ e \in Request
  BY RequestsAreRequests
<1>3. e.ids[1] = u /\ DOMAIN e.ids = {1}
  BY <1>1
<1>4. ResolvedUsers(e) = {u}
  BY <1>3 DEF ResolvedUsers
<1>5. tasks = UserTasks(e, u)
  BY <1>2, <1>4 DEF TaskLists
<1>6. tasks = FindPlan \o Each("give", <<u>>)
  BY <1>2, <1>5 DEF UserTasks, GivingTypes, EndingTypes
<1>7. PICK gives : gives = Each("give", <<u>>)
  OBVIOUS
<1>8. /\ gives \in Seq(Task) /\ Len(gives) = 1
      /\ gives[1] = [op |-> "give", user |-> u]
  <2>1. <<u>> \in Seq(Ids) /\ Len(<<u>>) = 1
    BY DEF Ids
  <2>2. 1 \in DOMAIN <<u>>
    OBVIOUS
  <2> QED
    BY <1>7, <2>1, <2>2, EachTypes DEF Each, UserOps
<1>9. /\ Len(tasks) = 2 /\ tasks[1] = FindPlan[1] /\ tasks[2] = gives[1]
  BY <1>6, <1>7, <1>8, FindPlanTypes, ConcatProperties
<1> QED
  BY <1>3, <1>4, <1>8, <1>9, FindPlanTypes

LEMMA SyncUser ==
    ASSUME NEW e \in Requests, e.via = "sync"
    PROVE  e.ids[1] \in Users /\ ResolvedUsers(e) = {e.ids[1]}
<1>1. PICK u \in Users : e.ids = <<u>>
  BY RequestsAreRequests
<1>2. e.ids[1] = u /\ DOMAIN e.ids = {1}
  BY <1>1
<1> QED
  BY <1>2 DEF ResolvedUsers

---------------------------------------------------------------------------
(* What each step leaves of SerialInv                                      *)

LEMMA SerialParts ==
    ASSUME SerialInv, NEW w \in Workers
    PROVE  /\ Inv /\ TypeOK /\ OneRowPerUser
           /\ TodoOK(w) /\ FoundOK(w) /\ TransferOK(w) /\ SyncOK(w)
           /\ job[w] \in Job /\ job[w].todo \in Seq(Task)
BY DEF SerialInv, Inv, TypeOK, Job

(* An idle handler relies on nothing.                                      *)
LEMMA IdleKeeps ==
    ASSUME NEW w \in Workers, Forgets(w)
    PROVE  (TodoOK(w) /\ FoundOK(w) /\ TransferOK(w) /\ SyncOK(w))'
<1>1. job'[w].pc = "idle"
  BY DEF Forgets, Idle
<1> QED
  BY <1>1 DEF TodoOK, FoundOK, TransferOK, SyncOK

LEMMA StartFinds ==
    ASSUME SerialInv, NEW w \in Workers, NEW e \in Requests, Start(w, e)
    PROVE  (TodoOK(w) /\ FoundOK(w) /\ TransferOK(w) /\ SyncOK(w))'
<1>1. PICK tasks \in TaskLists(e) :
         job'[w] = [Idle EXCEPT !.pc = "next", !.req = e, !.todo = tasks]
  BY SerialParts, StartMoves
<1>2. job'[w].pc = "next" /\ job'[w].req = e /\ job'[w].todo = tasks
  BY <1>1, StartFields
<1>3. e \in Request
  BY RequestsAreRequests
<1>4. TodoOK(w)'
  BY <1>1, <1>2 DEF TodoOK, Asked
<1>5. FoundOK(w)'
  BY <1>2 DEF FoundOK
<1>6. TransferOK(w)'
  <2> SUFFICES ASSUME SubscriptionRequired, e.type = "TRANSFER",
                      NEW i \in DOMAIN e.from
               PROVE  Retired(w, e.from[i])'
    BY <1>2 DEF TransferOK
  <2>1. tasks = TransferTasks(e)
    BY <1>1 DEF TaskLists
  <2>2. PICK k \in 1..Len(tasks) : tasks[k] = [op |-> "take", user |-> e.from[i]]
    BY <1>3, <2>1, TransferAsks
  <2> QED
    BY <1>2, <2>2 DEF Retired
<1>7. SyncOK(w)'
  <2> SUFFICES ASSUME SubscriptionRequired, e.via = "sync"
               PROVE  SyncOK(w)'
    BY <1>2 DEF SyncOK
  <2>1. /\ Len(tasks) = 2 /\ tasks[1].op = "plan"
        /\ tasks[2] = [op |-> "give", user |-> e.ids[1]]
    BY <1>1, SyncAsks
  <2> QED
    BY <1>2, <2>1 DEF SyncOK
<1> QED
  BY <1>4, <1>5, <1>6, <1>7

LEMMA TodoKeeps ==
    ASSUME NEW w \in Workers, TodoOK(w), job[w].pc # "idle",
           Pops(w) \/ \E pc \in PCs : GoesOn(w, pc)
    PROVE  TodoOK(w)'
<1>1. CASE Pops(w)
  <2>1. PICK s, e : s = job[w].todo /\ e = job[w].req
    OBVIOUS
  <2>2. /\ s \in Seq(Task) /\ s # <<>>
        /\ \A k \in 1..Len(s) : Asked(e, s[k])
        /\ job'[w].todo = Tail(s) /\ job'[w].req = e
    BY <1>1, <2>1 DEF Pops, TodoOK
  <2>3. \A k \in 1..Len(Tail(s)) : Asked(e, Tail(s)[k])
    BY <2>2, TodoTail
  <2> QED
    BY <2>2, <2>3 DEF TodoOK
<1>2. CASE \E pc \in PCs : GoesOn(w, pc)
  BY <1>2 DEF GoesOn, TodoOK
<1> QED
  BY <1>1, <1>2

(* A handler that finds nothing new.                                       *)
LEMMA FoundKeepsElsewhere ==
    ASSUME NEW w \in Workers, Pops(w)
    PROVE  FoundOK(w)'
BY DEF Pops, FoundOK

LEMMA FoundStays ==
    ASSUME SerialInv, NEW w \in Workers, FindToGive(w)
    PROVE  FoundOK(w)'
<1>1. PICK u : u = TaskUser(w)
  OBVIOUS
<1>2. /\ Inv /\ TypeOK /\ OneRowPerUser /\ GoesOn(w, "write")
      /\ Head(job[w].todo).op = "give" /\ UNCHANGED subs
  BY SerialParts, StepsGoOn DEF FindToGive, AtTask, tableVars
<1>3. TaskUser(w)' = u /\ RowsOf(u)' = RowsOf(u)
  BY <1>1, <1>2 DEF GoesOn, TaskUser, RowsOf
<1>4. job'[w].row = 0 => RowsOf(u) = {}
  <2>1. PICK r \in FindFirst(RowsOf(u)) : StepWithRow(w, "write", r)
    BY <1>1, <1>2, NewestOfOne DEF FindToGive, RowsToGive
  <2>2. r \in Nat
    BY <1>2, <2>1, LenProperties DEF FindFirst, RowsOf, TypeOK, TableTypeOK
  <2>3. job'[w].row = r
    BY <1>2, <2>1, <2>2, StepTypes DEF PCs
  <2> QED
    BY <1>2, <2>1, <2>3, LenProperties DEF FindFirst, RowsOf
<1>5. Head(job'[w].todo).op = "give" /\ job'[w].pc = "write"
  BY <1>2 DEF GoesOn
<1>6. RowsOf(TaskUser(w))' = RowsOf(u)
  BY <1>2, <1>3 DEF RowsOf
<1> QED
  BY <1>4, <1>5, <1>6 DEF FoundOK

LEMMA FoundActive ==
    ASSUME SerialInv, NEW w \in Workers, FindActive(w), GoesOn(w, "write"),
           job'[w].row \in ActiveRows(TaskUser(w)), UNCHANGED subs
    PROVE  FoundOK(w)'
<1>1. job'[w].row # 0 /\ subs'[job'[w].row].isActive
  BY DEF ActiveRows, RowsOf
<1>2. job'[w].pc = "write"
  BY DEF GoesOn
<1> QED
  BY <1>1, <1>2 DEF FoundOK

LEMMA BehindTheWrite ==
    ASSUME SerialInv, NEW w \in Workers, Give(w) \/ Link(w) \/ Pay(w) \/ End(w)
    PROVE  /\ FoundOK(w)' /\ job[w].pc \in {"write", "link", "pay"}
           /\ \E pc \in PCs : GoesOn(w, pc)
<1>1. Inv /\ FoundOK(w)
  BY SerialParts
<1>2. PICK pc \in {"link", "pay", "notify"} : GoesOn(w, pc)
  BY <1>1, StepsGoOn
<1>3. Head(job[w].todo).op \in {"give", "end"}
  BY <1>1 DEF FoundOK, Give, Link, Pay, End, WritingTask
<1>4. Head(job'[w].todo).op \in {"give", "end"} /\ job'[w].pc = pc
  BY <1>2, <1>3 DEF GoesOn
<1> QED
  BY <1>2, <1>4 DEF FoundOK, Give, Link, Pay, End, WritingTask, PCs

(* Who has been retired, or is still to be, stays so.                      *)
LEMMA TransferKeepsOnGoing ==
    ASSUME NEW w \in Workers, TransferOK(w), job[w].pc # "idle",
           NEW pc, GoesOn(w, pc),
           \A u \in Users : \/ ActiveRows(u)' = ActiveRows(u)
                            \/ job[w].req.type = "TRANSFER" =>
                                  TargetOf(job[w].req, u)
    PROVE  TransferOK(w)'
<1>1. PICK s, e : s = job[w].todo /\ e = job[w].req
  OBVIOUS
<1>2. job'[w].todo = s /\ job'[w].req = e
  BY <1>1 DEF GoesOn
<1> SUFFICES ASSUME SubscriptionRequired, e.type = "TRANSFER",
                    NEW i \in DOMAIN e.from, e.from[i] \in Users
             PROVE  Retired(w, e.from[i])'
  BY <1>2 DEF TransferOK
<1>3. PICK u \in Users : u = e.from[i]
  OBVIOUS
<1>4. Retired(w, u)
  BY <1>1, <1>3 DEF TransferOK
<1>5. Retired(w, u)'
  BY <1>1, <1>2, <1>4 DEF Retired
<1> QED
  BY <1>3, <1>5 DEF Retired, ActiveRows, RowsOf

(* A task is done: if it was to take premium from u, u has none.           *)
LEMMA TransferKeepsOnPop ==
    ASSUME NEW w \in Workers, TransferOK(w), job[w].pc # "idle", Pops(w),
           \A u \in Users : /\ Head(job[w].todo) = [op |-> "take", user |-> u] =>
                                  ActiveRows(u)' = {}
                            /\ ActiveRows(u) = {} => ActiveRows(u)' = {}
    PROVE  TransferOK(w)'
<1>1. PICK s, e : s = job[w].todo /\ e = job[w].req
  OBVIOUS
<1>2. /\ s \in Seq(Task) /\ s # <<>>
      /\ job'[w].todo = Tail(s) /\ job'[w].req = e
  BY <1>1 DEF Pops
<1> SUFFICES ASSUME SubscriptionRequired, e.type = "TRANSFER",
                    NEW i \in DOMAIN e.from, e.from[i] \in Users
             PROVE  Retired(w, e.from[i])'
  BY <1>2 DEF TransferOK
<1>3. PICK u \in Users : u = e.from[i]
  OBVIOUS
<1>4. PICK t : t = [op |-> "take", user |-> u]
  OBVIOUS
<1>5. \/ \E k \in 1..Len(s) : s[k] = t
      \/ ActiveRows(u) = {}
      \/ TargetOf(e, u)
  BY <1>1, <1>3, <1>4 DEF TransferOK, Retired
<1>6. \/ \E k \in 1..Len(Tail(s)) : Tail(s)[k] = t
      \/ ActiveRows(u)' = {}
      \/ TargetOf(e, u)
  <2>1. ASSUME NEW k \in 1..Len(s), s[k] = t, k # 1
        PROVE  \E j \in 1..Len(Tail(s)) : Tail(s)[j] = t
    <3>1. k - 1 \in 1..Len(Tail(s)) /\ Tail(s)[k - 1] = s[k]
      BY <1>2, <2>1, TodoTail
    <3> QED
      BY <2>1, <3>1
  <2>2. ASSUME s[1] = t
        PROVE  ActiveRows(u)' = {}
    BY <1>1, <1>2, <1>4, <2>2, TodoTail
  <2> QED
    BY <1>5, <2>1, <2>2
<1>7. Retired(w, u)'
  BY <1>2, <1>4, <1>6 DEF Retired
<1> QED
  BY <1>3, <1>7 DEF Retired, ActiveRows, RowsOf

LEMMA NoRowsStay ==
    ASSUME UNCHANGED subs
    PROVE  \A u : /\ RowsOf(u)' = RowsOf(u) /\ ActiveRows(u)' = ActiveRows(u)
                  /\ EntOf(u)' = EntOf(u)
BY DEF RowsOf, ActiveRows, EntOf

(* What a transfer gives, it gives to a target.                            *)
LEMMA GivesToTarget ==
    ASSUME SerialInv, NEW w \in Workers, Give(w), SubscriptionRequired,
           job[w].req.type = "TRANSFER"
    PROVE  TargetOf(job[w].req, TaskUser(w))
<1>1. /\ Inv /\ TodoOK(w) /\ job[w].pc = "write"
      /\ Head(job[w].todo).op = "give"
  BY SerialParts DEF Give, WritingTask
<1>2. PICK s, e : s = job[w].todo /\ e = job[w].req
  OBVIOUS
<1>3. e \in Requests /\ e \in Request /\ s \in Seq(Task) /\ s # <<>>
  BY <1>1, <1>2, Writing, RequestsAreRequests
<1>4. Asked(e, s[1]) /\ s[1] = Head(s) /\ s[1].op = "give"
  BY <1>1, <1>2, <1>3, TodoTail DEF TodoOK
<1>5. PICK i \in 1..Len(TransferTasks(e)) : TransferTasks(e)[i] = s[1]
  BY <1>2, <1>4 DEF Asked, TaskLists
<1>6. TargetOf(e, s[1].user)
  BY <1>3, <1>4, <1>5, TransferAsks
<1> QED
  BY <1>2, <1>4, <1>6 DEF TaskUser

LEMMA TransferKeeps ==
    ASSUME SerialInv, NEW w \in Workers,
           \/ Plan(w) \/ SkipStranger(w) \/ FindToGive(w) \/ Give(w) \/ Link(w)
           \/ Pay(w) \/ FindActive(w) \/ Take(w) \/ End(w) \/ Notify(w)
    PROVE  TransferOK(w)'
<1>1. /\ Inv /\ TypeOK /\ OneRowPerUser /\ TransferOK(w) /\ FoundOK(w)
  BY SerialParts
<1>2. job[w].pc # "idle"
  BY DEF Plan, SkipStranger, FindToGive, Give, Link, Pay, FindActive, Take,
         End, Notify, AtTask, WritingTask
<1>3. CASE FindToGive(w) \/ Link(w) \/ Pay(w)
  <2>1. UNCHANGED subs /\ \E pc : GoesOn(w, pc)
    BY <1>1, <1>3, StepsGoOn DEF FindToGive, Link, Pay, tableVars
  <2> QED
    BY <1>1, <1>2, <2>1, NoRowsStay, TransferKeepsOnGoing
<1>4. CASE FindActive(w)
  <2>1. UNCHANGED subs
    BY <1>1, <1>4, FindsActive
  <2>2. CASE GoesOn(w, "write")
    BY <1>1, <1>2, <2>1, <2>2, NoRowsStay, TransferKeepsOnGoing
  <2>3. CASE TaskDone(w) /\ Newest(ActiveRows(TaskUser(w))) = {}
    <3>1. Pops(w)
      BY <1>1, <1>4, <2>3, StepsPop
    <3>2. ActiveRows(TaskUser(w)) = {}
      BY <1>1, <2>3, NewestOfOne DEF ActiveRows
    <3>3. \A u \in Users : Head(job[w].todo) = [op |-> "take", user |-> u] =>
                              ActiveRows(u)' = {}
      BY <2>1, <3>2, NoRowsStay DEF TaskUser
    <3> QED
      BY <1>1, <1>2, <2>1, <3>1, <3>3, NoRowsStay, TransferKeepsOnPop
  <2> QED
    BY <1>1, <1>4, <2>2, <2>3, FindsActive
<1>5. CASE Plan(w) \/ SkipStranger(w) \/ Notify(w)
  <2>1. UNCHANGED subs /\ Pops(w)
    BY <1>1, <1>5, StepsPop DEF Plan, SkipStranger, Notify, tableVars
  <2>2. \/ Head(job[w].todo).op # "take"
        \/ Head(job[w].todo).user \notin Users
    BY <1>1, <1>5, StrangersAreNotUsers
       DEF Plan, SkipStranger, Notify, AtTask, TaskUser, FoundOK
  <2>3. \A u \in Users : Head(job[w].todo) # [op |-> "take", user |-> u]
    BY <2>2
  <2> QED
    BY <1>1, <1>2, <2>1, <2>3, NoRowsStay, TransferKeepsOnPop
<1>6. CASE Give(w)
  <2>1. GoesOn(w, "link") /\ OnlyRowsOf(TaskUser(w))
    BY <1>1, <1>6, StepsGoOn, GiveWrites
  <2>2. CASE SubscriptionRequired
    BY <1>1, <1>2, <1>6, <2>1, <2>2, GivesToTarget, TransferKeepsOnGoing
       DEF OnlyRowsOf
  <2> QED
    BY <2>2 DEF TransferOK
<1>7. CASE End(w)
  <2>1. \A u \in Users : ActiveRows(u)' = ActiveRows(u)
    BY <1>7, EndWrites DEF OnlyRowsOf
  <2> QED
    BY <1>1, <1>2, <1>7, <2>1, StepsGoOn, TransferKeepsOnGoing
<1>8. CASE Take(w)
  <2>1. PICK u : u = TaskUser(w)
    OBVIOUS
  <2>2. Pops(w) /\ OnlyRowsOf(u) /\ ActiveRows(u)' = {}
    BY <1>1, <1>8, <2>1, StepsPop, TakeWrites
  <2>3. \A v \in Users : ActiveRows(v) = {} => ActiveRows(v)' = {}
    BY <2>2 DEF OnlyRowsOf
  <2>4. \A v \in Users : Head(job[w].todo) = [op |-> "take", user |-> v] => v = u
    BY <2>1 DEF TaskUser
  <2> QED
    BY <1>1, <1>2, <2>2, <2>3, <2>4, TransferKeepsOnPop
<1> QED
  BY <1>3, <1>4, <1>5, <1>6, <1>7, <1>8

(* Where a sync call for user u stands.                                    *)
LEMMA SyncStands ==
    ASSUME SerialInv, NEW w \in Workers, job[w].pc # "idle",
           SubscriptionRequired, job[w].req.via = "sync",
           NEW u, u = job[w].req.ids[1],
           NEW s, s = job[w].todo,
           NEW gift, gift = [op |-> "give", user |-> u]
    PROVE  /\ u \in Users /\ s \in Seq(Task)
           /\ \/ /\ Len(s) = 2 /\ Head(s) = s[1] /\ s[1].op = "plan"
                 /\ s[2] = gift /\ job[w].pc = "next"
                 /\ Len(Tail(s)) = 1 /\ Tail(s)[1] = gift
              \/ /\ Len(s) = 1 /\ Head(s) = s[1] /\ s[1] = gift
                 /\ Head(s).op = "give" /\ TaskUser(w) = u
                 /\ Len(Tail(s)) = 0
                 /\ \/ job[w].pc \in {"next", "write"}
                    \/ job[w].pc = "link" /\ Given(w, u, job[w].row)
                    \/ /\ job[w].pc \in {"pay", "notify"}
                       /\ Given(w, u, job[w].row) /\ linked[u] = job[w].row
              \/ s = <<>> /\ job[w].pc = "next"
<1>1. /\ Inv /\ TypeOK /\ SyncOK(w) /\ job[w] \in Job /\ s \in Seq(Task)
  BY SerialParts
<1>2. job[w].req \in Requests
  BY <1>1 DEF Inv, JobOK, TypeOK
<1>3. u \in Users
  BY <1>2, SyncUser
<1>4. \/ /\ Len(s) = 2 /\ s[1].op = "plan" /\ s[2] = gift
         /\ job[w].pc = "next"
      \/ /\ Len(s) = 1 /\ s[1] = gift
         /\ \/ job[w].pc \in {"next", "write"}
            \/ job[w].pc = "link" /\ Given(w, u, job[w].row)
            \/ /\ job[w].pc \in {"pay", "notify"}
               /\ Given(w, u, job[w].row) /\ linked[u] = job[w].row
      \/ Len(s) = 0 /\ job[w].pc = "next"
  BY <1>1, Zenon DEF SyncOK
<1>5. CASE Len(s) = 0 /\ job[w].pc = "next"
  BY <1>1, <1>3, <1>5, EmptySeq
<1>6. CASE Len(s) = 2 /\ s[1].op = "plan" /\ s[2] = gift /\ job[w].pc = "next"
  <2>1. s # <<>>
    BY <1>6, EmptySeq
  <2>2. Len(Tail(s)) = 1 /\ Tail(s)[1] = s[2] /\ Head(s) = s[1]
    BY <1>1, <1>6, <2>1, TodoTail
  <2> QED
    BY <1>1, <1>3, <1>6, <2>2
<1>7. CASE Len(s) = 1 /\ s[1] = gift
  <2>1. s # <<>>
    BY <1>7, EmptySeq
  <2>2. Len(Tail(s)) = 0 /\ Head(s) = s[1]
    BY <1>1, <1>7, <2>1, TodoTail
  <2>3. Head(s).op = "give" /\ TaskUser(w) = u
    BY <1>7, <2>2 DEF TaskUser
  <2> QED
    BY <1>1, <1>3, <1>4, <1>7, <2>2, <2>3
<1> QED
  BY <1>4, <1>5, <1>6, <1>7

LEMMA SyncKeeps ==
    ASSUME SerialInv, NEW w \in Workers,
           \/ Plan(w) \/ SkipStranger(w) \/ FindToGive(w) \/ Give(w) \/ Link(w)
           \/ Pay(w) \/ FindActive(w) \/ Take(w) \/ End(w) \/ Notify(w)
    PROVE  SyncOK(w)'
<1>1. PICK s, e, u, gift, p, r :
         /\ s = job[w].todo /\ e = job[w].req /\ u = e.ids[1]
         /\ gift = [op |-> "give", user |-> u] /\ p = job[w].plan
         /\ r = job[w].row
  OBVIOUS
<1>2. /\ Inv /\ TypeOK /\ OneRowPerUser /\ FoundOK(w) /\ job[w] \in Job
  BY SerialParts
<1>3. job[w].pc # "idle"
  BY DEF Plan, SkipStranger, FindToGive, Give, Link, Pay, FindActive, Take,
         End, Notify, AtTask, WritingTask
<1>4. Pops(w) \/ \E pc : GoesOn(w, pc)
  BY <1>2, StepsPop, StepsGoOn, FindsActive
<1>5. job'[w].req = e
  BY <1>1, <1>4 DEF Pops, GoesOn
<1> SUFFICES ASSUME SubscriptionRequired, e.via = "sync"
             PROVE  SyncOK(w)'
  BY <1>5 DEF SyncOK
<1>6. /\ u \in Users /\ s \in Seq(Task)
      /\ \/ /\ Len(s) = 2 /\ Head(s) = s[1] /\ s[1].op = "plan"
            /\ s[2] = gift /\ job[w].pc = "next"
            /\ Len(Tail(s)) = 1 /\ Tail(s)[1] = gift
         \/ /\ Len(s) = 1 /\ Head(s) = s[1] /\ s[1] = gift
            /\ Head(s).op = "give" /\ TaskUser(w) = u
            /\ Len(Tail(s)) = 0
            /\ \/ job[w].pc \in {"next", "write"}
               \/ job[w].pc = "link" /\ Given(w, u, job[w].row)
               \/ /\ job[w].pc \in {"pay", "notify"}
                  /\ Given(w, u, job[w].row) /\ linked[u] = job[w].row
         \/ s = <<>> /\ job[w].pc = "next"
  BY <1>1, <1>3, SyncStands
<1>7. CASE Plan(w)
  <2>1. /\ job'[w].pc = "next" /\ job'[w].todo = Tail(s)
        /\ s # <<>> /\ Head(s).op = "plan"
    BY <1>1, <1>2, <1>7, PlanMoves
  <2>2. Len(Tail(s)) = 1 /\ Tail(s)[1] = gift
    BY <1>6, <2>1
  <2> QED
    BY <1>1, <1>5, <2>1, <2>2 DEF SyncOK
<1>8. CASE FindToGive(w)
  <2>1. GoesOn(w, "write") /\ Head(s).op = "give" /\ s # <<>>
    BY <1>1, <1>2, <1>8, StepsGoOn DEF FindToGive, AtTask
  <2>2. Len(s) = 1 /\ s[1] = gift
    BY <1>6, <2>1
  <2>3. job'[w].pc = "write" /\ job'[w].todo = s
    BY <1>1, <2>1 DEF GoesOn
  <2> QED
    BY <1>1, <1>5, <2>2, <2>3 DEF SyncOK
<1>9. CASE Give(w)
  <2>1. GoesOn(w, "link") /\ job[w].pc = "write"
    BY <1>2, <1>9, StepsGoOn DEF Give, WritingTask
  <2>2. Len(s) = 1 /\ s[1] = gift /\ TaskUser(w) = u
    BY <1>6, <2>1
  <2>3. job'[w].pc = "link" /\ job'[w].todo = s /\ job'[w].plan = p
    BY <1>1, <2>1 DEF GoesOn
  <2>4. PICK r2, row : /\ r2 = job'[w].row /\ subs'[r2] = row
                       /\ row.isActive = TRUE /\ row.planId = p
    BY <1>1, <1>9, GiveWrites
  <2>5. OneRowPerUser' /\ r2 \in RowsOf(u)'
    <3>1. r2 \in RowsOf(TaskUser(w))' /\ OneRowPerUser'
      BY <1>9, <2>4, GiveWrites
    <3>2. TaskUser(w)' = u
      BY <1>1, <2>2, <2>3 DEF TaskUser
    <3> QED
      BY <3>1, <3>2 DEF RowsOf
  <2>6. r2 \in ActiveRows(u)'
    BY <2>4, <2>5 DEF ActiveRows
  <2>7. Given(w, u, job[w].row)'
    BY <2>3, <2>4, <2>6 DEF Given, ActiveRows, RowsOf
  <2> QED
    BY <1>1, <1>5, <2>2, <2>3, <2>7 DEF SyncOK, Given, ActiveRows, RowsOf
<1>10. CASE Link(w) \/ Pay(w)
  <2>1. PICK pc : /\ pc = IF job[w].pc = "link" THEN "pay" ELSE "notify"
                  /\ GoesOn(w, pc) /\ job'[w].row = r /\ pc \in {"pay", "notify"}
    BY <1>1, <1>2, <1>10, StepsGoOn DEF Link, Pay
  <2>2. /\ Len(s) = 1 /\ s[1] = gift /\ TaskUser(w) = u
        /\ Given(w, u, r) /\ (job[w].pc = "pay" => linked[u] = r)
    BY <1>1, <1>6, <1>10 DEF Link, Pay
  <2>3. job'[w].pc = pc /\ job'[w].todo = s /\ job'[w].plan = p
    BY <1>1, <2>1 DEF GoesOn
  <2>4. UNCHANGED subs
    BY <1>10 DEF Link, Pay
  <2>5. linked'[u] = r
    <3>1. linked \in [Users -> Nat]
      BY <1>2 DEF TypeOK, TableTypeOK
    <3> QED
      BY <1>1, <1>6, <1>10, <2>2, <3>1 DEF Link, Pay
  <2>6. Given(w, u, job[w].row)'
    BY <1>1, <2>1, <2>2, <2>3, <2>4 DEF Given, ActiveRows, RowsOf
  <2> QED
    BY <1>1, <1>5, <2>1, <2>2, <2>3, <2>5, <2>6
       DEF SyncOK, Given, ActiveRows, RowsOf
<1>11. CASE Notify(w)
  <2>1. job[w].pc = "notify" /\ TaskDone(w) /\ s # <<>>
        /\ UNCHANGED <<subs, linked>>
    BY <1>1, <1>2, <1>11, Writing DEF Notify
  <2>2. Len(Tail(s)) = 0 /\ Given(w, u, r) /\ linked[u] = r
    BY <1>1, <1>6, <2>1
  <2>3. job'[w].pc = "next" /\ job'[w].todo = Tail(s) /\ job'[w].plan = p
    BY <1>1, <1>2, <2>1, TaskDoneTypes
  <2>4. /\ r \in ActiveRows(u)' /\ subs'[r].planId = job'[w].plan
        /\ linked'[u] = r
    BY <1>1, <2>1, <2>2, <2>3 DEF Given, ActiveRows, RowsOf
  <2> QED
    BY <1>1, <1>5, <2>2, <2>3, <2>4 DEF SyncOK, Given, ActiveRows, RowsOf
<1>12. CASE SkipStranger(w) \/ FindActive(w) \/ Take(w) \/ End(w)
  <2>1. /\ job[w].pc \in {"next", "write"} /\ s # <<>>
        /\ Head(s).op \in {"give", "take", "end"}
        /\ Head(s).op = "give" => TaskUser(w) \notin Users
    BY <1>1, <1>2, <1>12, Writing, StrangersAreNotUsers
       DEF SkipStranger, FindActive, Take, End, AtTask, WritingTask
  <2>2. FALSE
    BY <1>6, <2>1
  <2> QED
    BY <2>2
<1> QED
  BY <1>7, <1>8, <1>9, <1>10, <1>11, <1>12

LEMMA TodoFoundKeep ==
    ASSUME SerialInv, NEW w \in Workers,
           \/ Plan(w) \/ SkipStranger(w) \/ FindToGive(w) \/ Give(w) \/ Link(w)
           \/ Pay(w) \/ FindActive(w) \/ Take(w) \/ End(w) \/ Notify(w)
    PROVE  TodoOK(w)' /\ FoundOK(w)'
<1>1. Inv /\ TypeOK /\ TodoOK(w)
  BY SerialParts
<1>2. CASE Give(w) \/ Link(w) \/ Pay(w) \/ End(w)
  <2>1. job[w].pc # "idle"
    BY <1>2, BehindTheWrite
  <2> QED
    BY <1>1, <1>2, <2>1, BehindTheWrite, TodoKeeps
<1>3. CASE FindToGive(w)
  <2>1. GoesOn(w, "write") /\ job[w].pc # "idle"
    BY <1>1, <1>3, StepsGoOn DEF FindToGive, AtTask
  <2> QED
    BY <1>1, <1>3, <2>1, TodoKeeps, FoundStays DEF PCs
<1>4. CASE FindActive(w)
  <2>1. job[w].pc # "idle" /\ UNCHANGED subs
    BY <1>1, <1>4, FindsActive
  <2>2. CASE TaskDone(w)
    BY <1>1, <1>4, <2>1, <2>2, StepsPop, TodoKeeps, FoundKeepsElsewhere
  <2>3. CASE GoesOn(w, "write") /\ job'[w].row \in ActiveRows(TaskUser(w))
    BY <1>1, <1>4, <2>1, <2>3, TodoKeeps, FoundActive DEF PCs
  <2> QED
    BY <1>1, <1>4, <2>2, <2>3, FindsActive
<1>5. CASE Plan(w) \/ SkipStranger(w) \/ Take(w) \/ Notify(w)
  <2>1. job[w].pc # "idle"
    BY <1>5 DEF Plan, SkipStranger, Take, Notify, AtTask, WritingTask
  <2> QED
    BY <1>1, <1>5, <2>1, StepsPop, TodoKeeps, FoundKeepsElsewhere
<1> QED
  BY <1>2, <1>3, <1>4, <1>5

LEMMA StaysSingle ==
    ASSUME SerialInv, NEW w \in Workers,
           UNCHANGED subs \/ Give(w) \/ Take(w) \/ End(w)
    PROVE  OneRowPerUser'
<1>1. OneRowPerUser
  BY DEF SerialInv
<1>2. CASE UNCHANGED subs
  BY <1>1, <1>2 DEF OneRowPerUser
<1> QED
  BY <1>2, GiveWrites, TakeWrites, EndWrites

LEMMA SerialInit == Init => SerialInv
<1> SUFFICES ASSUME Init PROVE SerialInv
  OBVIOUS
<1>1. Inv
  BY InvInit
<1>2. OneRowPerUser
  <2>1. Len(subs) = 0
    BY DEF Init, TableInit
  <2> QED
    BY <2>1 DEF OneRowPerUser
<1>3. \A w \in Workers : job[w].pc = "idle"
  BY DEF Init, RcInit, Idle
<1>4. \A w \in Workers : TodoOK(w) /\ FoundOK(w) /\ TransferOK(w) /\ SyncOK(w)
  BY <1>3 DEF TodoOK, FoundOK, TransferOK, SyncOK
<1> QED
  BY <1>1, <1>2, <1>4 DEF SerialInv

LEMMA SerialNext ==
    ASSUME OneAtATime
    PROVE  SerialInv /\ [Next]_vars => SerialInv'
<1> SUFFICES ASSUME SerialInv, [Next]_vars PROVE SerialInv'
  OBVIOUS
<1>1. Inv /\ Inv'
  BY InvNext DEF SerialInv
<1>2. ASSUME NEW w \in Workers, OneRowPerUser',
             (TodoOK(w) /\ FoundOK(w) /\ TransferOK(w) /\ SyncOK(w))'
      PROVE  SerialInv'
  <2>1. \A v \in Workers : v = w
    BY DEF OneAtATime
  <2>2. \A v \in Workers :
           (TodoOK(v) /\ FoundOK(v) /\ TransferOK(v) /\ SyncOK(v))'
    BY <1>2, <2>1
  <2> QED
    BY <1>1, <1>2, <2>2 DEF SerialInv
<1>3. CASE UNCHANGED vars
  BY <1>1, <1>3
     DEF vars, rcVars, tableVars, SerialInv, OneRowPerUser, TodoOK, FoundOK,
         TransferOK, Retired, SyncOK, Given, ActiveRows, RowsOf, TaskUser
<1>4. ASSUME NEW w \in Workers, NEW e \in Requests,
             Receive(w, e) \/ Duplicate(w, e)
      PROVE  SerialInv'
  <2>1. Start(w, e)
    BY <1>4 DEF Receive, Duplicate
  <2>2. UNCHANGED subs
    BY <2>1 DEF Start, tableVars
  <2> QED
    BY <1>2, <2>1, <2>2, StaysSingle, StartFinds
<1>5. ASSUME NEW w \in Workers, Answer(w) \/ NoPlanToGive(w) \/ Fail(w)
      PROVE  SerialInv'
  <2>1. Forgets(w) /\ UNCHANGED subs
    BY <1>1, <1>5
       DEF Answer, NoPlanToGive, Fail, Forgets, Inv, TypeOK, tableVars
  <2> QED
    BY <1>2, <2>1, StaysSingle, IdleKeeps
<1>6. ASSUME NEW w \in Workers,
             \/ Plan(w) \/ SkipStranger(w) \/ FindToGive(w) \/ Give(w) \/ Link(w)
             \/ Pay(w) \/ FindActive(w) \/ Take(w) \/ End(w) \/ Notify(w)
      PROVE  SerialInv'
  <2>1. RcStep(w)
    BY <1>6 DEF RcStep
  <2>2. OneRowPerUser'
    BY <2>1, WhoWrites, StaysSingle
  <2> QED
    BY <1>2, <1>6, <2>2, TodoFoundKeep, TransferKeeps, SyncKeeps
<1> QED
  BY <1>3, <1>4, <1>5, <1>6 DEF Next, RcNext, RcStep

LEMMA SerialInvariance ==
    ASSUME OneAtATime
    PROVE  Spec => []SerialInv
<1>1. SerialInv /\ [Next]_vars => SerialInv'
  BY SerialNext
<1> QED
  BY <1>1, SerialInit, PTL DEF Spec

(* activateSubscription never leaves a user with two rows: the first look  *)
(* finds the row there is.                                                 *)
THEOREM RowsStaySingle ==
    ASSUME OneAtATime
    PROVE  Spec => []OneRowPerUser
<1>1. SerialInv => OneRowPerUser
  BY DEF SerialInv
<1> QED
  BY <1>1, SerialInvariance, PTL

(* Once handleTransfer is past its sources, none of them has premium left  *)
(* unless they are also a target: one purchase serves one account.         *)
THEOREM TransfersRetireTheSource ==
    ASSUME OneAtATime
    PROVE  Spec => []TransferSourceRetired
<1>1. SerialInv => TransferSourceRetired
  <2> SUFFICES ASSUME SerialInv, NEW w \in Workers,
                      job[w].pc # "idle", SubscriptionRequired,
                      job[w].req.type = "TRANSFER",
                      \A i \in DOMAIN job[w].todo : job[w].todo[i].op # "take",
                      NEW i \in DOMAIN job[w].req.from,
                      job[w].req.from[i] \in Users
               PROVE  \/ ActiveRows(job[w].req.from[i]) = {}
                      \/ TargetOf(job[w].req, job[w].req.from[i])
    BY DEF TransferSourceRetired, TargetOf
  <2>1. Retired(w, job[w].req.from[i])
    BY SerialParts DEF TransferOK
  <2>2. DOMAIN job[w].todo = 1..Len(job[w].todo)
    BY SerialParts, LenProperties
  <2> QED
    BY <2>1, <2>2 DEF Retired
<1> QED
  BY <1>1, SerialInvariance, PTL

(* When syncFromClient answers premium: true, the user has an active row   *)
(* on the plan that was found, and User.subscriptionId names it.           *)
THEOREM SyncTellsTheTruth ==
    ASSUME OneAtATime
    PROVE  Spec => []SyncAnswersTheTruth
<1>1. SerialInv => SyncAnswersTheTruth
  <2> SUFFICES ASSUME SerialInv, NEW w \in Workers, job[w].pc = "next",
                      job[w].todo = <<>>, SubscriptionRequired,
                      job[w].req.via = "sync"
               PROVE  \E u \in ResolvedUsers(job[w].req) : \E r \in ActiveRows(u) :
                         subs[r].planId = job[w].plan /\ linked[u] = r
    BY DEF SyncAnswersTheTruth
  <2>1. job[w].req \in Requests /\ SyncOK(w)
    BY SerialParts DEF Inv, JobOK, TypeOK
  <2>2. ResolvedUsers(job[w].req) = {job[w].req.ids[1]}
    BY <2>1, SyncUser
  <2>3. Len(job[w].todo) = 0
    OBVIOUS
  <2>4. \E r \in ActiveRows(job[w].req.ids[1]) :
           Given(w, job[w].req.ids[1], r) /\ linked[job[w].req.ids[1]] = r
    BY <2>1, <2>3 DEF SyncOK
  <2> QED
    BY <2>2, <2>4 DEF Given
<1> QED
  BY <1>1, SerialInvariance, PTL

---------------------------------------------------------------------------
(* The component implements StoreEntitlement                               *)

OrdersSent ==
    {t \in UNION {UNION {OrdersIn(todo) : todo \in TaskLists(e)} :
                     e \in delivered} : t.user \in Users}

Ents == [u \in Users |-> EntOf(u)]

LEMMA OrdersAreOrders ==
    ASSUME NEW e \in Requests, NEW tasks \in TaskLists(e), NEW t \in OrdersIn(tasks),
           t.user \in Users
    PROVE  t \in Promise!Order
<1>1. tasks \in Seq(Task)
  BY RequestsAreRequests, TaskListsTypes
<1>2. PICK i \in DOMAIN tasks : t = tasks[i] /\ tasks[i].op # "plan"
  BY DEF OrdersIn
<1>3. t \in Task /\ t.op # "plan"
  BY <1>1, <1>2, LenProperties, ElementOfSeq
<1>4. t \in [op : {"give", "take", "end"}, user : Ids]
  BY <1>3 DEF Task
<1> QED
  BY <1>4 DEF Promise!Order

LEMMA OrdersGrow ==
    ASSUME delivered \subseteq delivered', delivered' \subseteq Requests
    PROVE  OrdersSent' \in SUBSET Promise!Order /\ OrdersSent \subseteq OrdersSent'
<1>1. OrdersSent \subseteq OrdersSent'
  BY DEF OrdersSent
<1>2. ASSUME NEW t \in OrdersSent' PROVE t \in Promise!Order
  <2>1. PICK e \in delivered' : \E todo \in TaskLists(e) : t \in OrdersIn(todo)
    BY <1>2 DEF OrdersSent
  <2>2. t.user \in Users
    BY <1>2 DEF OrdersSent
  <2> QED
    BY <2>1, <2>2, OrdersAreOrders
<1> QED
  BY <1>1, <1>2

(* What a handler writes was ordered.                                      *)
LEMMA HeadIsOrdered ==
    ASSUME SerialInv, NEW w \in Workers, job[w].pc = "write",
           NEW u, u = TaskUser(w), NEW op, op = Head(job[w].todo).op
    PROVE  [op |-> op, user |-> u] \in OrdersSent
<1>1. /\ Inv /\ TodoOK(w) /\ job[w].todo # <<>> /\ job[w].todo \in Seq(Task)
      /\ op \in UserOps /\ u \in Users /\ job[w].req \in delivered
  BY SerialParts, Writing DEF Inv, JobOK
<1>2. PICK s, e : s = job[w].todo /\ e = job[w].req
  OBVIOUS
<1>3. Head(s) = s[1] /\ 1 \in 1..Len(s) /\ s[1] \in Task
  BY <1>1, <1>2, TodoTail, ElementOfSeq
<1>4. s[1] = [op |-> op, user |-> u]
  BY <1>1, <1>2, <1>3 DEF Task, UserOps, TaskUser
<1>5. PICK tasks \in TaskLists(e) : \E i \in 1..Len(tasks) : tasks[i] = s[1]
  BY <1>1, <1>2, <1>3 DEF TodoOK, Asked
<1>6. PICK i \in 1..Len(tasks) : tasks[i] = s[1]
  BY <1>5
<1>7. DOMAIN tasks = 1..Len(tasks)
  <2>1. e \in Request
    BY <1>1, <1>2, RequestsAreRequests DEF Inv, TypeOK
  <2> QED
    BY <2>1, TaskListsTypes, LenProperties
<1>8. s[1] \in OrdersIn(tasks)
  BY <1>1, <1>4, <1>6, <1>7 DEF OrdersIn, UserOps
<1>9. s[1].user \in Users
  BY <1>1, <1>4
<1> QED
  BY <1>1, <1>2, <1>4, <1>5, <1>8, <1>9 DEF OrdersSent

LEMMA OneEntMoves ==
    ASSUME NEW u \in Users, OnlyRowsOf(u), NEW x, EntOf(u)' = x
    PROVE  Ents' = [Ents EXCEPT ![u] = x]
<1>1. \A v \in Users : EntOf(v)' = IF v = u THEN x ELSE EntOf(v)
  BY DEF OnlyRowsOf
<1> QED
  BY <1>1 DEF Ents

LEMMA StepsImplement ==
    ASSUME SerialInv, NEW w \in Workers, Give(w) \/ Take(w) \/ End(w)
    PROVE  Promise!Next
<1>1. PICK u, op : u = TaskUser(w) /\ op = Head(job[w].todo).op
  OBVIOUS
<1>2. job[w].pc = "write" /\ UNCHANGED delivered /\ u \in Users
  BY <1>1, GiveWrites, TakeWrites, EndWrites DEF Give, Take, End, WritingTask
<1>3. [op |-> op, user |-> u] \in OrdersSent /\ OrdersSent' = OrdersSent
  BY <1>1, <1>2, HeadIsOrdered DEF OrdersSent
<1>4. Ents[u] = EntOf(u)
  BY <1>2 DEF Ents
<1>5. CASE Give(w)
  <2>1. op = "give"
    BY <1>1, <1>5 DEF Give, WritingTask
  <2>2. PICK r, row : /\ r = job'[w].row /\ subs'[r] = row
                      /\ row.isActive = TRUE /\ row.cancelAtPeriodEnd = FALSE
    BY <1>5, GiveWrites
  <2>3. OneRowPerUser' /\ OnlyRowsOf(u) /\ r \in RowsOf(TaskUser(w))'
    BY <1>1, <1>5, <2>2, GiveWrites
  <2>4. TaskUser(w)' = u
    BY <1>1, <1>5, SerialParts, StepsGoOn DEF GoesOn, TaskUser
  <2>5. r \in RowsOf(u)'
    BY <2>3, <2>4 DEF RowsOf
  <2>6. EntOf(u)' = "on"
    BY <2>2, <2>3, <2>5, OnlyRowThen
  <2>7. Ents' = [Ents EXCEPT ![u] = "on"]
    BY <1>2, <2>3, <2>6, OneEntMoves
  <2>8. Promise!Give(u)
    BY <1>3, <2>1, <2>7 DEF Promise!Give, Promise!Ordered, Ents, OrdersSent
  <2> QED
    BY <1>2, <2>8 DEF Promise!Next
<1>6. CASE Take(w)
  <2>1. op = "take"
    BY <1>1, <1>6 DEF Take, WritingTask
  <2>2. OnlyRowsOf(u) /\ EntOf(u) \in {"on", "ending"} /\ EntOf(u)' = "off"
    BY <1>1, <1>6, TakeWrites
  <2>3. Ents' = [Ents EXCEPT ![u] = "off"]
    BY <1>2, <2>2, OneEntMoves
  <2>4. Promise!Take(u)
    BY <1>3, <1>4, <2>1, <2>2, <2>3
       DEF Promise!Take, Promise!Ordered, Ents, OrdersSent
  <2> QED
    BY <1>2, <2>4 DEF Promise!Next
<1>7. CASE End(w)
  <2>1. op = "end"
    BY <1>1, <1>7 DEF End, WritingTask
  <2>2. OnlyRowsOf(u) /\ EntOf(u) \in {"on", "ending"} /\ EntOf(u)' = "ending"
    BY <1>1, <1>7, EndWrites
  <2>3. Ents' = [Ents EXCEPT ![u] = "ending"]
    BY <1>2, <2>2, OneEntMoves
  <2>4. Promise!End(u)
    BY <1>3, <1>4, <2>1, <2>2, <2>3
       DEF Promise!End, Promise!Ordered, Ents, OrdersSent
  <2> QED
    BY <1>2, <2>4 DEF Promise!Next
<1> QED
  BY <1>5, <1>6, <1>7

(* A user's premium moves only as the store's orders for that user allow:  *)
(* every step of a handler is a step StoreEntitlement allows, or none.     *)
THEOREM EntitlementIsImplemented ==
    ASSUME OneAtATime
    PROVE  Spec => ImplementsEntitlement
<1>1. Init => Promise!Init
  <2> SUFFICES ASSUME Init PROVE Promise!Init
    OBVIOUS
  <2>1. OrdersSent = {}
    BY DEF Init, RcInit, OrdersSent
  <2>2. \A u \in Users : EntOf(u) = "none"
    <3>1. Len(subs) = 0
      BY DEF Init, TableInit
    <3> QED
      BY <3>1 DEF EntOf, RowsOf
  <2> QED
    BY <2>1, <2>2 DEF Promise!Init, OrdersSent
<1>2. SerialInv /\ [Next]_vars => [Promise!Next]_(Promise!vars)
  <2> SUFFICES ASSUME SerialInv, [Next]_vars
               PROVE  Promise!Next \/ UNCHANGED Promise!vars
    OBVIOUS
  <2>1. UNCHANGED <<subs, delivered>> => UNCHANGED Promise!vars
    BY NoRowsStay DEF Promise!vars
  <2>2. CASE UNCHANGED vars
    BY <2>1, <2>2 DEF vars, rcVars, tableVars
  <2>3. ASSUME NEW w \in Workers, NEW e \in Requests,
               Receive(w, e) \/ Duplicate(w, e)
        PROVE  Promise!Next
    <3>1. UNCHANGED subs /\ delivered' = delivered \cup {e}
          /\ delivered \subseteq Requests
      BY <2>3 DEF Receive, Duplicate, Start, tableVars, SerialInv, Inv, TypeOK
    <3>2. Ents' = Ents
      BY <3>1, NoRowsStay DEF Ents
    <3>3. OrdersSent' \in SUBSET Promise!Order /\ OrdersSent \subseteq OrdersSent'
      BY <3>1, OrdersGrow
    <3>4. Promise!Arrive
      BY <3>2, <3>3 DEF Promise!Arrive, Ents, OrdersSent
    <3> QED
      BY <3>4 DEF Promise!Next
  <2>4. ASSUME NEW w \in Workers, RcStep(w) \/ Fail(w)
        PROVE  Promise!Next \/ UNCHANGED Promise!vars
    <3>1. CASE UNCHANGED subs
      <4>1. UNCHANGED delivered
        BY <2>4 DEF RcStep, Fail, Answer, Plan, NoPlanToGive, SkipStranger,
                    FindToGive, Give, Link, Pay, FindActive, Take, End, Notify
      <4> QED
        BY <2>1, <3>1, <4>1
    <3>2. CASE Give(w) \/ Take(w) \/ End(w)
      BY <3>2, StepsImplement
    <3> QED
      BY <2>4, <3>1, <3>2, WhoWrites
  <2> QED
    BY <2>2, <2>3, <2>4 DEF Next, RcNext
<1> QED
  BY <1>1, <1>2, SerialInvariance, PTL DEF Spec, Promise!Spec, ImplementsEntitlement
=============================================================================
