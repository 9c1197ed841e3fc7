-------------------------- MODULE ModerationProofs --------------------------
(***************************************************************************)
(* Safety of Moderation for any number of users, shouts, reports and       *)
(* judgements in flight, wherever they fail.                               *)
(*                                                                         *)
(* HiddenBeforeClosed and NoticesFollowActs speak of the next call of a    *)
(* judgement; the invariant behind them speaks of the whole list that is   *)
(* left: whatever must come later stands behind the takedown, and behind   *)
(* the write of the status, as long as these are still to be done.  It     *)
(* holds because a list is built in that order and only ever loses its     *)
(* head, and because a shout that is hidden stays hidden.                  *)
(***************************************************************************)
EXTENDS Moderation, SequenceTheorems, TLAPS

Announcements == {"tell", "thank"}
Late == {"close"} \cup Announcements

(* Every step of S in the list stands behind the given one.                *)
Needs(todo, S, step) ==
    \A i \in 1..Len(todo) :
        todo[i] \in S => \E k \in 1..(i - 1) : todo[k] = step

Hidden(s) == s \notin Posted \/ shouts[s].deleted_at

(* The user is banned, or was until another judgement wrote over the ban.  *)
Covered(u) == status[u] = "BANNED" \/ u \in spared

(* A list names only the calls this judgement can make.                    *)
Addressed(todo, kind, user, reporter, st) ==
    \A i \in 1..Len(todo) :
        /\ todo[i] = "takedown" => kind = "BAN"
        /\ todo[i] = "close" => st \in ReportStatus
        /\ todo[i] = "tell" => kind \in DOMAIN Notices
        /\ todo[i] = "thank" =>
              kind \in DOMAIN Thanks /\ reporter \in Users \ {user}

TaskOK(h) ==
    task[h] # None =>
        /\ task[h].todo # <<>>
        /\ task[h].shout \in 0..Len(shouts)
        /\ \/ task[h].shout = 0
           \/ Hidden(task[h].shout)
           \/ Needs(task[h].todo, Late, "takedown")
        /\ \/ <<task[h].user, task[h].kind>> \in done
           \/ Needs(task[h].todo, Announcements, "act")
        /\ \/ Covered(task[h].user)
           \/ Needs(task[h].todo, {"takedown"}, "act")
        /\ Addressed(task[h].todo, task[h].kind,
                     task[h].user, task[h].reporter, task[h].status)

IInv ==
    /\ TypeOK
    /\ ReportsHaveSubjects
    /\ NoticesFollowActs
    /\ \A h \in Handlers : TaskOK(h)

---------------------------------------------------------------------------
(* Lists of calls *)

LEMMA TailTypes ==
    ASSUME NEW s \in Seq(Steps), s # <<>>
    PROVE  /\ Tail(s) \in Seq(Steps)
           /\ Len(s) \in Nat /\ Len(s) > 0
           /\ Len(Tail(s)) = Len(s) - 1
           /\ \A i \in 1..Len(Tail(s)) : Tail(s)[i] = s[i + 1]
           /\ Head(s) = s[1]
BY HeadTailProperties, LenProperties, EmptySeq

(* Once a call that is needed by nothing behind it is made, the rest still *)
(* stands in order.                                                        *)
LEMMA NeedsTail ==
    ASSUME NEW s \in Seq(Steps), s # <<>>, NEW S, NEW step,
           Needs(s, S, step), Head(s) # step
    PROVE  Needs(Tail(s), S, step)
<1>1. ASSUME NEW i \in 1..Len(Tail(s)), Tail(s)[i] \in S
      PROVE  \E k \in 1..(i - 1) : Tail(s)[k] = step
  <2>1. PICK k \in 1..i : s[k] = step
    BY <1>1, TailTypes DEF Needs
  <2>2. k # 1
    BY <2>1, TailTypes
  <2>3. k - 1 \in 1..(i - 1) /\ Tail(s)[k - 1] = s[k]
    BY <1>1, <2>1, <2>2, TailTypes
  <2> QED
    BY <2>1, <2>3
<1> QED
  BY <1>1 DEF Needs

(* What has something in front of it is not next.                          *)
LEMMA NeedyIsNotHead ==
    ASSUME NEW s \in Seq(Steps), s # <<>>, NEW S, NEW step, Needs(s, S, step)
    PROVE  Head(s) \notin S
BY TailTypes DEF Needs

LEMMA StepAppended ==
    ASSUME NEW s \in Seq(Steps), NEW step \in Steps
    PROVE  /\ Append(s, step) \in Seq(Steps)
           /\ Len(Append(s, step)) = Len(s) + 1
           /\ \A i \in 1..Len(s) : Append(s, step)[i] = s[i]
           /\ Append(s, step)[Len(s) + 1] = step
BY AppendProperties

LEMMA AddressedTail ==
    ASSUME NEW s \in Seq(Steps), s # <<>>, NEW kind, NEW user, NEW reporter,
           NEW st, Addressed(s, kind, user, reporter, st)
    PROVE  Addressed(Tail(s), kind, user, reporter, st)
BY TailTypes DEF Addressed

---------------------------------------------------------------------------
(* The list a judgement starts with *)

(* What every list built by Todo looks like, whole or as far as it is      *)
(* built.                                                                  *)
Shape(s, o, k) ==
    /\ s \in Seq(Steps)
    /\ Len(s) >= 2 /\ s[1] = "check" /\ s[2] = "act"
    /\ k.shout # 0 => Len(s) >= 3 /\ s[3] = "takedown"
    /\ Addressed(s, o.kind, k.user, k.reporter, o.status)

LEMMA DueKeepsShape ==
    ASSUME NEW s, NEW o, NEW k, Shape(s, o, k), NEW wanted \in BOOLEAN,
           NEW step \in Late,
           /\ wanted /\ step = "close" => o.status \in ReportStatus
           /\ wanted /\ step = "tell" => o.kind \in DOMAIN Notices
           /\ wanted /\ step = "thank" =>
                 o.kind \in DOMAIN Thanks /\ k.reporter \in Users \ {k.user}
    PROVE  Shape(s \o Due(step, wanted), o, k)
<1>1. CASE ~wanted
  BY <1>1, ConcatEmptySeq DEF Due, Shape
<1>2. CASE wanted
  <2>1. s \in Seq(Steps) /\ step \in Steps /\ Due(step, wanted) = <<step>>
    BY <1>2 DEF Shape, Due, Late, Announcements, Steps
  <2>2. s \o <<step>> = Append(s, step)
    BY <2>1, AppendIsConcat
  <2>3. /\ Append(s, step) \in Seq(Steps)
        /\ Len(s) \in Nat
        /\ Len(Append(s, step)) = Len(s) + 1
        /\ \A i \in 1..Len(s) : Append(s, step)[i] = s[i]
        /\ Append(s, step)[Len(s) + 1] = step
    BY <2>1, AppendProperties, LenProperties
  <2>4. Addressed(Append(s, step), o.kind, k.user, k.reporter, o.status)
    <3>1. step # "takedown"
      BY DEF Late, Announcements
    <3>2. Addressed(s, o.kind, k.user, k.reporter, o.status)
      BY DEF Shape
    <3> QED
      BY <1>2, <2>3, <3>1, <3>2 DEF Addressed
  <2> DEFINE r == Append(s, step)
  <2>5. s \o Due(step, wanted) = r
    BY <2>1, <2>2
  <2>6. Shape(r, o, k)
    <3> HIDE DEF r
    <3> QED
      BY <2>3, <2>4 DEF Shape, r
  <2> QED
    BY <2>5, <2>6
<1> QED
  BY <1>1, <1>2

LEMMA TodoShape ==
    ASSUME NEW o \in Order, NEW k,
           o.kind \in {"WARN", "BAN"} => k.reporter # k.user,
           k.reporter \in Users \cup {None},
           k.shout # 0 => o.kind = "BAN"
    PROVE  Shape(Todo(o, k), o, k)
<1> DEFINE a == <<"check", "act">> \o Due("takedown", k.shout # 0)
           b == a \o Closing(o, k)
           n == o.kind \in DOMAIN Notices
           c == b \o Due("tell", n)
           t == o.kind \in DOMAIN Thanks /\ k.reporter # None
<1>1. Shape(a, o, k)
  <2>1. CASE k.shout = 0
    <3>1. a = <<"check", "act">>
      BY <2>1 DEF Due
    <3> HIDE DEF a
    <3> QED
      BY <2>1, <3>1 DEF Shape, Addressed, Steps
  <2>2. CASE k.shout # 0
    <3> DEFINE e == <<"check", "act">>
    <3>1. a = e \o <<"takedown">>
      BY <2>2 DEF Due
    <3>2. /\ e \in Seq(Steps) /\ "takedown" \in Steps
          /\ Len(e) = 2 /\ e[1] = "check" /\ e[2] = "act"
      BY DEF Steps
    <3> HIDE DEF a, e
    <3>3. a = Append(e, "takedown")
      BY <3>1, <3>2, AppendIsConcat
    <3>4. /\ a \in Seq(Steps)
          /\ Len(a) = Len(e) + 1
          /\ \A i \in 1..Len(e) : a[i] = e[i]
          /\ a[Len(e) + 1] = "takedown"
      BY <3>2, <3>3, StepAppended, Zenon
    <3>5. /\ Len(a) = 3
          /\ a[1] = "check" /\ a[2] = "act" /\ a[3] = "takedown"
      BY <3>2, <3>4
    <3>6. \A i \in 1..Len(a) : a[i] \in {"check", "act", "takedown"}
      BY <3>5
    <3>7. Addressed(a, o.kind, k.user, k.reporter, o.status)
      BY <2>2, <3>6 DEF Addressed
    <3> QED
      BY <2>2, <3>4, <3>5, <3>7 DEF Shape
  <2> QED
    BY <2>1, <2>2
<1>2. Shape(b, o, k)
  <2> HIDE DEF a
  <2>1. "close" \in Late
        /\ o.status \in ReportStatus \cup {None}
    BY DEF Late, Order
  <2> QED
    BY <1>1, <2>1, DueKeepsShape DEF Closing
<1>3. Shape(c, o, k)
  <2> HIDE DEF b
  <2>1. "tell" \in Late /\ n \in BOOLEAN /\ (n => o.kind \in DOMAIN Notices)
    BY DEF Late, Announcements
  <2> HIDE DEF n
  <2>2. Shape(b \o Due("tell", n), o, k)
    BY <1>2, <2>1, DueKeepsShape
  <2> QED
    BY <2>2
<1>4. Shape(c \o Due("thank", t), o, k)
  <2> HIDE DEF c
  <2>1. "thank" \in Late
    BY DEF Late, Announcements
  <2>2. t => o.kind \in {"WARN", "BAN"} /\ k.reporter \in Users \ {k.user}
    BY DEF Thanks
  <2> QED
    BY <1>3, <2>1, <2>2, DueKeepsShape
<1>5. Todo(o, k) = c \o Due("thank", t)
  <2> DEFINE d == Due("tell", n)
             e == Due("thank", t)
  <2>1. b \in Seq(Steps) /\ d \in Seq(Steps) /\ e \in Seq(Steps)
    <3>1. b \in Seq(Steps)
      BY <1>2 DEF Shape
    <3>2. <<"tell">> \in Seq(Steps) /\ <<"thank">> \in Seq(Steps)
          /\ <<>> \in Seq(Steps)
      BY DEF Steps
    <3> HIDE DEF b, n, t
    <3> QED
      BY <3>1, <3>2 DEF Due
  <2> HIDE DEF d, e, b
  <2>2. b \o (d \o e) = (b \o d) \o e
    BY <2>1, ConcatAssociative
  <2> USE DEF d, e, b
  <2> QED
    BY <2>2 DEF Todo, Telling
<1> QED
  BY <1>4, <1>5

LEMMA ShapeIsOrdered ==
    ASSUME NEW s, NEW o, NEW k, Shape(s, o, k)
    PROVE  /\ s # <<>>
           /\ k.shout # 0 => Needs(s, Late, "takedown")
           /\ Needs(s, Announcements, "act")
           /\ Needs(s, {"takedown"}, "act")
<1>1. s \in Seq(Steps) /\ Len(s) \in Nat
  BY LenProperties DEF Shape
<1>2. s # <<>>
  BY EmptySeq DEF Shape
<1>3. ASSUME k.shout # 0 PROVE Needs(s, Late, "takedown")
  BY <1>1, <1>3 DEF Shape, Needs, Late, Announcements
<1>4. Needs(s, Announcements, "act")
  BY <1>1 DEF Shape, Needs, Announcements
<1>5. Needs(s, {"takedown"}, "act")
  BY <1>1 DEF Shape, Needs
<1> QED
  BY <1>2, <1>3, <1>4, <1>5

---------------------------------------------------------------------------
(* What a step may do to the shouts, to the record of judgements and to    *)
(* the bans so that the judgements in flight can go on                     *)

Grows ==
    /\ Len(shouts') \in Nat /\ Len(shouts') >= Len(shouts)
    /\ \A s \in 1..Len(shouts) : Hidden(s) => Hidden(s)'
    /\ done \subseteq done'
    /\ \A u \in Users : Covered(u) => Covered(u)'

LEMMA StillOK ==
    ASSUME TypeOK, NEW h \in Handlers, TaskOK(h), task'[h] = task[h], Grows
    PROVE  TaskOK(h)'
<1>1. SUFFICES ASSUME task[h] # None PROVE TaskOK(h)'
  BY DEF TaskOK
<1>2. Len(shouts) \in Nat
  BY LenProperties DEF TypeOK
<1>3. task'[h].shout = task[h].shout /\ task'[h].todo = task[h].todo
      /\ task'[h].user = task[h].user /\ task'[h].kind = task[h].kind
      /\ task'[h].reporter = task[h].reporter
      /\ task'[h].status = task[h].status
  OBVIOUS
<1>4. PICK s : s = task[h].shout
  OBVIOUS
<1>5. s \in 1..Len(shouts) /\ Hidden(s) => Hidden(s)'
  BY DEF Grows
<1>6. Hidden(s)' => Hidden(task[h].shout)'
  BY <1>3, <1>4 DEF Hidden, Posted
<1>7. Covered(task[h].user) => Covered(task[h].user)'
  <2>1. task[h].user \in Users
    BY <1>1 DEF TypeOK, Task
  <2>2. PICK u \in Users : u = task[h].user
    BY <2>1
  <2>3. Covered(u) => Covered(u)'
    BY DEF Grows
  <2> QED
    BY <1>3, <2>2, <2>3 DEF Covered
<1> QED
  BY <1>1, <1>2, <1>3, <1>4, <1>5, <1>6, <1>7 DEF TaskOK, Grows

LEMMA UntouchedGrow ==
    ASSUME TypeOK, UNCHANGED <<shouts, status, spared>>, done \subseteq done'
    PROVE  Grows
BY LenProperties DEF TypeOK, Grows, Hidden, Posted, Covered

LEMMA NoticesStay ==
    ASSUME NoticesFollowActs, done \subseteq done', UNCHANGED told
    PROVE  NoticesFollowActs'
BY DEF NoticesFollowActs

LEMMA ReportsStay ==
    ASSUME ReportsHaveSubjects, UNCHANGED <<reports, shouts>>
    PROVE  ReportsHaveSubjects'
BY DEF ReportsHaveSubjects, Filed, Posted

(* A judgement that has made its next call.                                *)
LEMMA Advances ==
    ASSUME TypeOK, NEW h \in Handlers, TaskOK(h), task[h] # None,
           Advance(h), Grows,
           Head(task[h].todo) = "takedown" =>
              \A s \in 1..Len(shouts) : s = task[h].shout => Hidden(s)',
           Head(task[h].todo) = "act" =>
              /\ <<task[h].user, task[h].kind>> \in done'
              /\ \A u \in Users : u = task[h].user /\ task[h].kind = "BAN"
                                   => Covered(u)'
    PROVE  /\ task' \in [Handlers -> Task \cup {None}]
           /\ TaskOK(h)'
           /\ \A g \in Handlers \ {h} : task'[g] = task[g]
<1>0. PICK t : t = task[h]
  OBVIOUS
<1> DEFINE rest == [t EXCEPT !.todo = Tail(t.todo)]
<1>1. /\ t \in Task /\ t.todo \in Seq(Steps) /\ t.todo # <<>>
      /\ Len(shouts) \in Nat /\ t.shout \in 0..Len(shouts)
  BY <1>0, LenProperties DEF TypeOK, Task, TaskOK
<1>2. Tail(t.todo) \in Seq(Steps)
  BY <1>1, TailTypes
<1>3. rest \in Task /\ rest.todo = Tail(t.todo) /\ rest.shout = t.shout
      /\ rest.user = t.user /\ rest.kind = t.kind
      /\ rest.reporter = t.reporter /\ rest.status = t.status
  BY <1>1, <1>2 DEF Task
<1>4. /\ task' = [task EXCEPT ![h] = IF Len(t.todo) = 1 THEN None ELSE rest]
      /\ task' \in [Handlers -> Task \cup {None}]
      /\ \A g \in Handlers \ {h} : task'[g] = task[g]
      /\ task'[h] = IF Len(t.todo) = 1 THEN None ELSE rest
  <2>1. task' = [task EXCEPT ![h] = IF Len(t.todo) = 1 THEN None ELSE rest]
    BY <1>0 DEF Advance, Ended
  <2> HIDE DEF rest
  <2> QED
    BY <1>3, <2>1 DEF TypeOK
<1>5. ASSUME task'[h] = None PROVE TaskOK(h)'
  BY <1>4, <1>5 DEF TaskOK
<1>6. ASSUME task'[h] # None PROVE TaskOK(h)'
  <2>1. task'[h] = rest /\ Len(t.todo) # 1
    BY <1>4, <1>6
  <2>2. Tail(t.todo) # <<>>
    <3>1. Len(t.todo) \in Nat /\ Len(Tail(t.todo)) = Len(t.todo) - 1
          /\ Len(t.todo) > 0
      BY <1>1, TailTypes
    <3>2. Len(Tail(t.todo)) # 0
      BY <2>1, <3>1
    <3>3. Len(<<>>) = 0
      BY EmptySeq
    <3> QED
      BY <3>2, <3>3, Zenon
  <2>3. rest.shout \in 0..Len(shouts')
    BY <1>1, <1>3 DEF Grows
  <2>4. \/ t.shout = 0
        \/ Hidden(t.shout)'
        \/ Needs(Tail(t.todo), Late, "takedown")
    <3>1. CASE t.shout # 0 /\ Hidden(t.shout)
      BY <1>1, <3>1 DEF Grows
    <3>2. CASE Needs(t.todo, Late, "takedown") /\ Head(t.todo) # "takedown"
      BY <1>1, <3>2, NeedsTail
    <3> QED
      BY <1>0, <1>1, <3>1, <3>2 DEF TaskOK
  <2>5. \/ <<t.user, t.kind>> \in done'
        \/ Needs(Tail(t.todo), Announcements, "act")
    <3>1. CASE <<t.user, t.kind>> \in done
      BY <3>1 DEF Grows
    <3>2. CASE Needs(t.todo, Announcements, "act") /\ Head(t.todo) # "act"
      BY <1>1, <3>2, NeedsTail
    <3> QED
      BY <1>0, <1>1, <3>1, <3>2 DEF TaskOK
  <2>6. Addressed(Tail(t.todo), t.kind, t.user, t.reporter, t.status)
    BY <1>0, <1>1, AddressedTail DEF TaskOK
  <2>7. Hidden(t.shout)' => Hidden(task[h].shout)'
    BY <1>3, <2>1 DEF Hidden, Posted
  <2>8. \/ Covered(t.user)'
        \/ Needs(Tail(t.todo), {"takedown"}, "act")
    <3>1. CASE Covered(t.user)
      BY <1>1, <3>1 DEF Grows, Task
    <3>2. CASE Needs(t.todo, {"takedown"}, "act") /\ Head(t.todo) # "act"
      BY <1>1, <3>2, NeedsTail
    <3>3. CASE Head(t.todo) = "act" /\ t.kind = "BAN"
      BY <1>0, <1>1, <3>3 DEF Task
    <3>4. CASE t.kind # "BAN"
      <4>1. Addressed(Tail(t.todo), t.kind, t.user, t.reporter, t.status)
        BY <2>6
      <4> QED
        BY <3>4, <4>1 DEF Addressed, Needs
    <3> QED
      BY <1>0, <1>1, <3>1, <3>2, <3>3, <3>4 DEF TaskOK
  <2>9. Covered(t.user)' => Covered(task[h].user)'
    BY <1>3, <2>1 DEF Covered
  <2> HIDE DEF rest
  <2> QED
    BY <1>3, <2>1, <2>2, <2>3, <2>4, <2>5, <2>6, <2>7, <2>8, <2>9 DEF TaskOK
<1> QED
  BY <1>4, <1>5, <1>6

LEMMA Ends ==
    ASSUME TypeOK, NEW h \in Handlers, task' = [task EXCEPT ![h] = Ended]
    PROVE  /\ task' \in [Handlers -> Task \cup {None}]
           /\ TaskOK(h)'
           /\ \A g \in Handlers \ {h} : task'[g] = task[g]
<1>1. /\ task' \in [Handlers -> Task \cup {None}]
      /\ task'[h] = None
      /\ \A g \in Handlers \ {h} : task'[g] = task[g]
  BY DEF TypeOK, Ended
<1>2. TaskOK(h)'
  BY <1>1 DEF TaskOK
<1> QED
  BY <1>1, <1>2

(* The parts of the invariant from what a step of h does.                  *)
LEMMA StepOfOne ==
    ASSUME IInv, NEW h \in Handlers, TaskOK(h)', Grows,
           \A g \in Handlers \ {h} : task'[g] = task[g]
    PROVE  \A g \in Handlers : TaskOK(g)'
BY StillOK DEF IInv

---------------------------------------------------------------------------
(* Writing the two tables *)

ShoutRows == Seq(Shout \cup {None})
ReportRows == Seq(UserReport \cup ShoutReport \cup {None})

LEMMA ShoutUpdated ==
    ASSUME TypeOK, NEW s \in Posted, NEW row \in Shout,
           shouts' = [shouts EXCEPT ![s] = row],
           shouts[s].deleted_at => row.deleted_at
    PROVE  /\ shouts' \in ShoutRows
           /\ Len(shouts') = Len(shouts) /\ Len(shouts) \in Nat
           /\ Posted' = Posted
           /\ \A x \in 1..Len(shouts) : Hidden(x) => Hidden(x)'
           /\ \A x \in Posted : shouts[x].deleted_at => shouts'[x].deleted_at
           /\ s \in 1..Len(shouts) /\ shouts'[s] = row
<1>1. shouts \in ShoutRows
  BY DEF TypeOK, ShoutRows
<1>2. s \in 1..Len(shouts) /\ Len(shouts) \in Nat
      /\ DOMAIN shouts = 1..Len(shouts)
  BY <1>1, LenProperties DEF Posted, ShoutRows
<1>3. /\ shouts' \in ShoutRows
      /\ Len(shouts') = Len(shouts)
      /\ \A x \in 1..Len(shouts) :
            shouts'[x] = IF x = s THEN row ELSE shouts[x]
  BY <1>1, <1>2, ExceptSeq DEF ShoutRows
<1>4. row # None
  BY NoneIsNull DEF Shout
<1>5. DOMAIN shouts' = 1..Len(shouts)
  BY <1>3, LenProperties DEF ShoutRows
<1>6. Posted' = Posted
  BY <1>2, <1>3, <1>4, <1>5 DEF Posted
<1> QED
  BY <1>2, <1>3, <1>6 DEF Hidden

LEMMA ReportUpdated ==
    ASSUME TypeOK, NEW r \in Filed, NEW row,
           row \in UserReport \cup ShoutReport \cup {None},
           reports' = [reports EXCEPT ![r] = row],
           row = None \/ (/\ row.type = reports[r].type
                          /\ row.subject = reports[r].subject),
           ReportsHaveSubjects, UNCHANGED shouts
    PROVE  /\ reports' \in ReportRows
           /\ ReportsHaveSubjects'
<1>1. reports \in ReportRows
  BY DEF TypeOK, ReportRows
<1>2. r \in 1..Len(reports) /\ Len(reports) \in Nat
      /\ DOMAIN reports = 1..Len(reports)
  BY <1>1, LenProperties DEF Filed, ReportRows
<1>3. /\ reports' \in ReportRows
      /\ Len(reports') = Len(reports)
      /\ \A x \in 1..Len(reports) :
            reports'[x] = IF x = r THEN row ELSE reports[x]
  BY <1>1, <1>2, ExceptSeq DEF ReportRows
<1>4. DOMAIN reports' = 1..Len(reports)
  BY <1>3, LenProperties DEF ReportRows
<1>5. ReportsHaveSubjects'
  BY <1>2, <1>3, <1>4 DEF ReportsHaveSubjects, Filed, Posted
<1> QED
  BY <1>3, <1>5

LEMMA ReportFiled ==
    ASSUME TypeOK, NEW row \in UserReport \cup ShoutReport, FileReport(row),
           row.type = "SHOUT" => row.subject \in Posted,
           ReportsHaveSubjects, UNCHANGED shouts
    PROVE  /\ reports' \in ReportRows
           /\ ReportsHaveSubjects'
<1>1. reports \in ReportRows
  BY DEF TypeOK, ReportRows
<1>2. /\ reports' \in ReportRows
      /\ Len(reports) \in Nat /\ Len(reports') = Len(reports) + 1
      /\ \A x \in 1..Len(reports) : reports'[x] = reports[x]
      /\ reports'[Len(reports) + 1] = row
  BY <1>1, AppendProperties, LenProperties DEF ReportRows, FileReport
<1>3. /\ DOMAIN reports = 1..Len(reports)
      /\ DOMAIN reports' = 1..(Len(reports) + 1)
  BY <1>1, <1>2, LenProperties DEF ReportRows
<1>4. ReportsHaveSubjects'
  BY <1>2, <1>3 DEF ReportsHaveSubjects, Filed, Posted
<1> QED
  BY <1>2, <1>4

---------------------------------------------------------------------------
(* Users and the shouts and reports pages *)

LEMMA TasksStay ==
    ASSUME IInv, UNCHANGED task, Grows
    PROVE  /\ \A h \in Handlers : TaskOK(h)'
           /\ task' \in [Handlers -> Task \cup {None}]
BY StillOK DEF IInv, TypeOK

LEMMA NewShoutKeeps ==
    ASSUME IInv, NEW u \in Users, NEW original \in Posted \cup {0},
           NewShout(u, original)
    PROVE  IInv' /\ Grows
<1> DEFINE row == [ user_id |-> u, original |-> original,
                    status |-> "PUBLISHED", deleted_at |-> FALSE ]
<1>1. shouts \in ShoutRows /\ TypeOK
  BY DEF IInv, TypeOK, ShoutRows
<1>2. row \in Shout /\ row # None
  <2>1. original \in Nat
    BY <1>1, LenProperties DEF Posted, ShoutRows
  <2>2. row \in Shout
    BY <2>1 DEF Shout, ShoutStatus
  <2>3. None \notin Shout
    BY NoneIsNull DEF Shout
  <2> QED
    BY <2>2, <2>3, Zenon
<1>3. /\ shouts' \in ShoutRows
      /\ Len(shouts) \in Nat /\ Len(shouts') = Len(shouts) + 1
      /\ \A x \in 1..Len(shouts) : shouts'[x] = shouts[x]
  <2> HIDE DEF row
  <2>1. shouts' = Append(shouts, row)
    BY DEF NewShout, row
  <2> QED
    BY <1>1, <1>2, <2>1, AppendProperties, LenProperties DEF ShoutRows
<1>4. /\ DOMAIN shouts = 1..Len(shouts)
      /\ DOMAIN shouts' = 1..(Len(shouts) + 1)
  BY <1>1, <1>3, LenProperties DEF ShoutRows
<1>5. Posted \subseteq Posted'
  BY <1>3, <1>4 DEF Posted
<1>6. Grows
  BY <1>3, <1>4 DEF NewShout, Grows, Hidden, Posted, Covered
<1>7. ReportsHaveSubjects'
  BY <1>5 DEF IInv, NewShout, ReportsHaveSubjects, Filed
<1>8. TypeOK' /\ NoticesFollowActs'
  BY <1>1, <1>3, NoticesStay DEF NewShout, IInv, TypeOK, ShoutRows
<1> QED
  BY <1>6, <1>7, <1>8, TasksStay DEF NewShout, IInv

LEMMA ReportUserKeeps ==
    ASSUME IInv, NEW u \in Users, NEW v \in Users, ReportUser(u, v)
    PROVE  IInv' /\ Grows
<1> DEFINE row == ReportOf("USER", v, u)
<1>1. row \in UserReport /\ row.type = "USER"
  BY DEF ReportOf, UserReport, ReportStatus
<1>2. reports' \in ReportRows /\ ReportsHaveSubjects'
  <2> HIDE DEF row
  <2>1. FileReport(row) /\ UNCHANGED shouts
    BY DEF ReportUser, row
  <2> QED
    BY <1>1, <2>1, ReportFiled DEF IInv
<1>3. Grows
  BY UntouchedGrow DEF ReportUser, IInv
<1>4. TypeOK' /\ NoticesFollowActs'
  BY <1>2, NoticesStay DEF ReportUser, IInv, TypeOK, ReportRows
<1> QED
  BY <1>2, <1>3, <1>4, TasksStay DEF ReportUser, IInv

LEMMA ReportShoutKeeps ==
    ASSUME IInv, NEW u \in Users, NEW s, ReportShout(u, s)
    PROVE  IInv' /\ Grows
<1> DEFINE row == ReportOf("SHOUT", u, s)
<1>1. s \in Posted /\ s \in Nat
  BY LenProperties DEF ReportShout, Posted, IInv, TypeOK
<1>2. row \in ShoutReport /\ row.subject = s
  BY <1>1 DEF ReportOf, ShoutReport, ReportStatus
<1>3. reports' \in ReportRows /\ ReportsHaveSubjects'
  <2> HIDE DEF row
  <2>1. FileReport(row) /\ UNCHANGED shouts
    BY DEF ReportShout, row
  <2> QED
    BY <1>1, <1>2, <2>1, ReportFiled DEF IInv
<1>4. Grows
  BY UntouchedGrow DEF ReportShout, IInv
<1>5. TypeOK' /\ NoticesFollowActs'
  BY <1>3, NoticesStay DEF ReportShout, IInv, TypeOK, ReportRows
<1> QED
  BY <1>3, <1>4, <1>5, TasksStay DEF ReportShout, IInv

LEMMA UpdateShoutStatusKeeps ==
    ASSUME IInv, NEW s, NEW st \in ShoutEdits, UpdateShoutStatus(s, st)
    PROVE  IInv' /\ Grows
<1> DEFINE row == [shouts[s] EXCEPT !.status = st]
<1>1. s \in Posted /\ shouts[s] \in Shout
  BY LenProperties, ElementOfSeq DEF UpdateShoutStatus, Posted, IInv, TypeOK
<1>2. row \in Shout /\ row.deleted_at = shouts[s].deleted_at
  BY <1>1, EditsAreTyped DEF Shout
<1>3. /\ shouts' \in ShoutRows
      /\ Len(shouts') = Len(shouts) /\ Len(shouts) \in Nat
      /\ Posted' = Posted
      /\ \A x \in 1..Len(shouts) : Hidden(x) => Hidden(x)'
  <2> HIDE DEF row
  <2>1. shouts' = [shouts EXCEPT ![s] = row]
    BY DEF UpdateShoutStatus, row
  <2> QED
    BY <1>1, <1>2, <2>1, ShoutUpdated DEF IInv
<1>4. Grows
  BY <1>3 DEF UpdateShoutStatus, Grows, Covered
<1>5. ReportsHaveSubjects'
  BY <1>3 DEF IInv, UpdateShoutStatus, ReportsHaveSubjects, Filed
<1>6. NoticesFollowActs'
  <2>1. \A k \in DOMAIN Notices : Notices[k] # "SHOUT_STATUS_UPDATE"
    BY DEF Notices
  <2>2. \A k \in DOMAIN Thanks : Thanks[k] # "SHOUT_STATUS_UPDATE"
    BY DEF Thanks
  <2> QED
    BY <2>1, <2>2 DEF IInv, UpdateShoutStatus, NoticesFollowActs
<1>7. told' \subseteq Users \X ( {Notices[k] : k \in DOMAIN Notices}
                                 \cup {Thanks[k] : k \in DOMAIN Thanks}
                                 \cup {"SHOUT_STATUS_UPDATE"} )
  <2>1. shouts[s].user_id \in Users
    BY <1>1 DEF Shout
  <2> QED
    BY <2>1 DEF IInv, TypeOK, UpdateShoutStatus
<1>8. TypeOK'
  BY <1>3, <1>7 DEF UpdateShoutStatus, IInv, TypeOK, ShoutRows
<1> QED
  BY <1>4, <1>5, <1>6, <1>8, TasksStay DEF UpdateShoutStatus, IInv

LEMMA UpdateReportStatusKeeps ==
    ASSUME IInv, NEW r, NEW st \in ReportEdits, UpdateReportStatus(r, st)
    PROVE  IInv' /\ Grows
<1> DEFINE row == [reports[r] EXCEPT !.status = st]
<1>1. r \in Filed /\ reports[r] \in UserReport \cup ShoutReport
  BY LenProperties, ElementOfSeq DEF UpdateReportStatus, Filed, IInv, TypeOK
<1>2. /\ row \in UserReport \cup ShoutReport
      /\ row.type = reports[r].type /\ row.subject = reports[r].subject
  BY <1>1, EditsAreTyped DEF UserReport, ShoutReport
<1>3. reports' \in ReportRows /\ ReportsHaveSubjects'
  <2> HIDE DEF row
  <2>1. reports' = [reports EXCEPT ![r] = row] /\ UNCHANGED shouts
    BY DEF UpdateReportStatus, row
  <2> QED
    BY <1>1, <1>2, <2>1, ReportUpdated DEF IInv
<1>4. Grows
  BY UntouchedGrow DEF UpdateReportStatus, IInv
<1>5. TypeOK' /\ NoticesFollowActs'
  BY <1>3, NoticesStay DEF UpdateReportStatus, IInv, TypeOK, ReportRows
<1> QED
  BY <1>3, <1>4, <1>5, TasksStay DEF UpdateReportStatus, IInv

LEMMA RemoveReportKeeps ==
    ASSUME IInv, NEW r, RemoveReport(r)
    PROVE  IInv' /\ Grows
<1>1. reports' \in ReportRows /\ ReportsHaveSubjects'
  BY ReportUpdated DEF IInv, RemoveReport
<1>2. Grows
  BY UntouchedGrow DEF RemoveReport, IInv
<1>3. TypeOK' /\ NoticesFollowActs'
  BY <1>1, NoticesStay DEF RemoveReport, IInv, TypeOK, ReportRows
<1> QED
  BY <1>1, <1>2, <1>3, TasksStay DEF RemoveReport, IInv

(* The shout goes with its reports; a share only forgets its original.     *)
LEMMA DeleteShoutKeeps ==
    ASSUME IInv, NEW s, DeleteShout(s)
    PROVE  IInv' /\ Grows
<1> DEFINE row(t) == IF t = s \/ shouts[t] = None THEN None
                     ELSE IF shouts[t].original = s
                          THEN [shouts[t] EXCEPT !.original = 0]
                          ELSE shouts[t]
           left(r) == IF r \in Filed /\ reports[r].type = "SHOUT"
                                     /\ reports[r].subject = s
                      THEN None ELSE reports[r]
<1>1. shouts \in ShoutRows /\ reports \in ReportRows /\ TypeOK
  BY DEF IInv, TypeOK, ShoutRows, ReportRows
<1>2. /\ DOMAIN shouts = 1..Len(shouts) /\ Len(shouts) \in Nat
      /\ DOMAIN reports = 1..Len(reports) /\ Len(reports) \in Nat
  BY <1>1, LenProperties DEF ShoutRows, ReportRows
<1>3. /\ shouts' = [t \in 1..Len(shouts) |-> row(t)]
      /\ reports' = [r \in 1..Len(reports) |-> left(r)]
  BY <1>2 DEF DeleteShout
<1>4. \A t \in 1..Len(shouts) :
        /\ row(t) \in Shout \cup {None}
        /\ t # s /\ t \in Posted => /\ row(t) # None
                                   /\ row(t).deleted_at = shouts[t].deleted_at
        /\ t = s \/ t \notin Posted => row(t) = None
  <2>1. ASSUME NEW t \in 1..Len(shouts), t # s, shouts[t] # None
        PROVE  /\ row(t) \in Shout
               /\ row(t).deleted_at = shouts[t].deleted_at
    <3>1. shouts[t] \in Shout
      BY <1>1, <1>2, <2>1, ElementOfSeq DEF ShoutRows
    <3> QED
      BY <2>1, <3>1 DEF Shout
  <2>2. None \notin Shout
    BY NoneIsNull DEF Shout
  <2>3. \A t \in 1..Len(shouts) : t = s \/ shouts[t] = None => row(t) = None
    OBVIOUS
  <2> HIDE DEF row
  <2> QED
    BY <1>2, <2>1, <2>2, <2>3 DEF Posted
<1>5. \A r \in 1..Len(reports) :
        left(r) \in UserReport \cup ShoutReport \cup {None}
  <2>1. \A r \in 1..Len(reports) :
          reports[r] \in UserReport \cup ShoutReport \cup {None}
    BY <1>1, <1>2, ElementOfSeq DEF ReportRows
  <2> QED
    BY <2>1
<1>6. \A r \in 1..Len(reports) : left(r) # None =>
        /\ r \in Filed /\ left(r) = reports[r]
        /\ reports[r].type = "SHOUT" => reports[r].subject # s
  BY <1>2 DEF Filed
<1> HIDE DEF row, left
<1>7. /\ shouts' \in ShoutRows
      /\ Len(shouts') = Len(shouts) /\ DOMAIN shouts' = 1..Len(shouts)
  <2>1. shouts' \in [1..Len(shouts) -> Shout \cup {None}]
    BY <1>3, <1>4
  <2> QED
    BY <1>2, <2>1, IsASeq, LenProperties DEF ShoutRows
<1>8. reports' \in ReportRows /\ DOMAIN reports' = 1..Len(reports)
  <2>1. reports' \in [1..Len(reports) -> UserReport \cup ShoutReport \cup {None}]
    BY <1>3, <1>5
  <2> QED
    BY <1>2, <2>1, IsASeq DEF ReportRows
<1>9. Posted \ {s} \subseteq Posted'
  BY <1>2, <1>3, <1>4, <1>7 DEF Posted
<1>10. Grows
  <2>1. ASSUME NEW x \in 1..Len(shouts), Hidden(x) PROVE Hidden(x)'
    <3>1. shouts'[x] = row(x)
      BY <1>3
    <3>2. CASE x = s \/ x \notin Posted
      BY <1>4, <3>1, <3>2 DEF Hidden, Posted
    <3>3. CASE x # s /\ x \in Posted
      BY <1>4, <2>1, <3>1, <3>3 DEF Hidden
    <3> QED
      BY <3>2, <3>3
  <2> QED
    BY <1>2, <1>7, <2>1 DEF DeleteShout, Grows, Covered
<1>11. ReportsHaveSubjects'
  <2>1. ASSUME NEW r \in Filed', reports'[r].type = "SHOUT"
        PROVE  reports'[r].subject \in Posted'
    <3>1. r \in 1..Len(reports) /\ reports'[r] = left(r) /\ left(r) # None
      BY <1>3, <1>8 DEF Filed
    <3>2. r \in Filed /\ reports'[r] = reports[r] /\ reports[r].subject # s
      BY <1>6, <2>1, <3>1
    <3> QED
      BY <1>9, <2>1, <3>2 DEF IInv, ReportsHaveSubjects
  <2> QED
    BY <2>1 DEF ReportsHaveSubjects
<1>12. TypeOK' /\ NoticesFollowActs'
  BY <1>7, <1>8, NoticesStay
     DEF DeleteShout, IInv, TypeOK, ShoutRows, ReportRows
<1> QED
  BY <1>10, <1>11, <1>12, TasksStay DEF DeleteShout, IInv

---------------------------------------------------------------------------
(* Judgements *)

LEMMA AccusedTypes ==
    ASSUME IInv, NEW r \in Filed
    PROVE  /\ Accused(r) \in Users
           /\ reports[r].reporter \in Users
           /\ reports[r].status \in ReportStatus
           /\ reports[r].type = "SHOUT" => reports[r].subject \in Posted
<1>1. reports[r] \in UserReport \cup ShoutReport
  BY LenProperties, ElementOfSeq DEF Filed, IInv, TypeOK
<1>2. ASSUME reports[r].type = "SHOUT"
      PROVE  /\ reports[r].subject \in Posted
             /\ shouts[reports[r].subject].user_id \in Users
  <2>1. reports[r].subject \in Posted
    BY <1>2 DEF IInv, ReportsHaveSubjects
  <2>2. shouts[reports[r].subject] \in Shout
    BY <2>1, LenProperties, ElementOfSeq DEF Posted, IInv, TypeOK
  <2> QED
    BY <2>1, <2>2 DEF Shout
<1> QED
  BY <1>1, <1>2 DEF Accused, UserReport, ShoutReport

LEMMA KnowsTypes ==
    ASSUME IInv, NEW o \in Orders, o.reportId \in Filed \cup {0}
    PROVE  /\ Knows(o).user \in Users
           /\ Knows(o).reporter \in Users \cup {None}
           /\ Knows(o).shout \in 0..Len(shouts)
           /\ Knows(o).seen \in ReportStatus \cup {None}
<1>1. /\ o.reportId \in Nat
      /\ o.reportedId \in Users \cup {None}
      /\ o.reporterId \in Users \cup {None}
      /\ o.reportId = 0 => o.reportedId \in Users
      /\ o.kind \in Kinds
  BY OrdersAreTyped DEF Order
<1>2. Len(shouts) \in Nat /\ DOMAIN shouts = 1..Len(shouts)
  BY LenProperties DEF IInv, TypeOK
<1>3. CASE o.reportId = 0
  BY <1>1, <1>2, <1>3 DEF Knows
<1>4. CASE o.reportId # 0
  <2>1. o.reportId \in Filed
    BY <1>4
  <2>2. Posted \subseteq 0..Len(shouts)
    BY <1>2 DEF Posted
  <2>3. /\ Accused(o.reportId) \in Users
        /\ reports[o.reportId].reporter \in Users
        /\ reports[o.reportId].status \in ReportStatus
        /\ reports[o.reportId].type = "SHOUT" =>
              reports[o.reportId].subject \in Posted
    BY <2>1, AccusedTypes
  <2>4. /\ Knows(o).user = Given(o.reportedId, Accused(o.reportId))
        /\ Knows(o).reporter =
              Given(o.reporterId, reports[o.reportId].reporter)
        /\ Knows(o).shout =
              IF o.kind = "BAN" /\ reports[o.reportId].type = "SHOUT"
              THEN reports[o.reportId].subject ELSE 0
        /\ Knows(o).seen = reports[o.reportId].status
    BY <1>4 DEF Knows
  <2>5. /\ Knows(o).user \in Users
        /\ Knows(o).reporter \in Users \cup {None}
    BY <1>1, <2>3, <2>4 DEF Given
  <2>6. Knows(o).shout \in 0..Len(shouts)
    <3>1. Knows(o).shout \in Posted \cup {0}
      BY <2>3, <2>4
    <3>2. 0 \in 0..Len(shouts)
      BY <1>2
    <3> QED
      BY <2>2, <3>1, <3>2
  <2> QED
    BY <2>3, <2>4, <2>5, <2>6
<1> QED
  BY <1>3, <1>4

LEMMA BeginKeeps ==
    ASSUME IInv, NEW h \in Handlers, NEW o \in Orders, Begin(h, o)
    PROVE  IInv' /\ Grows
<1>1. PICK k : k = Knows(o)
  OBVIOUS
<1>2. o \in Order /\ o.kind \in Kinds /\ o.reportId \in Nat
      /\ o.status \in ReportStatus \cup {None}
  BY OrdersAreTyped DEF Order
<1>3. /\ k.user \in Users /\ k.reporter \in Users \cup {None}
      /\ k.shout \in 0..Len(shouts)
      /\ k.seen \in ReportStatus \cup {None}
      /\ Len(shouts) \in Nat
  BY <1>1, KnowsTypes, LenProperties DEF Begin, IInv, TypeOK
<1>4. PICK todo : todo = Todo(o, k)
  OBVIOUS
<1>5. /\ todo \in Seq(Steps) /\ todo # <<>>
      /\ k.shout # 0 => Needs(todo, Late, "takedown")
      /\ Needs(todo, Announcements, "act")
      /\ Needs(todo, {"takedown"}, "act")
      /\ Addressed(todo, o.kind, k.user, k.reporter, o.status)
  <2>1. Shape(todo, o, k)
    <3>1. k.shout # 0 => o.kind = "BAN"
      BY <1>1 DEF Knows
    <3> QED
      BY <1>1, <1>2, <1>3, <1>4, <3>1, TodoShape DEF Begin
  <2> QED
    BY <2>1, ShapeIsOrdered DEF Shape
<1> DEFINE t == [ kind |-> o.kind, user |-> k.user, reporter |-> k.reporter,
                  report |-> o.reportId, shout |-> k.shout, seen |-> k.seen,
                  status |-> o.status, todo |-> todo ]
<1>6. t \in Task
  BY <1>2, <1>3, <1>5 DEF Task
<1>7. task' = [task EXCEPT ![h] = t]
  BY <1>1, <1>4 DEF Begin
<1>8. /\ task' \in [Handlers -> Task \cup {None}]
      /\ task'[h] = t
      /\ \A g \in Handlers \ {h} : task'[g] = task[g]
  <2> HIDE DEF t
  <2> QED
    BY <1>6, <1>7 DEF IInv, TypeOK
<1>9. TaskOK(h)'
  BY <1>3, <1>5, <1>8 DEF TaskOK, Begin
<1>10. Grows
  BY UntouchedGrow DEF Begin, IInv
<1>11. TypeOK' /\ ReportsHaveSubjects' /\ NoticesFollowActs'
  BY <1>8, NoticesStay, ReportsStay DEF Begin, IInv, TypeOK
<1> QED
  BY <1>8, <1>9, <1>10, <1>11, StepOfOne DEF IInv

LEMMA CheckKeeps ==
    ASSUME IInv, NEW h \in Handlers, Check(h)
    PROVE  IInv' /\ Grows
<1>1. Grows
  BY UntouchedGrow DEF Check, IInv
<1>2. /\ task' \in [Handlers -> Task \cup {None}]
      /\ TaskOK(h)'
      /\ \A g \in Handlers \ {h} : task'[g] = task[g]
  BY <1>1, Advances, Ends DEF Check, At, IInv
<1>3. TypeOK' /\ ReportsHaveSubjects' /\ NoticesFollowActs'
  BY <1>2, NoticesStay, ReportsStay DEF Check, IInv, TypeOK
<1> QED
  BY <1>1, <1>2, <1>3, StepOfOne DEF IInv

LEMMA TaskTypes ==
    ASSUME TypeOK, NEW h \in Handlers, task[h] # None
    PROVE  task[h] \in Task
BY DEF TypeOK

LEMMA ActKeeps ==
    ASSUME IInv, NEW h \in Handlers, Act(h)
    PROVE  IInv' /\ Grows
<1>1. task[h] # None /\ task[h] \in Task /\ Head(task[h].todo) = "act"
  BY TaskTypes DEF Act, At, IInv
<1>2. Grows
  <2>1. \A u \in Users : Covered(u) => Covered(u)'
    BY DEF Act, Covered, IInv, TypeOK
  <2> QED
    BY <2>1, LenProperties DEF Act, IInv, TypeOK, Grows, Hidden, Posted
<1>8. ASSUME NEW u \in Users, u = task[h].user, task[h].kind = "BAN"
      PROVE  Covered(u)'
  BY <1>8 DEF Act, Covered, IInv, TypeOK, Writes
<1>3. /\ task' \in [Handlers -> Task \cup {None}]
      /\ TaskOK(h)'
      /\ \A g \in Handlers \ {h} : task'[g] = task[g]
  BY <1>1, <1>2, <1>8, Advances DEF Act, IInv
<1>4. Writes(task[h].kind) \in UserStatus
  BY DEF Writes, UserStatus
<1>5. <<task[h].user, task[h].kind>> \in Users \X Kinds
  BY <1>1 DEF Task
<1>6. TypeOK'
  BY <1>3, <1>4, <1>5 DEF Act, IInv, TypeOK
<1>7. ReportsHaveSubjects' /\ NoticesFollowActs'
  BY NoticesStay, ReportsStay DEF Act, IInv
<1> QED
  BY <1>2, <1>3, <1>6, <1>7, StepOfOne DEF IInv

LEMMA TakedownKeeps ==
    ASSUME IInv, NEW h \in Handlers, Takedown(h)
    PROVE  IInv' /\ Grows
<1>1. task[h] # None /\ Head(task[h].todo) = "takedown"
  BY DEF Takedown, At
<1>2. CASE task[h].shout \in Posted
  <2>1. PICK s : s = task[h].shout
    OBVIOUS
  <2> DEFINE row == [shouts[s] EXCEPT !.deleted_at = TRUE, !.status = "REMOVED"]
  <2>2. s \in Posted /\ shouts[s] \in Shout
    BY <1>2, <2>1, LenProperties, ElementOfSeq DEF Posted, IInv, TypeOK
  <2>3. row \in Shout /\ row.deleted_at = TRUE
    BY <2>2 DEF Shout, ShoutStatus
  <2>4. shouts' = [shouts EXCEPT ![s] = row] /\ Advance(h)
    BY <1>2, <2>1 DEF Takedown
  <2> HIDE DEF row
  <2>5. /\ shouts' \in ShoutRows
        /\ Len(shouts') = Len(shouts) /\ Len(shouts) \in Nat
        /\ Posted' = Posted
        /\ \A x \in 1..Len(shouts) : Hidden(x) => Hidden(x)'
        /\ shouts'[s].deleted_at
    BY <2>2, <2>3, <2>4, ShoutUpdated DEF IInv
  <2>6. Grows
    BY <2>5 DEF Takedown, Grows, Covered
  <2>7. Hidden(s)'
    BY <2>5 DEF Hidden
  <2>8. /\ task' \in [Handlers -> Task \cup {None}]
        /\ TaskOK(h)'
        /\ \A g \in Handlers \ {h} : task'[g] = task[g]
    BY <1>1, <2>1, <2>4, <2>6, <2>7, Advances DEF IInv
  <2>9. ReportsHaveSubjects' /\ NoticesFollowActs'
    BY <2>5, NoticesStay
       DEF Takedown, IInv, ReportsHaveSubjects, Filed
  <2>10. TypeOK'
    <3>1. removed' = removed \cup {<<s, task[h].user>>} /\ s \in Nat
          /\ task[h].user \in Users
      BY <1>1, <1>2, <2>1, <2>2, LenProperties, TaskTypes
         DEF Takedown, Posted, IInv, TypeOK, Task
    <3> QED
      BY <2>5, <2>8, <3>1 DEF Takedown, IInv, TypeOK, ShoutRows
  <2> QED
    BY <2>6, <2>8, <2>9, <2>10, StepOfOne DEF IInv
<1>3. CASE task[h].shout \notin Posted
  <2>1. /\ task' = [task EXCEPT ![h] = Ended]
        /\ UNCHANGED <<shouts, removed>>
    BY <1>3 DEF Takedown
  <2>2. Grows
    BY <2>1, UntouchedGrow DEF Takedown, IInv
  <2>3. /\ task' \in [Handlers -> Task \cup {None}]
        /\ TaskOK(h)'
        /\ \A g \in Handlers \ {h} : task'[g] = task[g]
    BY <2>1, Ends DEF IInv
  <2>4. TypeOK' /\ ReportsHaveSubjects' /\ NoticesFollowActs'
    BY <2>1, <2>3, NoticesStay, ReportsStay DEF Takedown, IInv, TypeOK
  <2> QED
    BY <2>2, <2>3, <2>4, StepOfOne DEF IInv
<1> QED
  BY <1>2, <1>3

LEMMA CloseKeeps ==
    ASSUME IInv, NEW h \in Handlers, Close(h)
    PROVE  IInv' /\ Grows
<1>1. task[h] # None /\ task[h] \in Task /\ Head(task[h].todo) = "close"
  BY TaskTypes DEF Close, At, IInv
<1>2. Grows
  BY UntouchedGrow DEF Close, IInv
<1>3. /\ task' \in [Handlers -> Task \cup {None}]
      /\ TaskOK(h)'
      /\ \A g \in Handlers \ {h} : task'[g] = task[g]
  BY <1>1, <1>2, Advances, Ends DEF Close, IInv
<1>4. reports' \in ReportRows /\ ReportsHaveSubjects'
  <2>0. task[h].status \in ReportStatus
    <3>1. /\ task[h].todo \in Seq(Steps) /\ task[h].todo # <<>>
          /\ TaskOK(h)
      BY <1>1 DEF IInv, Task, TaskOK
    <3>2. task[h].todo[1] = "close" /\ 1 \in 1..Len(task[h].todo)
      BY <1>1, <3>1, TailTypes
    <3> QED
      BY <1>1, <3>1, <3>2 DEF TaskOK, Addressed
  <2>1. CASE task[h].report \in Filed
    <3>1. PICK r : r = task[h].report
      OBVIOUS
    <3> DEFINE row == [reports[r] EXCEPT !.status = task[h].status]
    <3>2. r \in Filed /\ reports[r] \in UserReport \cup ShoutReport
      BY <2>1, <3>1, LenProperties, ElementOfSeq DEF Filed, IInv, TypeOK
    <3>3. /\ row \in UserReport \cup ShoutReport
          /\ row.type = reports[r].type /\ row.subject = reports[r].subject
      BY <2>0, <3>2 DEF UserReport, ShoutReport
    <3>4. reports' = [reports EXCEPT ![r] = row] /\ UNCHANGED shouts
      BY <2>1, <3>1 DEF Close
    <3> HIDE DEF row
    <3> QED
      BY <3>2, <3>3, <3>4, ReportUpdated DEF IInv
  <2>2. CASE task[h].report \notin Filed
    BY <2>2, ReportsStay DEF Close, IInv, TypeOK, ReportRows
  <2> QED
    BY <2>1, <2>2
<1>5. TypeOK' /\ NoticesFollowActs'
  BY <1>3, <1>4, NoticesStay DEF Close, IInv, TypeOK, ReportRows
<1> QED
  BY <1>2, <1>3, <1>4, <1>5, StepOfOne DEF IInv

(* The next call announces the judgement, so it has been written.          *)
LEMMA AnnouncedIsDone ==
    ASSUME IInv, NEW h \in Handlers, task[h] # None,
           Head(task[h].todo) \in Announcements
    PROVE  /\ task[h] \in Task
           /\ <<task[h].user, task[h].kind>> \in done
           /\ Head(task[h].todo) = "tell" => task[h].kind \in DOMAIN Notices
           /\ Head(task[h].todo) = "thank" =>
                 /\ task[h].kind \in DOMAIN Thanks
                 /\ task[h].reporter \in Users \ {task[h].user}
<1>1. /\ task[h] \in Task /\ task[h].todo \in Seq(Steps)
      /\ task[h].todo # <<>> /\ TaskOK(h)
  BY TaskTypes DEF IInv, Task, TaskOK
<1>2. <<task[h].user, task[h].kind>> \in done
  BY <1>1, NeedyIsNotHead DEF TaskOK
<1>3. Head(task[h].todo) = task[h].todo[1] /\ 1 \in 1..Len(task[h].todo)
  BY <1>1, TailTypes
<1> QED
  BY <1>1, <1>2, <1>3 DEF TaskOK, Addressed

LEMMA TellKeeps ==
    ASSUME IInv, NEW h \in Handlers, Tell(h)
    PROVE  IInv' /\ Grows
<1>1. task[h] # None /\ Head(task[h].todo) = "tell"
  BY DEF Tell, At
<1>2. /\ task[h] \in Task /\ task[h].user \in Users
      /\ <<task[h].user, task[h].kind>> \in done
      /\ task[h].kind \in DOMAIN Notices
  BY <1>1, AnnouncedIsDone DEF Announcements, Task
<1>3. Grows
  BY UntouchedGrow DEF Tell, IInv
<1>4. /\ task' \in [Handlers -> Task \cup {None}]
      /\ TaskOK(h)'
      /\ \A g \in Handlers \ {h} : task'[g] = task[g]
  BY <1>1, <1>3, Advances DEF Tell, IInv
<1>5. NoticesFollowActs'
  <2>1. \A k \in DOMAIN Notices :
          Notices[k] = Notices[task[h].kind] => k = task[h].kind
    BY <1>2 DEF Notices
  <2>2. \A k \in DOMAIN Thanks : Thanks[k] # Notices[task[h].kind]
    BY <1>2 DEF Notices, Thanks
  <2>3. told' = told \cup {<<task[h].user, Notices[task[h].kind]>>}
        /\ done' = done
    BY DEF Tell
  <2>4. ASSUME NEW u \in Users, NEW k \in DOMAIN Notices,
               <<u, Notices[k]>> \in told'
        PROVE  <<u, k>> \in done'
    BY <1>2, <2>1, <2>3, <2>4 DEF IInv, NoticesFollowActs
  <2>5. ASSUME NEW u \in Users, NEW k \in DOMAIN Thanks,
               <<u, Thanks[k]>> \in told'
        PROVE  \E v \in Users \ {u} : <<v, k>> \in done'
    BY <2>2, <2>3, <2>5 DEF IInv, NoticesFollowActs
  <2> QED
    BY <2>4, <2>5 DEF NoticesFollowActs
<1>6. TypeOK' /\ ReportsHaveSubjects'
  <2> DEFINE Names == {Notices[k] : k \in DOMAIN Notices}
                        \cup {Thanks[k] : k \in DOMAIN Thanks}
                        \cup {"SHOUT_STATUS_UPDATE"}
  <2>1. told' \subseteq Users \X Names
    <3>1. told \subseteq Users \X Names
      BY DEF IInv, TypeOK
    <3>2. Notices[task[h].kind] \in Names
      BY <1>2
    <3> HIDE DEF Names
    <3> QED
      BY <1>2, <3>1, <3>2 DEF Tell
  <2> QED
    BY <1>4, <2>1, ReportsStay DEF Tell, IInv, TypeOK
<1> QED
  BY <1>3, <1>4, <1>5, <1>6, StepOfOne DEF IInv

LEMMA ThankKeeps ==
    ASSUME IInv, NEW h \in Handlers, Thank(h)
    PROVE  IInv' /\ Grows
<1>1. task[h] # None /\ Head(task[h].todo) = "thank"
  BY DEF Thank, At
<1>2. /\ task[h] \in Task /\ task[h].user \in Users
      /\ <<task[h].user, task[h].kind>> \in done
      /\ task[h].kind \in DOMAIN Thanks
      /\ task[h].reporter \in Users \ {task[h].user}
  BY <1>1, AnnouncedIsDone DEF Announcements, Task
<1>3. Grows
  BY UntouchedGrow DEF Thank, IInv
<1>4. /\ task' \in [Handlers -> Task \cup {None}]
      /\ TaskOK(h)'
      /\ \A g \in Handlers \ {h} : task'[g] = task[g]
  BY <1>1, <1>3, Advances DEF Thank, IInv
<1>5. NoticesFollowActs'
  <2>1. \A k \in DOMAIN Thanks :
          Thanks[k] = Thanks[task[h].kind] => k = task[h].kind
    BY <1>2 DEF Thanks
  <2>2. \A k \in DOMAIN Notices : Notices[k] # Thanks[task[h].kind]
    BY <1>2 DEF Notices, Thanks
  <2>3. told' = told \cup {<<task[h].reporter, Thanks[task[h].kind]>>}
        /\ done' = done
    BY DEF Thank
  <2>4. ASSUME NEW u \in Users, NEW k \in DOMAIN Notices,
               <<u, Notices[k]>> \in told'
        PROVE  <<u, k>> \in done'
    BY <2>2, <2>3, <2>4 DEF IInv, NoticesFollowActs
  <2>5. ASSUME NEW u \in Users, NEW k \in DOMAIN Thanks,
               <<u, Thanks[k]>> \in told'
        PROVE  \E v \in Users \ {u} : <<v, k>> \in done'
    BY <1>2, <2>1, <2>3, <2>5 DEF IInv, NoticesFollowActs
  <2> QED
    BY <2>4, <2>5 DEF NoticesFollowActs
<1>6. TypeOK' /\ ReportsHaveSubjects'
  <2> DEFINE Names == {Notices[k] : k \in DOMAIN Notices}
                        \cup {Thanks[k] : k \in DOMAIN Thanks}
                        \cup {"SHOUT_STATUS_UPDATE"}
  <2>1. told' \subseteq Users \X Names
    <3>1. told \subseteq Users \X Names
      BY DEF IInv, TypeOK
    <3>2. Thanks[task[h].kind] \in Names
      BY <1>2
    <3> HIDE DEF Names
    <3> QED
      BY <1>2, <3>1, <3>2 DEF Thank
  <2> QED
    BY <1>4, <2>1, ReportsStay DEF Thank, IInv, TypeOK
<1> QED
  BY <1>3, <1>4, <1>5, <1>6, StepOfOne DEF IInv

LEMMA FailKeeps ==
    ASSUME IInv, NEW h \in Handlers, Fail(h)
    PROVE  IInv' /\ Grows
<1>1. Grows
  BY UntouchedGrow DEF Fail, IInv
<1>2. /\ task' \in [Handlers -> Task \cup {None}]
      /\ TaskOK(h)'
      /\ \A g \in Handlers \ {h} : task'[g] = task[g]
  BY Ends DEF Fail, IInv
<1>3. TypeOK' /\ ReportsHaveSubjects' /\ NoticesFollowActs'
  BY <1>2, NoticesStay, ReportsStay DEF Fail, IInv, TypeOK
<1> QED
  BY <1>1, <1>2, <1>3, StepOfOne DEF IInv

---------------------------------------------------------------------------
(* The theorems *)

LEMMA IInvInit == Init => IInv
<1> SUFFICES ASSUME Init PROVE IInv
  OBVIOUS
<1>1. \A h \in Handlers : TaskOK(h)
  BY DEF Init, TaskOK
<1>2. TypeOK
  BY EmptySeq DEF Init, TypeOK, UserStatus
<1>3. ReportsHaveSubjects /\ NoticesFollowActs
  BY DEF Init, ReportsHaveSubjects, Filed, NoticesFollowActs
<1> QED
  BY <1>1, <1>2, <1>3 DEF IInv

LEMMA StepKeeps == IInv /\ [Next]_vars => IInv' /\ Grows
<1> SUFFICES ASSUME IInv, [Next]_vars PROVE IInv' /\ Grows
  OBVIOUS
<1>1. CASE UNCHANGED vars
  <2>1. Grows
    BY <1>1, UntouchedGrow DEF vars, IInv
  <2>2. TypeOK' /\ ReportsHaveSubjects' /\ NoticesFollowActs'
    BY <1>1, NoticesStay, ReportsStay DEF vars, IInv, TypeOK
  <2> QED
    BY <1>1, <2>1, <2>2, TasksStay DEF vars, IInv
<1>2. CASE Complain
  BY <1>2, NewShoutKeeps, ReportUserKeeps, ReportShoutKeeps
     DEF Complain, CreatePost, Share
<1>3. CASE Tidy
  BY <1>3, DeleteShoutKeeps, UpdateShoutStatusKeeps, RemoveReportKeeps,
     UpdateReportStatusKeeps DEF Tidy
<1>4. ASSUME NEW h \in Handlers, Judge(h)
      PROVE  IInv' /\ Grows
  BY <1>4, BeginKeeps, CheckKeeps, ActKeeps, TakedownKeeps, CloseKeeps,
     TellKeeps, ThankKeeps, FailKeeps DEF Judge
<1> QED
  BY <1>1, <1>2, <1>3, <1>4 DEF Next

LEMMA Invariance == Spec => []IInv
<1>1. IInv /\ [Next]_vars => IInv'
  BY StepKeeps
<1> QED
  BY <1>1, IInvInit, PTL DEF Spec

(* No judgement, report or clean-up writes a value the schema has no place *)
(* for.                                                                    *)
THEOREM TypeCorrect == Spec => []TypeOK
<1>1. IInv => TypeOK
  BY DEF IInv
<1> QED
  BY <1>1, Invariance, PTL

(* A report on the list always has its shout.                              *)
THEOREM ReportsKeepSubjects == Spec => []ReportsHaveSubjects
<1>1. IInv => ReportsHaveSubjects
  BY DEF IInv
<1> QED
  BY <1>1, Invariance, PTL

(* Nobody is told of a judgement, and nobody thanked for one, that has not *)
(* been written, wherever handlers fail and whatever they interleave with. *)
THEOREM NoticesAreTrue == Spec => []NoticesFollowActs
<1>1. IInv => NoticesFollowActs
  BY DEF IInv
<1> QED
  BY <1>1, Invariance, PTL

(* A ban that has come to closing its report or to telling the parties has *)
(* hidden the shout, whatever became of it in the meantime.                *)
THEOREM ClosedIsHidden == Spec => []HiddenBeforeClosed
<1>1. IInv => HiddenBeforeClosed
  <2> SUFFICES ASSUME IInv, NEW h \in Handlers, task[h] # None,
                      task[h].shout # 0,
                      Head(task[h].todo) \in {"close", "tell", "thank"}
               PROVE  Hidden(task[h].shout)
    BY DEF HiddenBeforeClosed, Hidden
  <2>1. /\ task[h].todo \in Seq(Steps) /\ task[h].todo # <<>>
        /\ Head(task[h].todo) \in Late /\ TaskOK(h)
    BY TaskTypes DEF IInv, Task, TaskOK, Late, Announcements
  <2> QED
    BY <2>1, NeedyIsNotHead DEF TaskOK
<1> QED
  BY <1>1, Invariance, PTL

(* What a ban took down stays hidden, and the ban in force or written over *)
(* by another judgement.                                                   *)
RemovedOK ==
    \A r \in removed : /\ r \in (1..Len(shouts)) \X Users
                       /\ Hidden(r[1])
                       /\ Covered(r[2])

LEMMA OnlyTakedownsRemove ==
    ASSUME [Next]_vars
    PROVE  \/ UNCHANGED removed
           \/ \E h \in Handlers : Takedown(h) /\ task[h].shout \in Posted
BY DEF vars, Next, Complain, CreatePost, Share, NewShout, ReportUser,
       ReportShout, Tidy, DeleteShout, UpdateShoutStatus, RemoveReport,
       UpdateReportStatus, Judge, Begin, Check, Act, Takedown, Close, Tell,
       Thank, Fail

LEMMA RemovedKeeps ==
    ASSUME IInv, IInv', Grows, RemovedOK, [Next]_vars
    PROVE  RemovedOK'
<1>1. ASSUME NEW r \in removed
      PROVE  r \in (1..Len(shouts')) \X Users /\ Hidden(r[1])' /\ Covered(r[2])'
  <2>1. PICK s \in 1..Len(shouts), u \in Users : r = <<s, u>>
    BY DEF RemovedOK
  <2>2. Hidden(s) /\ Covered(u)
    BY <2>1 DEF RemovedOK
  <2>3. Hidden(s)' /\ Covered(u)'
    BY <2>2 DEF Grows
  <2>4. s \in 1..Len(shouts')
    BY LenProperties DEF Grows, IInv, TypeOK
  <2>5. r' = r
    OBVIOUS
  <2> QED
    BY <2>1, <2>3, <2>4
<1>2. CASE UNCHANGED removed
  BY <1>1, <1>2 DEF RemovedOK
<1>3. ASSUME NEW h \in Handlers, Takedown(h), task[h].shout \in Posted
      PROVE  RemovedOK'
  <2>1. PICK s, u : s = task[h].shout /\ u = task[h].user
    OBVIOUS
  <2>2. /\ task[h] # None /\ Head(task[h].todo) = "takedown" /\ TaskOK(h)
        /\ task[h].todo \in Seq(Steps) /\ task[h].todo # <<>>
        /\ u \in Users /\ s \in Posted
    BY <1>3, <2>1, TaskTypes DEF Takedown, At, IInv, TaskOK, Task
  <2>3. Covered(u)
    BY <2>1, <2>2, NeedyIsNotHead DEF TaskOK
  <2>4. s \in 1..Len(shouts) /\ shouts[s] \in Shout
    BY <2>2, LenProperties, ElementOfSeq DEF Posted, IInv, TypeOK
  <2> DEFINE row == [shouts[s] EXCEPT !.deleted_at = TRUE, !.status = "REMOVED"]
  <2>5. row \in Shout /\ row.deleted_at = TRUE
    BY <2>4 DEF Shout, ShoutStatus
  <2>6. shouts' = [shouts EXCEPT ![s] = row] /\ removed' = removed \cup {<<s, u>>}
    BY <1>3, <2>1 DEF Takedown
  <2> HIDE DEF row
  <2>7. shouts'[s].deleted_at
    BY <2>2, <2>5, <2>6, ShoutUpdated DEF IInv
  <2>8. Hidden(s)' /\ Covered(u)' /\ s \in 1..Len(shouts')
    BY <2>2, <2>3, <2>4, <2>7, LenProperties DEF Hidden, Grows, IInv, TypeOK
  <2> QED
    BY <1>1, <2>2, <2>6, <2>8 DEF RemovedOK
<1> QED
  BY <1>2, <1>3, OnlyTakedownsRemove

(* What a ban took down is never an entry of the feed again, and nobody is *)
(* shown it, in a share or on a profile, while the ban of its author       *)
(* stands, for any number of overlapping judgements, shares and edits.     *)
THEOREM TakedownsHold == Spec => []TakedownHoldsWithTheBan
<1>1. Init => RemovedOK
  BY DEF Init, RemovedOK
<1>2. IInv /\ IInv' /\ RemovedOK /\ [Next]_vars => RemovedOK'
  BY StepKeeps, RemovedKeeps
<1>3. IInv /\ RemovedOK => TakedownHoldsWithTheBan
  <2> SUFFICES ASSUME IInv, RemovedOK, NEW r \in removed, r[1] \in Posted
               PROVE  /\ r[1] \notin FeedEntries
                      /\ /\ r[1] \in Shown
                         /\ shouts[r[1]].user_id = r[2]
                         => r[2] \in spared
    BY DEF TakedownHoldsWithTheBan
  <2>1. shouts[r[1]].deleted_at /\ Covered(r[2])
    BY DEF RemovedOK, Hidden
  <2>2. ASSUME r[1] \in Shown, shouts[r[1]].user_id = r[2]
        PROVE  status[r[2]] # "BANNED"
    <3>1. CASE r[1] \in OnPages
      BY <2>2, <3>1 DEF OnPages, IsHiddenShout
    <3>2. ASSUME NEW s \in OnPages, r[1] = shouts[s].original, r[1] # 0
          PROVE  status[r[2]] # "BANNED"
      BY <2>2, <3>2 DEF OnPages, IsHiddenShout
    <3> QED
      BY <2>2, <3>1, <3>2 DEF Shown
  <2> QED
    BY <2>1, <2>2 DEF FeedEntries, Covered
<1> QED
  BY <1>1, <1>2, <1>3, Invariance, PTL DEF Spec
=============================================================================
