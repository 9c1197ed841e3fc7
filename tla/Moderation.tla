----------------------------- MODULE Moderation -----------------------------
(***************************************************************************)
(* Users report users and shouts; administrators act on the reports        *)
(* (admin/reports), on users (admin/user) and on shouts                    *)
(* (admin/shout_manage); users disable and enable their own accounts.      *)
(* All of them write the same column, User.status, after an earlier read   *)
(* of it.                                                                  *)
(*                                                                         *)
(* One Prisma call is one step.  A judgement (warnUser, banUser, ...) is   *)
(* the list of the calls it still has to make; a call that throws drops    *)
(* the rest of the list and nothing is undone.  Rows of the two tables     *)
(* keep their position as id; a deleted row leaves None behind.            *)
(***************************************************************************)
EXTENDS Naturals, Sequences

CONSTANTS
    Users,          \* the rows of the users table
    Handlers,       \* the judgements that can be in flight
    Orders,         \* the judgements administrators and users ask for
    ShoutEdits,     \* the statuses an administrator gives a shout
    ReportEdits,    \* and a report, by hand
    MaxShouts, MaxReports,      \* bounds of the two tables
    MaxFailures,    \* how many handlers may fail half-way
    None            \* null

UserStatus == {"INACTIVE", "ACTIVE", "WARNING", "BANNED"}
ReportStatus == {"PENDING", "REVIEWED", "RESOLVED", "HIGH_SEVERITY"}
ShoutStatus == {"FLAGGED", "PUBLISHED", "DELETED", "REMOVED"}

Kinds == { "WARN", "BAN", "REMOVE_WARNING", "UNBAN",        \* admin/reports
           "PLAIN_WARN", "PLAIN_BAN",                       \* admin/user
           "DISABLE", "ENABLE" }                            \* auth

(* The body of a judgement: reportId is a row of reports or 0; the ids     *)
(* typed by hand and the new status of the report may be missing.          *)
Order == [ kind : Kinds, reportId : Nat, reportedId : Users \cup {None},
           reporterId : Users \cup {None}, status : ReportStatus \cup {None} ]

ASSUME NoneIsNull ==
    None \notin Users \cup Kinds \cup ReportStatus
                \cup [user_id : Users, original : Nat,
                      status : ShoutStatus, deleted_at : BOOLEAN]
ASSUME OrdersAreTyped ==
    /\ Orders \subseteq Order
    /\ \A o \in Orders :
          IF o.kind \in {"WARN", "BAN"} THEN o.reportId = 0 => o.reportedId # None
          ELSE o.reportId = 0 /\ o.reportedId # None

ASSUME EditsAreTyped ==
    ShoutEdits \subseteq ShoutStatus /\ ReportEdits \subseteq ReportStatus

VARIABLES
    status,     \* [Users -> UserStatus]
    shouts,     \* the table of shouts
    reports,    \* user_reports and shout_reports
    task,       \* [Handlers -> what the handler knows and still has to do]
    filed,      \* <<caller, target>>: "User reported successfully"
    done,       \* <<user, kind>>: the judgements that reached User.status
    told,       \* <<user, type>>: the notifications written
    removed,    \* <<shout, user>>: taken down, by the ban of this user
    spared,     \* the users whose ban another judgement has written over
    failures

vars == <<status, shouts, reports, task, filed, done, told, removed, spared,
          failures>>

---------------------------------------------------------------------------
(* Rows *)

Shout == [ user_id : Users, original : Nat, status : ShoutStatus,
           deleted_at : BOOLEAN ]      \* only "is it null" is ever asked

(* subject is the reported user, or the reported shout.                    *)
UserReport == [ type : {"USER"}, reporter : Users, subject : Users,
                status : ReportStatus ]
ShoutReport == [ type : {"SHOUT"}, reporter : Users, subject : Nat,
                 status : ReportStatus ]

Posted == {s \in DOMAIN shouts : shouts[s] # None}
Filed == {r \in DOMAIN reports : reports[r] # None}

Steps == {"check", "act", "takedown", "close", "tell", "thank"}

Task == [ kind : Kinds, user : Users, reporter : Users \cup {None},
          report : Nat, shout : Nat,
          seen : ReportStatus \cup {None},  \* the report's status when read
          status : ReportStatus \cup {None},
          todo : Seq(Steps) ]

Notices == [ WARN |-> "WARNING", BAN |-> "BAN",
             REMOVE_WARNING |-> "WARNING_REMOVED", UNBAN |-> "UNBAN" ]
Thanks == [ WARN |-> "USER_WARNED", BAN |-> "USER_BANNED" ]

TypeOK ==
    /\ status \in [Users -> UserStatus]
    /\ shouts \in Seq(Shout \cup {None})
    /\ reports \in Seq(UserReport \cup ShoutReport \cup {None})
    /\ task \in [Handlers -> Task \cup {None}]
    /\ filed \subseteq Users \X Users
    /\ done \subseteq Users \X Kinds
    /\ told \subseteq Users \X ( {Notices[k] : k \in DOMAIN Notices}
                                 \cup {Thanks[k] : k \in DOMAIN Thanks}
                                 \cup {"SHOUT_STATUS_UPDATE"} )
    /\ removed \subseteq Nat \X Users
    /\ spared \subseteq Users
    /\ failures \in Nat

Init ==
    /\ status = [u \in Users |-> "ACTIVE"]
    /\ shouts = <<>> /\ reports = <<>>
    /\ task = [h \in Handlers |-> None]
    /\ filed = {} /\ done = {} /\ told = {}
    /\ removed = {} /\ spared = {}
    /\ failures = 0

---------------------------------------------------------------------------
(* Users *)

NewShout(u, original) ==
    /\ Len(shouts) < MaxShouts
    /\ shouts' = Append(shouts, [ user_id |-> u, original |-> original,
                                  status |-> "PUBLISHED",
                                  deleted_at |-> FALSE ])
    /\ UNCHANGED <<status, reports, task, filed, done, told,
                   removed, spared, failures>>

CreatePost(u) == NewShout(u, 0)

(* Neither the status of the author nor that of the shout is asked for.    *)
Share(u, s) == s \in Posted /\ NewShout(u, s)

(* A unique index keeps one report per reporter and subject.               *)
FileReport(report) ==
    /\ Len(reports) < MaxReports
    /\ \A r \in Filed : \/ reports[r].type # report.type
                        \/ reports[r].reporter # report.reporter
                        \/ reports[r].subject # report.subject
    /\ reports' = Append(reports, report)

ReportOf(type, reporter, subject) ==
    [ type |-> type, reporter |-> reporter, subject |-> subject,
      status |-> "PENDING" ]

(* The controller calls reportUser(caller, target), the service's          *)
(* parameters are (reported_user_id, reporter_user_id).                    *)
ReportUser(caller, target) ==
    /\ caller # target
    /\ FileReport(ReportOf("USER", target, caller))
    /\ filed' = filed \cup {<<caller, target>>}
    /\ UNCHANGED <<status, shouts, task, done, told,
                   removed, spared, failures>>

ReportShout(u, s) ==
    /\ s \in Posted
    /\ shouts[s].user_id # u
    /\ FileReport(ReportOf("SHOUT", u, s))
    /\ UNCHANGED <<status, shouts, task, filed, done, told,
                   removed, spared, failures>>

---------------------------------------------------------------------------
(* Administrators: shouts and reports *)

(* Mutant: a shout that is published again is also undeleted.              *)
UpdateShoutStatusUndeletes(s, st) ==
    /\ s \in Posted
    /\ shouts' = [shouts EXCEPT ![s].status = st,
                                ![s].deleted_at = @ /\ st # "PUBLISHED"]
    /\ told' \in {told, told \cup {<<shouts[s].user_id, "SHOUT_STATUS_UPDATE">>}}
    /\ UNCHANGED <<status, reports, task, filed, done,
                   removed, spared, failures>>

(* The notification may fail after the row is written.                     *)
UpdateShoutStatus(s, st) ==
    /\ s \in Posted
    /\ shouts' = [shouts EXCEPT ![s] = [shouts[s] EXCEPT !.status = st]]
    /\ told' \in {told, told \cup {<<shouts[s].user_id, "SHOUT_STATUS_UPDATE">>}}
    /\ UNCHANGED <<status, reports, task, filed, done,
                   removed, spared, failures>>

(* Mutant: the reports of a shout do not go with it.                       *)
DeleteShoutKeepsReports(s) ==
    /\ s \in Posted
    /\ shouts' = [t \in DOMAIN shouts |-> IF t = s THEN None ELSE shouts[t]]
    /\ UNCHANGED <<status, reports, task, filed, done, told,
                   removed, spared, failures>>

(* By its author (deletePost) or an administrator (deleteShout): the row   *)
(* goes, its reports with it, and its shares lose their original.          *)
DeleteShout(s) ==
    /\ s \in Posted
    /\ shouts' = [t \in DOMAIN shouts |->
                    IF t = s \/ shouts[t] = None THEN None
                    ELSE IF shouts[t].original = s
                         THEN [shouts[t] EXCEPT !.original = 0]
                         ELSE shouts[t]]
    /\ reports' = [r \in DOMAIN reports |->
                    IF r \in Filed /\ reports[r].type = "SHOUT"
                                   /\ reports[r].subject = s
                    THEN None ELSE reports[r]]
    /\ UNCHANGED <<status, task, filed, done, told, removed, spared, failures>>

UpdateReportStatus(r, st) ==
    /\ r \in Filed
    /\ reports' = [reports EXCEPT ![r] = [reports[r] EXCEPT !.status = st]]
    /\ UNCHANGED <<status, shouts, task, filed, done, told,
                   removed, spared, failures>>

RemoveReport(r) ==
    /\ r \in Filed
    /\ reports' = [reports EXCEPT ![r] = None]
    /\ UNCHANGED <<status, shouts, task, filed, done, told,
                   removed, spared, failures>>

---------------------------------------------------------------------------
(* Judgements *)

(* The status of the user each of them accepts, and the one it writes.     *)
Accepts(kind) ==
    CASE kind = "WARN"           -> UserStatus \ {"WARNING", "BANNED"}
      [] kind = "BAN"            -> UserStatus \ {"BANNED"}
      [] kind = "REMOVE_WARNING" -> {"WARNING"}
      [] kind = "UNBAN"          -> {"BANNED"}
      [] kind = "DISABLE"        -> UserStatus \ {"INACTIVE"}
      [] kind = "ENABLE"         -> UserStatus \ {"ACTIVE"}
      [] OTHER                   -> UserStatus

(* Mutant: the status takes the name of the notification.                  *)
WritesNoticeName(kind) ==
    CASE kind \in {"WARN", "PLAIN_WARN"} -> "WARNING"
      [] kind \in {"BAN", "PLAIN_BAN"}   -> "BAN"
      [] OTHER                           -> "ACTIVE"

Writes(kind) ==
    CASE kind \in {"WARN", "PLAIN_WARN"} -> "WARNING"
      [] kind \in {"BAN", "PLAIN_BAN"}   -> "BANNED"
      [] kind = "DISABLE"                -> "INACTIVE"
      [] OTHER                           -> "ACTIVE"

Given(typed, inferred) == IF typed # None THEN typed ELSE inferred

Accused(r) == IF reports[r].type = "USER" THEN reports[r].subject
              ELSE shouts[reports[r].subject].user_id

(* What the handler knows once it has read the report, if there is one.    *)
Knows(o) ==
    IF o.reportId = 0
    THEN [ user |-> o.reportedId, reporter |-> o.reporterId,
           shout |-> 0, seen |-> None ]
    ELSE [ user     |-> Given(o.reportedId, Accused(o.reportId)),
           reporter |-> Given(o.reporterId, reports[o.reportId].reporter),
           shout    |-> IF o.kind = "BAN" /\ reports[o.reportId].type = "SHOUT"
                        THEN reports[o.reportId].subject ELSE 0,
           seen     |-> reports[o.reportId].status ]

Due(step, wanted) == IF wanted THEN <<step>> ELSE <<>>

Telling(o, k) ==
    Due("tell", o.kind \in DOMAIN Notices)
        \o Due("thank", o.kind \in DOMAIN Thanks /\ k.reporter # None)

Closing(o, k) ==
    Due("close", o.reportId # 0 /\ o.status \notin {None, k.seen})

(* Mutant: the report is closed before the shout goes.                     *)
TodoClosesFirst(o, k) ==
    <<"check", "act">> \o Closing(o, k) \o Due("takedown", k.shout # 0)
                       \o Telling(o, k)

(* Mutant: the parties are told before the status is written.              *)
TodoTellsFirst(o, k) ==
    <<"check">> \o Telling(o, k) \o <<"act">>
                \o Due("takedown", k.shout # 0) \o Closing(o, k)

(* The calls a judgement makes after it has read the report.               *)
Todo(o, k) ==
    <<"check", "act">> \o Due("takedown", k.shout # 0) \o Closing(o, k)
                       \o Telling(o, k)

(* A report that is missing, or of a user against themself, is refused.    *)
Begin(h, o) ==
    /\ task[h] = None
    /\ o.reportId \in Filed \cup {0}
    /\ LET k == Knows(o)
       IN /\ o.kind \in {"WARN", "BAN"} => k.reporter # k.user
          /\ task' = [task EXCEPT ![h] =
                        [ kind |-> o.kind, user |-> k.user,
                          reporter |-> k.reporter, report |-> o.reportId,
                          shout |-> k.shout, seen |-> k.seen,
                          status |-> o.status, todo |-> Todo(o, k) ]]
    /\ UNCHANGED <<status, shouts, reports, filed, done, told,
                   removed, spared, failures>>

At(h, step) == task[h] # None /\ Head(task[h].todo) = step

Ended == None

Advance(h) ==
    task' = [task EXCEPT ![h] =
                IF Len(task[h].todo) = 1 THEN Ended
                ELSE [task[h] EXCEPT !.todo = Tail(task[h].todo)]]

(* 'User is already warned', 'Cannot warn a banned user', ...              *)
Check(h) ==
    /\ At(h, "check")
    /\ IF status[task[h].user] \in Accepts(task[h].kind)
       THEN Advance(h)
       ELSE task' = [task EXCEPT ![h] = Ended]
    /\ UNCHANGED <<status, shouts, reports, filed, done, told,
                   removed, spared, failures>>

Act(h) ==
    /\ At(h, "act")
    /\ status' = [status EXCEPT ![task[h].user] = Writes(task[h].kind)]
    /\ done' = done \cup {<<task[h].user, task[h].kind>>}
    /\ spared' = IF /\ status[task[h].user] = "BANNED"
                    /\ Writes(task[h].kind) # "BANNED"
                 THEN spared \cup {task[h].user} ELSE spared
    /\ Advance(h)
    /\ UNCHANGED <<shouts, reports, filed, told, removed, failures>>

(* An update of a row that is gone throws.                                 *)
Takedown(h) ==
    /\ At(h, "takedown")
    /\ IF task[h].shout \in Posted
       THEN /\ shouts' = [shouts EXCEPT ![task[h].shout] =
                            [shouts[task[h].shout] EXCEPT
                                !.deleted_at = TRUE, !.status = "REMOVED"]]
            /\ removed' = removed \cup {<<task[h].shout, task[h].user>>}
            /\ Advance(h)
       ELSE task' = [task EXCEPT ![h] = Ended] /\ UNCHANGED <<shouts, removed>>
    /\ UNCHANGED <<status, reports, filed, done, told, spared, failures>>

Close(h) ==
    /\ At(h, "close")
    /\ IF task[h].report \in Filed
       THEN /\ reports' = [reports EXCEPT ![task[h].report] =
                            [reports[task[h].report] EXCEPT
                                !.status = task[h].status]]
            /\ Advance(h)
       ELSE task' = [task EXCEPT ![h] = Ended] /\ UNCHANGED reports
    /\ UNCHANGED <<status, shouts, filed, done, told,
                   removed, spared, failures>>

Tell(h) ==
    /\ At(h, "tell")
    /\ told' = told \cup {<<task[h].user, Notices[task[h].kind]>>}
    /\ Advance(h)
    /\ UNCHANGED <<status, shouts, reports, filed, done,
                   removed, spared, failures>>

Thank(h) ==
    /\ At(h, "thank")
    /\ told' = told \cup {<<task[h].reporter, Thanks[task[h].kind]>>}
    /\ Advance(h)
    /\ UNCHANGED <<status, shouts, reports, filed, done,
                   removed, spared, failures>>

(* Any call may throw and the process may stop: the rest is never done.    *)
Fail(h) ==
    /\ task[h] # None
    /\ failures < MaxFailures
    /\ failures' = failures + 1
    /\ task' = [task EXCEPT ![h] = Ended]
    /\ UNCHANGED <<status, shouts, reports, filed, done, told,
                   removed, spared>>

---------------------------------------------------------------------------
Judge(h) ==
    \/ \E o \in Orders : Begin(h, o)
    \/ Check(h) \/ Act(h) \/ Takedown(h) \/ Close(h) \/ Tell(h) \/ Thank(h)
    \/ Fail(h)

Complain ==
    \E u \in Users :
        \/ CreatePost(u)
        \/ \E v \in Users : ReportUser(u, v)
        \/ \E s \in 1..MaxShouts : Share(u, s) \/ ReportShout(u, s)

Tidy ==
    \/ \E s \in 1..MaxShouts :
          DeleteShout(s) \/ \E st \in ShoutEdits : UpdateShoutStatus(s, st)
    \/ \E r \in 1..MaxReports :
          RemoveReport(r) \/ \E st \in ReportEdits : UpdateReportStatus(r, st)

Next == Complain \/ Tidy \/ \E h \in Handlers : Judge(h)

Spec == Init /\ [][Next]_vars

---------------------------------------------------------------------------
(* What readers are shown who have blocked nobody *)

(* Mutant: only the author of the share is looked at.                      *)
IsHiddenShoutOwn(s) == status[shouts[s].user_id] = "BANNED"

IsHiddenShout(s) ==
    \/ status[shouts[s].user_id] = "BANNED"
    \/ /\ shouts[s].original # 0
       /\ status[shouts[shouts[s].original].user_id] = "BANNED"

FeedEntries ==
    {s \in Posted : /\ ~shouts[s].deleted_at
                    /\ shouts[s].status = "PUBLISHED"
                    /\ ~IsHiddenShout(s)}

(* A profile and the page of a shout ask for nothing else; so they show    *)
(* all that the feed shows, and more.  Each shout comes with the one it    *)
(* shares.                                                                 *)
OnPages == {s \in Posted : ~IsHiddenShout(s)}

Shown == OnPages \cup ({shouts[s].original : s \in OnPages} \ {0})

---------------------------------------------------------------------------
(* What holds however judgements interleave and wherever they fail         *)

(* "If it's a Shout Report, take down the shout content" comes before      *)
(* everything a reporter or a moderator could take for the end of the      *)
(* case: a ban that has its report to close, or parties to tell, has       *)
(* already hidden the shout, or somebody has deleted it.                   *)
HiddenBeforeClosed ==
    \A h \in Handlers :
        /\ task[h] # None
        /\ task[h].shout # 0
        /\ Head(task[h].todo) \in {"close", "tell", "thank"}
        => \/ task[h].shout \notin Posted
           \/ shouts[task[h].shout].deleted_at

(* Nobody reads "Your account has been banned" (or warned, or cleared) and *)
(* no reporter "we have taken appropriate action" unless that action       *)
(* reached the status of the user, of somebody else for the reporter.      *)
NoticesFollowActs ==
    /\ \A u \in Users, k \in DOMAIN Notices :
          <<u, Notices[k]>> \in told => <<u, k>> \in done
    /\ \A u \in Users, k \in DOMAIN Thanks :
          <<u, Thanks[k]>> \in told => \E v \in Users \ {u} : <<v, k>> \in done

(* A report in the list always has its shout: the reports page reads       *)
(* report.shout.user_id without asking.                                    *)
ReportsHaveSubjects ==
    \A r \in Filed : reports[r].type = "SHOUT" => reports[r].subject \in Posted

(* isHiddenShout keeps the feed, the profiles and the page of a shout from *)
(* showing what a ban took down, its shares included, as long as the ban   *)
(* of its author stands; a share embeds the original whatever its          *)
(* deleted_at and status are, so nothing else does.  Once the ban has been *)
(* written over, the shout is shown in its shares again, but it is never   *)
(* an entry of the feed of its own again, whatever status it is given.     *)
TakedownHoldsWithTheBan ==
    \A r \in removed :
        r[1] \in Posted =>
            /\ r[1] \notin FeedEntries
            /\ r[1] \in Shown /\ shouts[r[1]].user_id = r[2] => r[2] \in spared

---------------------------------------------------------------------------
(* What the code says of itself and does not do                            *)

(* reports.service.ts: 'Cannot warn a banned user', 'User is not banned':  *)
(* a judgement changes a status only from one its check accepts.           *)
JudgementsFollowTheirChecks ==
    [][\A u \in Users : status'[u] # status[u] =>
          \E h \in Handlers : /\ At(h, "act")
                              /\ task[h].user = u
                              /\ status[u] \in Accepts(task[h].kind)]_vars

(* "User reported successfully": whoever is judged by a user report was    *)
(* reported by somebody.                                                   *)
ReportsNameTheReported ==
    \A r \in Filed : reports[r].type = "USER" =>
        \E caller \in Users : <<caller, Accused(r)>> \in filed

(* "take down the shout content": what was taken down is not shown.        *)
TakenDownIsNotShown == \A s \in Shown : ~shouts[s].deleted_at
=============================================================================
