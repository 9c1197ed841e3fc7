---------------------------- MODULE MCModeration ----------------------------
(* Small instances of Moderation: an author, a reader, one or two shouts   *)
(* and the judgements that name them.                                      *)
EXTENDS Moderation, TLC

CONSTANTS u1, u2, h1, h2

ByReport(kind, typed, st) ==
    [ kind |-> kind, reportId |-> 1, reportedId |-> typed,
      reporterId |-> None, status |-> st ]

ByHand(kind, u, reporter) ==
    [ kind |-> kind, reportId |-> 0, reportedId |-> u,
      reporterId |-> reporter, status |-> None ]

AllOrders ==
    { ByReport("WARN", None, "REVIEWED"), ByReport("BAN", None, "RESOLVED"),
      ByHand("BAN", u1, None), ByHand("WARN", u1, u2) }
    \cup { ByHand(k, u1, None) : k \in Kinds \ {"WARN", "BAN"} }

(* A ban that follows a report, a warning by hand that names a reporter,   *)
(* and the end of the ban.                                                 *)
SomeOrders ==
    { ByReport("BAN", None, "RESOLVED"), ByHand("WARN", u1, u2),
      ByHand("UNBAN", u1, None) }

HandlerSymmetry == Permutations(Handlers)
=============================================================================
