SPECIFICATION Spec
CONSTANTS
    u1 = u1
    u2 = u2
    h1 = h1
    h2 = h2
    None = None
    Users = {u1, u2}
    Handlers = {h1, h2}
    Orders <- SomeOrders
    ShoutEdits = {"PUBLISHED"}
    ReportEdits = {"RESOLVED"}
    MaxShouts = 2
    MaxReports = 1
    MaxFailures = 1
SYMMETRY HandlerSymmetry
INVARIANTS
    TypeOK
    HiddenBeforeClosed
    NoticesFollowActs
    ReportsHaveSubjects
    TakedownHoldsWithTheBan
CHECK_DEADLOCK FALSE
