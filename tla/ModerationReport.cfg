SPECIFICATION Spec
CONSTANTS
    u1 = u1
    u2 = u2
    h1 = h1
    h2 = h2
    None = None
    Users = {u1, u2}
    Handlers = {h1}
    Orders <- AllOrders
    ShoutEdits = {"PUBLISHED"}
    ReportEdits = {"RESOLVED"}
    MaxShouts = 1
    MaxReports = 1
    MaxFailures = 0
INVARIANTS
    ReportsNameTheReported
CHECK_DEADLOCK FALSE
