SPECIFICATION Spec
CONSTANTS
    u1 = u1
    u2 = u2
    trial = trial
    month = month
    r1 = r1
    w1 = w1
    c1 = c1
    q1 = q1
    a1 = a1
    a2 = a2
    a3 = a3
    None = None
    Users = {u1, u2}
    Strangers = {}
    Plans = {month}
    PlanType <- MCPlanType
    PlanInterval <- MCPlanInterval
    PlanCount <- MCPlanCount
    Priced = {month}
    Coded = {month}
    Refs = {r1}
    Workers = {w1}
    Requests <- StoreRequests
    SubscriptionRequired = TRUE
    MaxDuplicates = 0
    MaxFailures = 0
    Callers = {c1}
    MonthDays = 1
    TrialDays = 0
    MaxDay = 1
    Addresses = {a1, a2}
    MaxMoves = 0
    MaxMishaps = 0
    Readers = {q1}
    GraceDays = 0
SYMMETRY Symmetry
INVARIANTS
    ActiveRowsAreLive
    LinkedToOwnRow
    NoMoneyWithoutSubscription
    PaymentsHaveASource
PROPERTIES
    OnlyGiftsAndChargesWakeRows
CHECK_DEADLOCK FALSE
