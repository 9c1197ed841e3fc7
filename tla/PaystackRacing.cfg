SPECIFICATION Spec
CONSTANTS
    u1 = u1
    u2 = u2
    trial = trial
    month = month
    r1 = r1
    r2 = r2
    c1 = c1
    c2 = c2
    a1 = a1
    a2 = a2
    a3 = a3
    None = None
    Users = {u1, u2}
    Plans = {month}
    PlanType <- MCPlanType
    PlanInterval <- MCPlanInterval
    PlanCount <- MCPlanCount
    Priced <- MCPriced
    Coded <- MCCoded
    Refs = {r1, r2}
    Callers = {c1}
    MonthDays = 1
    TrialDays = 1
    MaxDay = 0
    Addresses = {a1, a2, a3}
    MaxMoves = 2
    MaxMishaps = 1
SYMMETRY Symmetry
INVARIANTS
    TypeOK
    PaymentsWereCharged
    CodeOfAddress
CHECK_DEADLOCK FALSE
