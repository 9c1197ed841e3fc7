SPECIFICATION FairSpec
CONSTANTS
    u1 = u1
    u2 = u2
    anon = anon
    month = month
    r1 = r1
    w1 = w1
    None = None
    Addresses = {}
    Users = {u1, u2}
    Strangers = {anon}
    Plans = {month}
    PlanType <- PaidPlanType
    Refs = {r1}
    Workers = {w1}
    Requests <- SerialRequests
    SubscriptionRequired = TRUE
    MaxDuplicates = 1
    MaxFailures = 1
INVARIANTS
    TypeOK
    OneRowPerUser
    TransferSourceRetired
    SyncAnswersTheTruth
PROPERTIES
    ImplementsEntitlement
    EveryEventIsAnswered
CHECK_DEADLOCK FALSE
