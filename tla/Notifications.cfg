SPECIFICATION Spec
CONSTANTS
    u1 = u1
    u2 = u2
    d1 = d1
    d2 = d2
    s1 = s1
    h1 = h1
    None = None
    Users = {u1, u2}
    Devices = {d1, d2}
    Removable = {d2}
    Sockets = {s1}
    Handlers = {h1}
    MaxRows = 1
    MaxFailures = 1
INVARIANTS
    TypeOK
    PushesFollowRegistration
PROPERTIES
    OnlyBadPayloadsCostDevices
    NotificationsReachDevices
CHECK_DEADLOCK FALSE
