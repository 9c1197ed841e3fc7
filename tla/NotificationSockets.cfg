SPECIFICATION Spec
CONSTANTS
    u1 = u1
    u2 = u2
    d1 = d1
    d2 = d2
    s1 = s1
    h1 = h1
    None = None
    Users = {u1, u2}
    Devices = {d1}
    Removable = {d1}
    Sockets = {s1}
    Handlers = {h1}
    MaxRows = 2
    MaxFailures = 1
PROPERTIES
    SocketsAreNotified
CHECK_DEADLOCK FALSE
