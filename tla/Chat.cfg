SPECIFICATION Spec
CONSTANTS
    u1 = u1
    u2 = u2
    s1 = s1
    s2 = s2
    s3 = s3
    h1 = h1
    h2 = h2
    r1 = r1
    None = None
    Users = {u1, u2}
    Sockets = {s1, s2, s3}
    Handlers = {h1, h2}
    Recordings = {r1}
    MaxEvents = 6
    MaxFailures = 1
SYMMETRY Symmetry
INVARIANTS
    TypeOK
    RegistryIsTheLatestSocket
    PresenceFollowsRegistry
    StoredIsAnnounced
    RecordingsKeepEveryChunk
CHECK_DEADLOCK FALSE
