SPECIFICATION Spec
CONSTANTS
    u1 = u1
    u2 = u2
    u3 = u3
    p1 = p1
    p2 = p2
    h1 = h1
    None = None
    Users = {u1, u2, u3}
    Places = {p1, p2}
    Allowed = {p1}
    Near <- OneTown
    Home = p1
    Handlers = {h1}
    FetchCap = 2
    MaxShouts = 3
    MaxComments = 2
    MaxEvents = 4
    MaxFailures = 1
SYMMETRY Symmetry
INVARIANTS
    TypeOK
    NoticesRespectBlocks
    PagesSkipNothing
    NoCommentIsLost
CHECK_DEADLOCK FALSE
