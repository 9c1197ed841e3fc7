SPECIFICATION Spec
CONSTANTS
    a1 = a1
    a2 = a2
    g1 = g1
    p1 = p1
    h1 = h1
    h2 = h2
    None = None
    Unreachable = Unreachable
    Addresses = {a1, a2}
    Subjects = {p1}
    Provider <- MCProvider
    Handlers = {h1, h2}
    Kinds <- AllKinds
    Settled <- Resident
    MaxAccounts = 2
    MaxCalls = 3
    MaxFailures = 1

SYMMETRY HandlerSymmetry
INVARIANTS
    TypeOK
    MisaddressedCodesOpenProvedAddresses
    UsedCodesDie
PROPERTIES
    ImplementsIdentity

CHECK_DEADLOCK FALSE
