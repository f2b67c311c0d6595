CONSTANTS
    OldUrl = OldUrl
    NewUrl = NewUrl
    OldHost = OldHost
    NewHost = NewHost
    Urls = {OldUrl, NewUrl}
    Hosts = {OldHost, NewHost}
    HostOf <- MCHostOf
    Tokens = {t1, t2}
    Clients = {c1, c2}
    Operators = {o1}
    None = None
    Overlap = 2
    MaxChanges = 4
SPECIFICATION Spec
SYMMETRY Symmetric
INVARIANTS
    PushedToVerified
    EndpointWasPublished
PROPERTY PinHolds
CHECK_DEADLOCK FALSE
