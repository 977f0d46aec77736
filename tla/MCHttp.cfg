SPECIFICATION Spec
CONSTANTS
    c1 = c1
    c2 = c2
    Conn = {c1, c2}
    Users <- MCUsers
    Header <- MCHeader
    TlsChoice = {TRUE, FALSE}
    MaxErrors = 2
    IntMod = 1048576
    MaxRequests = 2
INVARIANTS
    TypeOK
    ConnectionHeaderKept
    EveryRequestAnswered
    AuthorizedExactly
PROPERTIES
    GivesUpAfterRow
    SessionsEnd
    ConnectionsServed
