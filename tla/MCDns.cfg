SPECIFICATION Spec
CONSTANTS
    vIp = vIp
    vTwo = vTwo
    vHost = vHost
    vInner = vInner
    vAlias = vAlias
    vText = vText
    vFull = vFull
    Label <- MCLabel
    Name <- MCName
    Value = {vIp, vTwo, vHost, vInner, vAlias, vText, vFull}
    NoZone = NoZone
    NoSoa = NoSoa
    Dangling = Dangling
    SerialMod = 8
    Items <- MCItems
    StoredImage <- MCStored
    Edit <- MCEdit
    Query <- MCQuery
    HeaderSize = 1
    MaxReply = 8
    RecordSize = {2}
    Faults = {"receive", "send"}
    MaxQueries = 2
    MaxCommits = 2
    MaxResets = 1
INVARIANTS
    TypeOK
    WireSound
    AuthorityIsEarned
    AddressesFollowCname
    UndisturbedReply
    RequestsCounted
PROPERTY
    QueriesEnd
