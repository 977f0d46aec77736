SPECIFICATION Spec
CONSTANTS
    vIp = vIp
    vTwo = vTwo
    vHost = vHost
    vInner = vInner
    vAlias = vAlias
    vText = vText
    vFull = vFull
    Label <- MCLabel
    Name <- MCName
    Value = {vIp, vTwo, vHost, vInner, vAlias, vText, vFull}
    NoZone = NoZone
    NoSoa = NoSoa
    Dangling = Dangling
    SerialMod = 8
    Items <- MCItems
    StoredImage <- MCFullStored
    Edit <- MCEdit
    Query <- MCMailQuery
    HeaderSize = 1
    MaxReply = 8
    RecordSize = {2}
    Faults = {}
    MaxQueries = 1
    MaxCommits = 0
    MaxResets = 0
INVARIANT
    EveryQuestionAnswered
