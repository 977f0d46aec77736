SPECIFICATION Spec
CONSTANTS
    Label <- MCLabel
    LabelBytes <- MCLabelBytes
    MaxLabels = 60
    MaxReply = 512
    Datagram <- MCDatagram
    Stale <- MCStale
    QdCount = {1, 2, 60}
    Answer <- MCAnswer
    MaxRecords = 3
INVARIANTS
    TypeOK
    NamesReadBack
    RecordsFramed
    StartsReadable
    KnownNamesShared
    QuestionKept
    StaleIgnored
