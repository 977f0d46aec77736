SPECIFICATION Spec
CONSTANTS
    Label <- MCLabel
    LabelBytes <- MCLabelBytes
    MaxLabels = 60
    MaxReply = 512
    Datagram <- MCDatagram
    Stale <- MCStale
    QdCount = {1, 2, 60}
    Answer <- MCAnswerJson
    MaxRecords = 3
INVARIANT
    SoaReadsAsMeant
