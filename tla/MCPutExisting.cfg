SPECIFICATION Spec
CONSTANTS
    v1 = v1
    v2 = v2
    Label <- MCLabel
    Name <- MCName
    Value = {v1, v2}
    NoZone = NoZone
    NoSoa = NoSoa
    Dangling = Dangling
    SerialMod = 8
    Worker = {w1}
    NoWorker = NoWorker
    StoredImage <- MCStored
    Faults = {}
    Request <- MCRequest
    MaxRequests = 2
PROPERTY
    PutModifiesExisting
