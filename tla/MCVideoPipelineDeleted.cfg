\* A deletion beside an upload and a preparation.
SPECIFICATION PipelineSpec
CONSTANTS
    o1 = o1
    e1 = e1
    t1 = t1
    t2 = t2
    v1 = v1
    v2 = v2
    k1 = k1
    k2 = k2
    w1 = w1
    w2 = w2
    Operators = {o1}
    Events = {e1}
    Tokens = {t1, t2}
    Videos = {v1}
    Keys = {k1, k2}
    OwnerOf <- MCOwnerOf
    EventOf <- MCEventOf
    Quota <- MCQuota
    Requests <- OneVideoTwice
    Bodies <- MCBodies
    Mp4Heads = {"head"}
    PartSize = 2
    NoVideo = NoVideo
    NoRequest = NoRequest
    NoPart = NoPart
    NoFile = NoFile
    Faults = {}
    Workers = {w1, w2}
    MaxRetries = 1
    MaxMessages = 2
    MaxLosses = 1
    MaxDeletions = 1
    Idle = Idle
    Schedule = {"delete"}
    WorkerFaults = {}
PROPERTIES
    DeletedVideosStayDeleted
CHECK_DEADLOCK FALSE
