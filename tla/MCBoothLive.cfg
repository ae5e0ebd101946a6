\* A video whose booth has no token when it records.
SPECIFICATION FairSpec
CONSTANTS
    o1 = o1
    e1 = e1
    t1 = t1
    t2 = t2
    v1 = v1
    k1 = k1
    Videos = {v1}
    Tokens = {t1, t2}
    Cut = Cut
    Whole = Whole
    NoFile = NoFile
    NoRow = NoRow
    NoToken = NoToken
    Pools <- NoPools
    PhoneFaults = {}
    Owner = o1
    KeyOf <- MCKeyOf
    SizeOf <- MCSizeOf
    ShaOf <- MCShaOf
    Operators = {o1}
    Events = {e1}
    Keys = {k1}
    OwnerOf <- MCOwnerOf
    EventOf <- MCEventOf
    Quota <- MCQuota
    Requests <- MCRequests
    Bodies <- MCBodies
    Mp4Heads = {"head"}
    PartSize = 2
    NoVideo = NoVideo
    NoRequest = NoRequest
    NoPart = NoPart
    Faults = {}
    MayExpire = FALSE
    MayRefuse = TRUE
PROPERTIES
    RecordingsArrive
CHECK_DEADLOCK FALSE
