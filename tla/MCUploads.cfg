\* Every fault.
SPECIFICATION Spec
CONSTANTS
    o1 = o1
    o2 = o2
    e1 = e1
    e2 = e2
    t1 = t1
    t2 = t2
    t3 = t3
    v1 = v1
    v2 = v2
    k1 = k1
    k2 = k2
    Operators = {o1, o2}
    Events = {e1, e2}
    Tokens = {t1, t2, t3}
    Videos = {v1, v2}
    Keys = {k1, k2}
    OwnerOf <- MCOwnerOf
    EventOf <- MCEventOf
    Quota <- MCQuota
    Requests <- MCRequests
    Bodies <- MCBodies
    Mp4Heads = {"head"}
    PartSize = 2
    NoVideo = NoVideo
    NoRequest = NoRequest
    NoPart = NoPart
    NoFile = NoFile
    Faults = {"crash", "broker", "disk"}
INVARIANTS
    TypeOK
    OneActiveSession
    StoredVideosAreVerified
    CompletedAnswersAreTrue
    ConfirmedPartsAreOnDisk
    ConfirmedUploadsCompose
    TokensBindOneVideo
    QuotaRespected
    UploadingVideosAreHeld
PROPERTIES
    SessionsStayClosed
    ConfirmedPartsAreKept
    ImplementsLibrary
CHECK_DEADLOCK FALSE
