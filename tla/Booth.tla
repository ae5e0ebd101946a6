-------------------------------- MODULE Booth --------------------------------
(***************************************************************************)
(* The booth and the server together: module Capture, with                 *)
(* SyncRepository.upload and UploadWorker calling the operations of module *)
(* Uploads.  A call may be answered, refused (4xx), or end in an exception *)
(* on the phone, whether the server did what it was asked or not.          *)
(***************************************************************************)
EXTENDS Capture, PartLayout, FiniteSetsExt

CONSTANTS
    Owner,          \* the operator the booth is logged in as
    KeyOf,          \* "android:${video.id}"
    SizeOf, ShaOf,  \* size and digest of what a file may hold
    Operators, Events, Keys, OwnerOf, EventOf, Quota, Requests, Bodies,
    Mp4Heads, NoRequest, NoPart,
    Faults,         \* of the server
    MayExpire,      \* whether a session may outlive its expires_at
    MayRefuse       \* whether the account may be without membership or plan

VARIABLES
    session, parts, video, token, openEvents, partFile, videoFile, hooks,
    queue, reply,   \* the server: see module Uploads
    known           \* the UploadTask row of a video has its uploadId

serverVars == <<session, parts, video, token, openEvents, partFile, videoFile,
                hooks, queue, reply>>
vars == <<captureVars, serverVars, known>>

Server == INSTANCE Uploads

\* The body of POST /uploads/ for a video whose final file holds c.
RequestFor(v, t, c) ==
    [operator |-> Owner, key |-> KeyOf[v], video |-> v, event |-> EventOf[t],
     token |-> t, size |-> SizeOf[c], sha |-> ShaOf[c]]

ASSUME BoothAssumption ==
    /\ KeyOf \in [Videos -> Keys]
    /\ \A v, w \in Videos : KeyOf[v] = KeyOf[w] => v = w
    /\ {MayExpire, MayRefuse} \subseteq BOOLEAN
    /\ \A v \in Videos, t \in Tokens, c \in {Cut, Whole} :
          RequestFor(v, t, c) \in Requests
    /\ \A c \in {Cut, Whole} : \A n \in PartNumbers(SizeOf[c]) :
          [size |-> ExpectedPartSize(n, SizeOf[c]), tag |-> ShaOf[c][n]]
              \in Bodies
    /\ ShaOf[Cut] # ShaOf[Whole]
    /\ Owner \in Operators
    /\ NoRow \notin LocalVideo

ASSUME ServerAssumption == Server!UploadsAssumption

\* The one session a video has: its key never changes.
SessionOf(v) == <<Owner, KeyOf[v]>>

Init ==
    /\ CaptureInit
    /\ Server!Init
    /\ known = [v \in Videos |-> FALSE]

-----------------------------------------------------------------------------
(***************************************************************************)
(* The server's side of a call: what the operations of Uploads do, or      *)
(* nothing when the call was made before.                                  *)
(***************************************************************************)
\* POST /uploads/.
CallCreate(r) ==
    \/ session[<<Owner, r.key>>].req = r /\ UNCHANGED serverVars
    \/ Server!CreateUploadSession(r)

\* Refused for good: the key came with another request before, or a first
\* creation finds its event gone, its token or its video taken, or the plan
\* full.
KeyConflicts(r) == session[<<Owner, r.key>>].req \notin {NoRequest, r}

Admitted(r) ==
    /\ r.event \in openEvents /\ OwnerOf[r.event] = r.operator
    /\ Server!TokenAccepts(r)
    /\ Server!VideoAccepts(r)
    /\ Server!NoLiveSession(r.video)
    /\ Server!FitsQuota(r)

CreateRefused(r) ==
    \/ KeyConflicts(r)
    \/ session[<<Owner, r.key>>].status = "NONE" /\ ~Admitted(r)

\* PUT parts/{n}/.
CallPart(s, n, b) ==
    \/ Server!Active(s) /\ Server!PartInPlace(s, n) /\ UNCHANGED serverVars
    \/ Server!StoreUploadPart(s, n, b)

PartRefused(s) == ~Server!Active(s) \/ session[s].lapsed

\* POST complete/.
CallComplete(s) ==
    \/ Server!CompleteUploadSession(s)
    \/ Server!CompleteAgain(s)

CompleteRefused(s) == ~Server!Active(s) /\ session[s].status # "COMPLETED"

-----------------------------------------------------------------------------
(***************************************************************************)
(* UploadWorker and SyncRepository.upload.                                 *)
(***************************************************************************)
phoneVars == <<row, tokensVars, filesVars, app, capt, repair, proc, cleaner>>
callVars == <<serverVars, known>>

UplTo(v, pc) == upl' = [upl EXCEPT ![v].pc = pc]
UplEnds(v) == upl' = [upl EXCEPT ![v] = UploadResting]

\* An exception: noteRetry reads the row it will write.
UplThrows(v, pc) ==
    upl' = [upl EXCEPT ![v] = [pc |-> pc, copy |-> row[v], todo |-> {}]]

\* The request and the part the worker would send now.
CurrentRequest(v) == RequestFor(v, upl[v].copy.token, final[v])
NextPart(v) == Min(upl[v].todo)
Body(v, n) ==
    [size |-> ExpectedPartSize(n, SizeOf[final[v]]), tag |-> ShaOf[final[v]][n]]

UploadReads(v) ==
    LET found == row[v].final /\ final[v] # NoFile
        pc == IF ~found THEN "missing"
              ELSE IF row[v].token = NoToken THEN "reserving" ELSE "marking"
    IN
    /\ upl[v].pc = "enqueued"
    /\ upl' = [upl EXCEPT ![v] = [pc |-> pc, copy |-> row[v], todo |-> {}]]
    /\ UNCHANGED <<phoneVars, callVars>>

\* failUpload.
UploadMissesFile(v) ==
    /\ upl[v].pc = "missing"
    /\ SetRow(v, [upl[v].copy EXCEPT !.upload = "FAILED"])
    /\ UplEnds(v)
    /\ UNCHANGED <<tokensVars, filesVars, app, capt, repair, proc, cleaner,
                   callVars>>

\* What reserve_tokens may answer: a token that was not reserved before.
\* The tokens of Pools are reserved when the event is created.
NewTokens ==
    {t \in Tokens \ UNION Pools : t \notin shelf /\ assigned[t] = NoVideo}

\* One more token, and claim takes any that is AVAILABLE.
UploadReserves(v) ==
    LET available == shelf \cup {CHOOSE t \in NewTokens : TRUE} IN
    /\ upl[v].pc = "reserving"
    /\ NewTokens # {}
    /\ \E t \in available :
          /\ Claims(v, t, available)
          /\ SetRow(v, [upl[v].copy EXCEPT !.token = t])
          /\ upl' = [upl EXCEPT ![v].pc = "marking", ![v].copy.token = t]
    /\ UNCHANGED <<filesVars, app, capt, repair, proc, cleaner, callVars>>

UploadMarks(v) ==
    /\ upl[v].pc = "marking"
    /\ SetRow(v, [upl[v].copy EXCEPT !.upload = "UPLOADING"])
    /\ UplTo(v, "opening")
    /\ UNCHANGED <<tokensVars, filesVars, app, capt, repair, proc, cleaner,
                   callVars>>

\* Mutation of MissingParts: one part too many.
PartsUpToCount(v, received) ==
    (0 .. PartCount(SizeOf[final[v]])) \ received

\* missingPartNumbers.
MissingParts(v, received) == PartNumbers(SizeOf[final[v]]) \ received

\* GET uploads/{id}/ with the saved id, or POST uploads/: the answer has the
\* parts the server has, and the id is saved.
UploadOpens(v) ==
    LET s == SessionOf(v) IN
    /\ upl[v].pc = "opening"
    /\ final[v] # NoFile
    /\ IF known[v] THEN UNCHANGED serverVars ELSE CallCreate(CurrentRequest(v))
    /\ upl' = [upl EXCEPT ![v].pc = "sending",
                          ![v].todo = MissingParts(v, Server!Received(s))]
    /\ known' = [known EXCEPT ![v] = TRUE]
    /\ UNCHANGED phoneVars

UploadSendsPart(v) ==
    /\ upl[v].pc = "sending"
    /\ upl[v].todo # {}
    /\ final[v] # NoFile
    /\ CallPart(SessionOf(v), NextPart(v), Body(v, NextPart(v)))
    /\ upl' = [upl EXCEPT ![v].todo = @ \ {NextPart(v)}]
    /\ UNCHANGED <<phoneVars, known>>

\* The server answers only when the callbacks of its commit have run.
UploadCompletes(v) ==
    /\ upl[v].pc = "sending"
    /\ upl[v].todo = {}
    /\ CallComplete(SessionOf(v))
    /\ UplTo(v, "waiting")
    /\ UNCHANGED <<phoneVars, known>>

\* Mutation of UploadSaves: the answer of complete is not awaited.
UploadSavesAtOnce(v) ==
    /\ upl[v].pc \in {"sending", "waiting"}
    /\ SetRow(v, [upl[v].copy EXCEPT !.upload = "UPLOADED",
                                     !.uploadedAt = TRUE])
    /\ UplTo(v, "succeeded")
    /\ UNCHANGED <<tokensVars, filesVars, app, capt, repair, proc, cleaner,
                   callVars>>

UploadSaves(v) ==
    /\ upl[v].pc = "waiting"
    /\ reply[SessionOf(v)] = "completed"
    /\ SetRow(v, [upl[v].copy EXCEPT !.upload = "UPLOADED",
                                     !.uploadedAt = TRUE])
    /\ UplTo(v, "succeeded")
    /\ UNCHANGED <<tokensVars, filesVars, app, capt, repair, proc, cleaner,
                   callVars>>

UploadSucceeds(v) ==
    /\ upl[v].pc = "succeeded"
    /\ UplEnds(v)
    /\ UNCHANGED <<phoneVars, callVars>>

\* The call the worker is making, which the server may receive although no
\* answer comes back.
CurrentCall(v) ==
    /\ final[v] # NoFile
    /\ \/ upl[v].pc = "opening" /\ ~known[v] /\ CallCreate(CurrentRequest(v))
       \/ /\ upl[v].pc = "sending"
          /\ upl[v].todo # {}
          /\ CallPart(SessionOf(v), NextPart(v), Body(v, NextPart(v)))
       \/ /\ upl[v].pc = "sending"
          /\ upl[v].todo = {}
          /\ CallComplete(SessionOf(v))

\* No answer, an answer of the 5xx kind, or a local file that is gone.
UploadInterrupted(v) ==
    /\ upl[v].pc \in {"reserving", "opening", "sending", "waiting"}
    /\ CurrentCall(v) \/ UNCHANGED serverVars
    /\ UplThrows(v, "retrying")
    /\ UNCHANGED <<phoneVars, known>>

\* A 4xx answer.  Any call is refused to an account without an active
\* membership, and reserve_tokens and a first creation to one without a
\* subscription; neither reaches the server's rows.
UploadRefused(v) ==
    LET s == SessionOf(v) IN
    /\ \/ upl[v].pc = "reserving" /\ MayRefuse
       \/ /\ upl[v].pc = "opening"
          /\ final[v] # NoFile
          /\ MayRefuse \/ (~known[v] /\ CreateRefused(CurrentRequest(v)))
       \/ /\ upl[v].pc = "sending"
          /\ upl[v].todo # {} /\ final[v] # NoFile
          /\ MayRefuse \/ PartRefused(s)
       \/ /\ upl[v].pc = "sending"
          /\ upl[v].todo = {}
          /\ MayRefuse \/ CompleteRefused(s)
    /\ UplThrows(v, "refused")
    /\ UNCHANGED <<phoneVars, callVars>>

\* noteRetry, then Result.retry, or Result.failure after a refusal.
UploadNotes(v) ==
    /\ upl[v].pc \in {"retrying", "refused"}
    /\ SetRow(v, upl[v].copy)
    /\ upl' = [upl EXCEPT ![v] = IF upl[v].pc = "retrying"
                                   THEN UploadEnqueued ELSE UploadResting]
    /\ UNCHANGED <<tokensVars, filesVars, app, capt, repair, proc, cleaner,
                   callVars>>

-----------------------------------------------------------------------------
(***************************************************************************)
(* The server on its own.  That an event is gone is noticed only when a    *)
(* session is created: once every video has one it changes nothing here.   *)
(***************************************************************************)
ServerStep ==
    /\ \/ \E h \in hooks : Server!RunHooks(h)
       \/ /\ \E v \in Videos : session[SessionOf(v)].status = "NONE"
          /\ \E e \in Events : Server!DestroyEvent(e)
       \/ /\ MayExpire
          /\ \E v \in Videos : \/ Server!Lapse(SessionOf(v))
                               \/ Server!CleanupExpired(SessionOf(v))
    /\ UNCHANGED <<captureVars, known>>

UploadStep(v) ==
    \/ UploadReads(v)
    \/ UploadMissesFile(v)
    \/ UploadReserves(v)
    \/ UploadMarks(v)
    \/ UploadOpens(v)
    \/ UploadSendsPart(v)
    \/ UploadCompletes(v)
    \/ UploadSaves(v)
    \/ UploadSucceeds(v)
    \/ UploadInterrupted(v)
    \/ UploadRefused(v)
    \/ UploadNotes(v)

Next ==
    \/ CaptureNext /\ UNCHANGED callVars
    \/ \E v \in Videos : UploadStep(v)
    \/ ServerStep

Spec == Init /\ [][Next]_vars
=============================================================================
