------------------------------- MODULE Uploads -------------------------------
(***************************************************************************)
(* Resumable uploads of the backend: backend/apps/uploads/services.py and  *)
(* backend/apps/uploads/tasks.py, with the rows of UploadSession,          *)
(* UploadPart, Video and ReservedVideoToken they write and the files the   *)
(* storage provider keeps.                                                 *)
(*                                                                         *)
(* create_upload_session locks the operator row, every other operation     *)
(* locks the session row together with its video row, so each database     *)
(* transaction is one action.  Files are not part of the transaction: a    *)
(* file written or removed stays so when the transaction is rolled back,   *)
(* and transaction.on_commit callbacks run after the commit, or never.     *)
(***************************************************************************)
EXTENDS PartLayout, FiniteSets, FiniteSetsExt

CONSTANTS
    Operators, Events, Tokens, Videos, Keys,
    OwnerOf,        \* Event.operator
    EventOf,        \* ReservedVideoToken.event
    Quota,          \* subscription.plan.max_storage_bytes of an operator
    Requests,       \* the bodies POST /uploads/ may be called with
    Bodies,         \* the bodies PUT parts/<n>/ may be called with
    Mp4Heads,       \* tags of first parts with "ftyp" at bytes 4 to 8
    NoVideo, NoRequest, NoPart, NoFile,
    Faults          \* what may go wrong: "crash", "broker", "disk"

(***************************************************************************)
(* A body is its size and a tag standing for its bytes; the SHA-256 of a   *)
(* body is its tag and that of an upload the function from part numbers to *)
(* tags (no collisions).                                                   *)
(***************************************************************************)
Tags == {b.tag : b \in Bodies}

ASSUME UploadsAssumption ==
    /\ OwnerOf \in [Events -> Operators]
    /\ EventOf \in [Tokens -> Events]
    /\ Quota \in [Operators -> Nat]
    /\ \A r \in Requests :
          /\ r.operator \in Operators
          /\ r.key \in Keys
          /\ r.video \in Videos
          /\ r.event \in Events
          /\ r.token \in Tokens
          /\ r.size \in Nat \ {0}
    /\ \A b \in Bodies : b.size \in Nat \ {0}
    /\ NoVideo \notin Videos
    /\ NoRequest \notin Requests
    /\ NoFile \notin Bodies
    /\ \A r \in Requests : NoFile # r.sha
    /\ Faults \subseteq {"crash", "broker", "disk"}

\* A session is identified by (operator, idempotency_key), which is unique.
Sessions == Operators \X Keys

AllPartNumbers == UNION {PartNumbers(r.size) : r \in Requests}

ActiveStatuses == {"CREATED", "RECEIVING", "VERIFYING"}
SessionStatuses ==
    ActiveStatuses \cup {"NONE", "COMPLETED", "FAILED", "ABORTED", "EXPIRED"}
VideoStatuses ==
    {"NONE", "PENDING_UPLOAD", "UPLOADING", "VERIFYING", "UPLOADED",
     "PROCESSING", "READY", "FAILED", "CORRUPT", "EXPIRED",
     "PENDING_DELETE", "DELETED"}
TokenStatuses == {"AVAILABLE", "ASSIGNED", "READY", "EXPIRED"}

\* Mutation of PartRow: parts counted from one.
PartRowFromOne(n, b, r) ==
    [offset |-> PartOffset(n - 1, r.size), size |-> b.size, sha |-> b.tag]

\* The row of a part that is in place.
PartRow(n, b, r) ==
    [offset |-> PartOffset(n, r.size), size |-> b.size, sha |-> b.tag]

VARIABLES
    session,    \* session row; status NONE when there is none
    parts,      \* parts[s][n]: the UploadPart row or NoPart
    video,      \* video row; status NONE when there is none
    token,      \* reserved token rows
    openEvents, \* events whose status still admits videos
    partFile,   \* partFile[s][n]: temporary/{session}/parts/{n}
    videoFile,  \* operators/.../videos/{video}.mp4
    hooks,      \* on_commit callbacks of committed transactions, not yet run
    queue,      \* prepare_public_video messages in the broker, by video
    reply       \* the last answer of complete a client received

rows == <<session, parts, video, token, openEvents>>
files == <<partFile, videoFile>>
vars == <<rows, files, hooks, queue, reply>>

Active(s) == session[s].status \in ActiveStatuses
SessionsOf(v) ==
    {s \in Sessions : session[s].status # "NONE" /\ session[s].req.video = v}
Received(s) == {n \in AllPartNumbers : parts[s][n] # NoPart}

\* Mutation of OnCommit: the first part is forgotten.
OnCommitWithoutFirst(s, prepare) ==
    [session |-> s, parts |-> Received(s) \ {0}, prepare |-> prepare]

\* The callbacks a transaction registers: delete the files of the session's
\* parts, then, after a completion, enqueue prepare_public_video.
OnCommit(s, prepare) ==
    [session |-> s, parts |-> Received(s), prepare |-> prepare]

Init ==
    /\ session = [s \in Sessions |->
                    [status |-> "NONE", req |-> NoRequest, lapsed |-> FALSE]]
    /\ parts = [s \in Sessions |-> [n \in AllPartNumbers |-> NoPart]]
    /\ video = [v \in Videos |->
                    [status |-> "NONE", req |-> NoRequest, stored |-> FALSE]]
    /\ token = [t \in Tokens |->
                    [status |-> "AVAILABLE", assigned |-> NoVideo]]
    /\ openEvents = Events
    /\ partFile = [s \in Sessions |-> [n \in AllPartNumbers |-> NoFile]]
    /\ videoFile = [v \in Videos |-> NoFile]
    /\ hooks = {}
    /\ queue = [v \in Videos |-> 0]
    /\ reply = [s \in Sessions |-> "none"]

-----------------------------------------------------------------------------
(***************************************************************************)
(* create_upload_session.                                                  *)
(***************************************************************************)
UsedBytes(o) ==
    MapThenSumSet(LAMBDA v : video[v].req.size,
                  {v \in Videos : /\ video[v].status \notin {"NONE", "DELETED"}
                                  /\ video[v].req.operator = o})

\* A stored video and a request that agree on what a video is.
SameVideo(old, r) ==
    /\ old.operator = r.operator
    /\ old.event = r.event
    /\ old.size = r.size
    /\ old.sha = r.sha
    /\ old.token = r.token

\* Mutation of TokenAccepts: the assignment is not looked at.
TokenOfEvent(r) == EventOf[r.token] = r.event

TokenAccepts(r) ==
    /\ EventOf[r.token] = r.event
    /\ token[r.token].assigned \in {NoVideo, r.video}

VideoAccepts(r) ==
    video[r.video].status # "NONE" =>
        /\ SameVideo(video[r.video].req, r)
        /\ video[r.video].status \notin {"UPLOADED", "PROCESSING", "READY"}

\* Mutation of NoLiveSession: a session without parts is overlooked.
NoLiveReceivingSession(v) ==
    \A s \in SessionsOf(v) :
        session[s].status = "RECEIVING" => session[s].lapsed

NoLiveSession(v) ==
    \A s \in SessionsOf(v) : Active(s) => session[s].lapsed

\* Mutation of FitsQuota: the new video is not counted.
FitsQuotaBefore(r) ==
    video[r.video].status = "NONE" =>
        UsedBytes(r.operator) <= Quota[r.operator]

FitsQuota(r) ==
    video[r.video].status = "NONE" =>
        UsedBytes(r.operator) + r.size <= Quota[r.operator]

\* The key is new: a used key only returns its session or a conflict.
CreateUploadSession(r) ==
    LET id == <<r.operator, r.key>>
        stale == {s \in SessionsOf(r.video) : Active(s) /\ session[s].lapsed}
        isNew == video[r.video].status = "NONE"
    IN
    /\ session[id].status = "NONE"
    /\ r.event \in openEvents
    /\ OwnerOf[r.event] = r.operator
    /\ TokenAccepts(r)
    /\ VideoAccepts(r)
    /\ NoLiveSession(r.video)
    /\ FitsQuota(r)
    /\ session' = [s \in Sessions |->
            IF s = id
              THEN [status |-> "CREATED", req |-> r, lapsed |-> FALSE]
              ELSE IF s \in stale
                     THEN [session[s] EXCEPT !.status = "EXPIRED"]
                     ELSE session[s]]
    /\ video' = IF isNew
                  THEN [video EXCEPT ![r.video] =
                          [status |-> "PENDING_UPLOAD", req |-> r,
                           stored |-> FALSE]]
                  ELSE video
    /\ token' = IF isNew
                  THEN [token EXCEPT ![r.token] =
                          [status |-> "ASSIGNED", assigned |-> r.video]]
                  ELSE token
    /\ UNCHANGED <<parts, openEvents, files, hooks, queue, reply>>

-----------------------------------------------------------------------------
(***************************************************************************)
(* store_upload_part.  A part whose row and file are both there is kept;   *)
(* any other is written again.                                             *)
(***************************************************************************)
\* Mutation of PartInPlace: a part that is sent again is written again.
NeverInPlace(s, n) == FALSE

PartInPlace(s, n) == parts[s][n] # NoPart /\ partFile[s][n] # NoFile

\* Mutation of PutsPart: the status of the session is not looked at.
PutsPartAnyStatus(s, n, b) ==
    /\ session[s].status # "NONE"
    /\ ~session[s].lapsed
    /\ n \in PartNumbers(session[s].req.size)
    /\ ~PartInPlace(s, n)
    /\ b.size = ExpectedPartSize(n, session[s].req.size)

\* put_stream accepted the body and replaced the file of part n.
PutsPart(s, n, b) ==
    /\ Active(s)
    /\ ~session[s].lapsed
    /\ n \in PartNumbers(session[s].req.size)
    /\ ~PartInPlace(s, n)
    /\ b.size = ExpectedPartSize(n, session[s].req.size)

StoreUploadPart(s, n, b) ==
    LET v == session[s].req.video IN
    /\ PutsPart(s, n, b)
    /\ partFile' = [partFile EXCEPT ![s][n] = b]
    /\ parts' = [parts EXCEPT ![s][n] = PartRow(n, b, session[s].req)]
    /\ session' = [session EXCEPT ![s].status = "RECEIVING"]
    /\ video' = [video EXCEPT ![v].status = "UPLOADING"]
    /\ UNCHANGED <<token, openEvents, videoFile, hooks, queue, reply>>

\* X-Part-SHA256 does not match what arrived: the file goes, and the raised
\* error rolls the transaction back.
StorePartChecksumMismatch(s, n, b) ==
    /\ PutsPart(s, n, b)
    /\ partFile' = [partFile EXCEPT ![s][n] = NoFile]
    /\ UNCHANGED <<rows, videoFile, hooks, queue, reply>>

\* The process or the database fails between os.replace and the commit.
StorePartRolledBack(s, n, b) ==
    /\ "crash" \in Faults
    /\ PutsPart(s, n, b)
    /\ partFile' = [partFile EXCEPT ![s][n] = b]
    /\ UNCHANGED <<rows, videoFile, hooks, queue, reply>>

-----------------------------------------------------------------------------
(***************************************************************************)
(* complete_upload_session.                                                *)
(***************************************************************************)
\* The number and the size of the rows are those of the whole file.
PartsComplete(s) ==
    LET r == session[s].req IN
    /\ Received(s) = PartNumbers(r.size)
    /\ MapThenSumSet(LAMBDA n : parts[s][n].size, Received(s)) = r.size

\* compose() finds every file; it raises FileNotFoundError otherwise.
PartFilesPresent(s) == \A n \in Received(s) : partFile[s][n] # NoFile

\* The digest of the composed file.
Composed(s) == [n \in PartNumbers(session[s].req.size) |-> partFile[s][n].tag]

ComposeAttempt(s) ==
    /\ Active(s)
    /\ PartsComplete(s)
    /\ PartFilesPresent(s)

\* Mutation of DigestMatches: only the number of parts is compared.
PartCountMatches(s) == DOMAIN Composed(s) = DOMAIN session[s].req.sha

DigestMatches(s) == Composed(s) = session[s].req.sha

\* Mutation of HasMp4Head: the signature is not looked at.
AnyHead(s) == TRUE

HasMp4Head(s) == partFile[s][0].tag \in Mp4Heads

CompleteUploadSession(s) ==
    LET v == session[s].req.video IN
    /\ ComposeAttempt(s)
    /\ DigestMatches(s)
    /\ HasMp4Head(s)
    /\ videoFile' = [videoFile EXCEPT ![v] = Composed(s)]
    /\ session' = [session EXCEPT ![s].status = "COMPLETED"]
    /\ video' = [video EXCEPT ![v].status = "UPLOADED",
                             ![v].stored = TRUE]
    /\ hooks' = hooks \cup {OnCommit(s, TRUE)}
    /\ UNCHANGED <<parts, token, openEvents, partFile, queue, reply>>

\* The statuses FAILED and CORRUPT that the code saves before it raises are
\* rolled back with the transaction of @transaction.atomic.
CompleteChecksumMismatch(s) ==
    /\ ComposeAttempt(s)
    /\ ~DigestMatches(s)
    /\ reply' = [reply EXCEPT ![s] = "checksum_mismatch"]
    /\ UNCHANGED <<rows, files, hooks, queue>>

\* The composed file is removed again when it is not an MP4.
CompleteInvalidContent(s) ==
    LET v == session[s].req.video IN
    /\ ComposeAttempt(s)
    /\ DigestMatches(s)
    /\ ~HasMp4Head(s)
    /\ videoFile' = [videoFile EXCEPT ![v] = NoFile]
    /\ reply' = [reply EXCEPT ![s] = "invalid_content"]
    /\ UNCHANGED <<rows, partFile, hooks, queue>>

\* The process or the database fails between os.replace and the commit.
CompleteRolledBack(s) ==
    LET v == session[s].req.video IN
    /\ "crash" \in Faults
    /\ ComposeAttempt(s)
    /\ DigestMatches(s)
    /\ videoFile' = [videoFile EXCEPT ![v] = Composed(s)]
    /\ UNCHANGED <<rows, partFile, hooks, queue, reply>>

\* A repeated call answers with the completed session.
CompleteAgain(s) ==
    /\ session[s].status = "COMPLETED"
    /\ reply' = [reply EXCEPT ![s] = "completed"]
    /\ UNCHANGED <<rows, files, hooks, queue>>

-----------------------------------------------------------------------------
(***************************************************************************)
(* abort_upload_session and cleanup_expired_upload_sessions.               *)
(***************************************************************************)
\* Mutation of CloseSession: the video keeps its status.
CloseSessionOnly(s, status) ==
    /\ session' = [session EXCEPT ![s].status = status]
    /\ hooks' = hooks \cup {OnCommit(s, FALSE)}
    /\ UNCHANGED <<parts, video, token, openEvents, files, queue, reply>>

CloseSession(s, status) ==
    LET v == session[s].req.video IN
    /\ session' = [session EXCEPT ![s].status = status]
    /\ video' = [video EXCEPT ![v].status = "FAILED"]
    /\ hooks' = hooks \cup {OnCommit(s, FALSE)}
    /\ UNCHANGED <<parts, token, openEvents, files, queue, reply>>

\* Mutation of MayAbort: a completed session is not refused.
MayAbortCompleted(s) == session[s].status \notin {"NONE", "ABORTED"}

MayAbort(s) == session[s].status \notin {"NONE", "COMPLETED", "ABORTED"}

AbortUploadSession(s) == MayAbort(s) /\ CloseSession(s, "ABORTED")

\* Mutation of IsExpired: a session that never received a part is kept.
IsExpiredReceiving(s) ==
    session[s].status = "RECEIVING" /\ session[s].lapsed

IsExpired(s) == Active(s) /\ session[s].lapsed

CleanupExpired(s) == IsExpired(s) /\ CloseSession(s, "EXPIRED")

-----------------------------------------------------------------------------
(***************************************************************************)
(* on_commit callbacks: _delete_part_files, which stops at the first file  *)
(* the disk refuses to remove, then prepare_public_video.delay, whose      *)
(* failure is swallowed (robust=True).  Only then is the call answered.    *)
(***************************************************************************)
\* How far the deletions get when they are cut short, in order of number.
Prefixes(numbers) ==
    {numbers} \cup {{m \in numbers : m < n} : n \in numbers}

DeletePartFiles(s, gone) ==
    partFile' = [partFile EXCEPT ![s] =
        [n \in AllPartNumbers |->
            IF n \in gone THEN NoFile ELSE partFile[s][n]]]

RunHooks(h) ==
    LET s == h.session
        v == session[s].req.video
    IN
    /\ h \in hooks
    /\ \E gone \in IF "disk" \in Faults THEN Prefixes(h.parts) ELSE {h.parts} :
          DeletePartFiles(s, gone)
    /\ \/ h.prepare /\ queue' = [queue EXCEPT ![v] = @ + 1]
       \/ ~h.prepare /\ UNCHANGED queue
       \/ h.prepare /\ "broker" \in Faults /\ UNCHANGED queue
    /\ hooks' = hooks \ {h}
    /\ reply' = IF h.prepare
                  THEN [reply EXCEPT ![s] = "completed"]
                  ELSE reply
    /\ UNCHANGED <<rows, videoFile>>

\* The process dies after the commit, before or among the callbacks.
LoseHooks(h) ==
    /\ "crash" \in Faults
    /\ h \in hooks
    /\ \E gone \in Prefixes(h.parts) \cup {{}} : DeletePartFiles(h.session, gone)
    /\ hooks' = hooks \ {h}
    /\ UNCHANGED <<rows, videoFile, queue, reply>>

-----------------------------------------------------------------------------
(***************************************************************************)
(* Time, and the events component.                                         *)
(***************************************************************************)
\* expires_at is in the past from now on.
Lapse(s) ==
    /\ Active(s)
    /\ ~session[s].lapsed
    /\ session' = [session EXCEPT ![s].lapsed = TRUE]
    /\ UNCHANGED <<parts, video, token, openEvents, files, hooks, queue, reply>>

\* EventViewSet.perform_destroy.
DestroyEvent(e) ==
    /\ e \in openEvents
    /\ openEvents' = openEvents \ {e}
    /\ UNCHANGED <<session, parts, video, token, files, hooks, queue, reply>>

StorePartStep(s) ==
    \E n \in AllPartNumbers, b \in Bodies :
        \/ StoreUploadPart(s, n, b)
        \/ StorePartChecksumMismatch(s, n, b)
        \/ StorePartRolledBack(s, n, b)

CompleteStep(s) ==
    \/ CompleteUploadSession(s)
    \/ CompleteChecksumMismatch(s)
    \/ CompleteInvalidContent(s)
    \/ CompleteRolledBack(s)
    \/ CompleteAgain(s)

SessionStep(s) ==
    \/ StorePartStep(s)
    \/ CompleteStep(s)
    \/ AbortUploadSession(s)
    \/ CleanupExpired(s)
    \/ Lapse(s)

Next ==
    \/ \E r \in Requests : CreateUploadSession(r)
    \/ \E s \in Sessions : SessionStep(s)
    \/ \E h \in hooks : RunHooks(h) \/ LoseHooks(h)
    \/ \E e \in Events : DestroyEvent(e)

Spec == Init /\ [][Next]_vars
=============================================================================
