-------------------------- MODULE UploadsProperties --------------------------
(***************************************************************************)
(* What the resumable uploads of module Uploads promise.                   *)
(***************************************************************************)
EXTENDS Uploads

SessionRow ==
    [status : SessionStatuses, req : Requests \cup {NoRequest},
     lapsed : BOOLEAN]
VideoRow ==
    [status : VideoStatuses, req : Requests \cup {NoRequest},
     stored : BOOLEAN]
TokenRow == [status : TokenStatuses, assigned : Videos \cup {NoVideo}]
UploadPart == [offset : Nat, size : Nat, sha : Tags]

\* Every row, file and message has the shape the models and the storage
\* layout give it.
TypeOK ==
    /\ session \in [Sessions -> SessionRow]
    /\ parts \in [Sessions -> [AllPartNumbers -> UploadPart \cup {NoPart}]]
    /\ video \in [Videos -> VideoRow]
    /\ token \in [Tokens -> TokenRow]
    /\ openEvents \subseteq Events
    /\ partFile \in [Sessions -> [AllPartNumbers -> Bodies \cup {NoFile}]]
    /\ videoFile \in [Videos -> {r.sha : r \in Requests} \cup {NoFile}]
    /\ hooks \subseteq [session : Sessions, parts : SUBSET AllPartNumbers,
                        prepare : BOOLEAN]
    /\ queue \in [Videos -> Nat]
    /\ reply \in [Sessions -> {"none", "completed", "checksum_mismatch",
                               "invalid_content"}]

\* The rows that exist refer to the request they were created from, under
\* the operator and the key it carried.
RowsHaveRequests ==
    /\ \A s \in Sessions : session[s].status # "NONE" =>
          /\ session[s].req \in Requests
          /\ s = <<session[s].req.operator, session[s].req.key>>
          /\ video[session[s].req.video].status # "NONE"
          /\ SameVideo(video[session[s].req.video].req, session[s].req)
    /\ \A v \in Videos : video[v].status # "NONE" =>
          /\ video[v].req \in Requests
          /\ video[v].req.video = v

\* A video never has two sessions that accept parts, whatever retries,
\* expirations and new keys come together: the checks of
\* create_upload_session keep the code away from the database constraint
\* unique_active_upload_per_video, whose violation would be a 500.
OneActiveSession ==
    \A s, t \in Sessions :
        /\ Active(s)
        /\ Active(t)
        /\ session[s].req.video = session[t].req.video
        => s = t

\* A video whose row has a storage key has its declared bytes on disk, and
\* they are an MP4: no later, failed, crashed or corrupt completion of
\* another session of the same video replaces or removes them.
Verified(v) ==
    video[v].stored =>
        /\ videoFile[v] = video[v].req.sha
        /\ video[v].req.sha[0] \in Mp4Heads
StoredVideosAreVerified == \A v \in Videos : Verified(v)

\* A client that was told its upload is complete is told the truth: the
\* session stays completed and the video is stored.  (complete is
\* idempotent also when its first answer was lost.)
CompletedAnswersAreTrue ==
    \A s \in Sessions : reply[s] = "completed" =>
        /\ session[s].status = "COMPLETED"
        /\ video[session[s].req.video].stored

\* A completed session has a stored video, and only the commit that
\* completed a session lets its callbacks and its client hear of it.
AnswersFollowCommits ==
    /\ \A s \in Sessions : session[s].status = "COMPLETED" =>
          video[session[s].req.video].stored
    /\ \A h \in hooks :
          /\ session[h.session].status # "NONE"
          /\ h.prepare => session[h.session].status = "COMPLETED"
    /\ \A s \in Sessions : reply[s] = "completed" =>
          session[s].status = "COMPLETED"

\* Every confirmed part of a session that still accepts parts is on disk
\* with the size and the content its row has, at the offset where the
\* previous part ends: GET uploads/<id>/ never makes a client skip a part
\* the server does not have.
ConfirmedPartsAreOnDisk ==
    \A s \in Sessions : Active(s) =>
        \A n \in Received(s) :
            /\ partFile[s][n] # NoFile
            /\ parts[s][n].sha = partFile[s][n].tag
            /\ parts[s][n].size = partFile[s][n].size
            /\ n > 0 /\ n - 1 \in Received(s) =>
                  parts[s][n].offset =
                      parts[s][n - 1].offset + parts[s][n - 1].size

\* A client that has every part confirmed is never told that its upload is
\* incomplete, and compose finds every file: whatever was lost, repeated and
\* cut short on the way, the sizes of the rows add up to the declared size.
ConfirmedUploadsCompose ==
    \A s \in Sessions :
        Active(s) /\ Received(s) = PartNumbers(session[s].req.size)
        => ComposeAttempt(s)

\* The inductive form of ConfirmedPartsAreOnDisk: rows are those of
\* expected_part_size, and callbacks only delete parts of closed sessions.
PartOnDisk(s, n) ==
    /\ n \in PartNumbers(session[s].req.size)
    /\ partFile[s][n] \in Bodies
    /\ partFile[s][n].size = ExpectedPartSize(n, session[s].req.size)
    /\ parts[s][n] = PartRow(n, partFile[s][n], session[s].req)
SessionOnDisk(s) == Active(s) => \A n \in Received(s) : PartOnDisk(s, n)
PartsBelong ==
    /\ \A s \in Sessions : session[s].status = "NONE" => Received(s) = {}
    /\ \A h \in hooks : ~Active(h.session)
PartsInv == PartsBelong /\ \A s \in Sessions : SessionOnDisk(s)

\* A token belongs to one video and a video to one token, of an event of
\* the operator who uploads; a second operator or a second video is never
\* attached to it by any order of creations.
TokensBindOneVideo ==
    /\ \A v \in Videos : video[v].status # "NONE" =>
          /\ token[video[v].req.token].assigned = v
          /\ OwnerOf[EventOf[video[v].req.token]] = video[v].req.operator
    /\ \A t \in Tokens : token[t].assigned # NoVideo =>
          /\ video[token[t].assigned].status # "NONE"
          /\ video[token[t].assigned].req.token = t

\* The inductive invariant of the proofs in UploadsProofs: rows are linked
\* by the requests they were created from, and what is stored, completed or
\* answered was verified before.
UploadsInv ==
    /\ TypeOK
    /\ RowsHaveRequests
    /\ OneActiveSession
    /\ TokensBindOneVideo
    /\ StoredVideosAreVerified
    /\ AnswersFollowCommits

\* What an operator's videos reserve never exceeds the plan, also with
\* failed, aborted and expired sessions whose videos are taken up again.
QuotaRespected == \A o \in Operators : UsedBytes(o) <= Quota[o]

\* A video shown as uploading is held by an open session, so that an abort or
\* the hourly cleanup can still end the status: whichever of its sessions are
\* aborted, expired or replaced, it never outlives them all.  The session may
\* have lapsed, or have parts that will never compose.
UploadingVideosAreHeld ==
    \A v \in Videos : video[v].status = "UPLOADING" =>
        \E s \in SessionsOf(v) : Active(s)

\* A session that was completed, aborted or expired never accepts parts
\* again, and a completed one never changes.
SessionsStayClosed ==
    [][\A s \in Sessions :
          /\ session[s].status # "NONE" /\ ~Active(s) => ~Active(s)'
          /\ session[s].status = "COMPLETED" => session'[s] = session[s]]_vars

\* A part the server confirmed keeps its content as long as the session
\* accepts parts (docs/api.md: another part under the same number is a
\* conflict).
ConfirmedPartsAreKept ==
    [][\A s \in Sessions : Active(s) /\ Active(s)' =>
          \A n \in Received(s) : parts'[s][n] = parts[s][n]]_vars

\* Every session stops holding its video: it is completed, aborted or, when
\* its time is over, expired.
SessionsSettle == \A s \in Sessions : Active(s) ~> ~Active(s)

\* Without faults, the temporary parts of a completed or an aborted session
\* are removed.
ClosedSessionsFreeTheirParts ==
    \A s \in Sessions : session[s].status \in {"COMPLETED", "ABORTED"} ~>
        \A n \in AllPartNumbers : partFile[s][n] = NoFile

-----------------------------------------------------------------------------
(***************************************************************************)
(* Uploads implements VideoLibrary.                                        *)
(***************************************************************************)
PlayableContents ==
    [v \in Videos |-> {r.sha : r \in {q \in Requests :
                          q.video = v /\ q.sha[0] \in Mp4Heads}}]
StoredContent ==
    [v \in Videos |-> IF video[v].stored THEN videoFile[v] ELSE NoFile]
AcknowledgedVideos ==
    {session[s].req.video : s \in {t \in Sessions : reply[t] = "completed"}}

Library == INSTANCE VideoLibrary WITH
    Contents <- PlayableContents,
    Nothing <- NoFile,
    library <- StoredContent,
    acknowledged <- AcknowledgedVideos

\* Whatever fails and is retried, a video is published once, with one of the
\* contents declared for it, is never replaced or withdrawn by a later
\* upload, and is acknowledged only while it is published.
ImplementsLibrary == Library!Spec

-----------------------------------------------------------------------------
(***************************************************************************)
(* Promises of the documentation and the tests that the code breaks.       *)
(***************************************************************************)
\* docs/architecture.md: a verification that fails ends the session in
\* FAILED.  After the client was told of the mismatch the session is closed.
MismatchEndsSession ==
    \A s \in Sessions : reply[s] = "checksum_mismatch" =>
        session[s].status \in {"FAILED", "ABORTED", "EXPIRED"}

\* abort_upload_session: a complete upload cannot be aborted.  No call of
\* the upload API turns a video that is uploaded into a failed one.
UploadedVideosNeverFail ==
    [][\A v \in Videos :
          video[v].status = "UPLOADED" => video'[v].status # "FAILED"]_vars
=============================================================================
