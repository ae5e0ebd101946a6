----------------------- MODULE VideoPipelineProperties -----------------------
(***************************************************************************)
(* What preparation and deletion of videos promise, beside the uploads.    *)
(***************************************************************************)
EXTENDS Portal, UploadsProperties

Deletions ==
    [video : Videos, stored : BOOLEAN, thumbnail : BOOLEAN, removed : BOOLEAN]

\* Messages, jobs, thumbnails and deletions have the shape the tasks give
\* them; no message is taken that was not sent.
PipelineTypeOK ==
    /\ TypeOK
    /\ retry \in [Videos -> [1 .. MaxRetries -> Nat]]
    /\ job \in [Workers -> Jobs \cup {Idle}]
    /\ thumbFile \in [Videos -> {r.sha : r \in Requests} \cup {NoFile}]
    /\ thumbnail \in [Videos -> BOOLEAN]
    /\ deletes \subseteq Deletions
    /\ marked \subseteq Videos
    /\ losses \in 0 .. MaxLosses

\* A video the gallery shows can be played: as long as nobody asks for its
\* deletion, a READY video has its declared file and its thumbnail on disk
\* and its public token is READY, with any number of duplicate, retried,
\* failed and lost executions and with uploads that try again.
ReadyVideosPlay ==
    \A v \in Videos \ marked : video[v].status = "READY" =>
        /\ videoFile[v] = video[v].req.sha
        /\ thumbnail[v]
        /\ thumbFile[v] = videoFile[v]
        /\ token[video[v].req.token].status = "READY"

\* Deleting a video, however often and however far, leaves the files of the
\* other videos and of their uploads alone.
DeletionSparesOthers ==
    \A v \in Videos \ marked :
        /\ video[v].stored => videoFile[v] = video[v].req.sha
        /\ thumbnail[v] => thumbFile[v] = video[v].req.sha
        /\ \A s \in SessionsOf(v) : Active(s) =>
              \A n \in Received(s) : partFile[s][n] # NoFile

\* The answers of the gallery agree, whatever else hides events.  A video
\* that the page of an event lists, and nobody asked to delete, opens behind
\* its link, with its thumbnail and its declared bytes; and a link whose page
\* says that there is no video gives out no thumbnail and no bytes, although
\* only the page looks at the token.
GalleryOpensWhatItLists ==
    \A hidden \in SUBSET Events :
        /\ \A e \in Events : \A v \in PublicEvent(e, hidden) \ marked :
              LET r == video[v].req IN
              /\ PublicVideo(r.token, hidden) = "video"
              /\ PublicThumbnail(r.token, hidden) = {r.sha}
              /\ VideoBytes(r.token, hidden) = {r.sha}
        /\ \A t \in Tokens :
              PublicVideo(t, hidden) # "video" =>
                  PublicThumbnail(t, hidden) = {} /\ VideoBytes(t, hidden) = {}

\* What can still prepare a video: a message, a callback that will send one,
\* or a worker.
WorkFor(v) ==
    \/ queue[v] > 0
    \/ \E k \in 1 .. MaxRetries : retry[v][k] > 0
    \/ \E h \in hooks : h.prepare /\ session[h.session].req.video = v
    \/ \E w \in Workers : job[w] # Idle /\ job[w].video = v

\* As long as neither the broker nor the database fails, a video that waits
\* for its preparation has somebody who will prepare it, also when workers
\* die between taking the message and the last transaction.
WorkIsNeverLost ==
    \A v \in Videos : video[v].status \in {"UPLOADED", "PROCESSING"} => WorkFor(v)

\* An uploaded video does not wait forever: it becomes READY, or FAILED after
\* its retries, or its deletion or a new upload takes over.
UploadedVideosSettle ==
    \A v \in Videos :
        video[v].status \in {"UPLOADED", "PROCESSING"} ~>
            video[v].status \notin {"UPLOADED", "PROCESSING"}

-----------------------------------------------------------------------------
(***************************************************************************)
(* Promises of the documentation that the code breaks.                     *)
(***************************************************************************)
\* docs/architecture.md: DELETED is the last state of a video.
DeletedVideosStayDeleted ==
    [][\A v \in Videos :
          video[v].status = "DELETED" => video'[v].status = "DELETED"]_allVars
=============================================================================
