---------------------------- MODULE VideoPipeline ----------------------------
(***************************************************************************)
(* The life of a video after and beside its upload: the Celery task        *)
(* prepare_public_video (backend/apps/videos/tasks.py and processing.py),  *)
(* the task enqueue_unprocessed_videos, and delete_video                   *)
(* (backend/apps/videos/services.py), composed with the uploads that       *)
(* write the same rows and files.                                          *)
(*                                                                         *)
(* Each transaction is one action; what happens between two transactions   *)
(* of one call (copying, analysing, writing the thumbnail, removing files) *)
(* interleaves with everything else.  The rows a call read in its first    *)
(* transaction are the ones it goes on with.                               *)
(***************************************************************************)
EXTENDS Uploads

CONSTANTS
    Workers,        \* processes of the Celery worker
    MaxRetries,     \* max_retries of prepare_public_video
    MaxMessages,    \* bound: executions of a video when the task adds one
    MaxLosses,      \* bound: workers that die
    MaxDeletions,   \* bound: delete_video calls at a time
    Idle,
    Schedule,       \* what is called beside uploads: "enqueue", "delete"
    WorkerFaults    \* "media": ffprobe, ffmpeg or the disk fails; "database":
                    \* the last transaction fails; "retry": the broker
                    \* refuses the retry; "timeout": CELERY_TASK_TIME_LIMIT

Phases == {"reading", "writing", "written", "failed"}
Jobs == [video : Videos, retries : 0 .. MaxRetries, phase : Phases,
         stored : BOOLEAN]

ASSUME PipelineAssumption ==
    /\ MaxRetries \in Nat
    /\ MaxMessages \in Nat
    /\ MaxLosses \in Nat
    /\ MaxDeletions \in Nat
    /\ Idle \notin Jobs
    /\ Schedule \subseteq {"enqueue", "delete"}
    /\ WorkerFaults \subseteq {"media", "database", "retry", "timeout"}

VARIABLES
    retry,      \* retry[v][k]: messages of v that are retry number k
    job,        \* job[w]: the execution of prepare_public_video of worker w
    thumbFile,  \* operators/.../thumbnails/{video}.jpg
    thumbnail,  \* Video.thumbnail_storage_key is set
    deletes,    \* delete_video calls between their two transactions
    marked,     \* videos delete_video was ever called for (history)
    losses      \* workers that died so far

pipeline == <<retry, job, thumbFile, thumbnail, deletes, marked, losses>>
allVars == <<vars, pipeline>>

NoMessage == [k \in 1 .. MaxRetries |-> 0]

PipelineInit ==
    /\ Init
    /\ retry = [v \in Videos |-> NoMessage]
    /\ job = [w \in Workers |-> Idle]
    /\ thumbFile = [v \in Videos |-> NoFile]
    /\ thumbnail = [v \in Videos |-> FALSE]
    /\ deletes = {}
    /\ marked = {}
    /\ losses = 0

UploadsStep == Next /\ UNCHANGED pipeline

-----------------------------------------------------------------------------
(***************************************************************************)
(* The broker.  A message is taken off when its execution starts and comes *)
(* back when the worker is lost (acks_late, reject_on_worker_lost).        *)
(***************************************************************************)
\* Mutation of HasMessage: an execution starts without a message.
Spontaneous(v, k) == TRUE

HasMessage(v, k) == IF k = 0 THEN queue[v] > 0 ELSE retry[v][k] > 0

AddMessages(v, k, change) ==
    IF k = 0
      THEN /\ queue' = [queue EXCEPT ![v] = @ + change]
           /\ UNCHANGED retry
      ELSE /\ retry' = [retry EXCEPT ![v][k] = @ + change]
           /\ UNCHANGED queue

TakeMessage(v, k) == HasMessage(v, k) /\ AddMessages(v, k, -1)

\* Mutation of Redeliver: the message was acknowledged when it was taken.
AcknowledgedEarly(v, k) == UNCHANGED <<queue, retry>>

Redeliver(v, k) == AddMessages(v, k, 1)

(***************************************************************************)
(* prepare_public_video.                                                   *)
(***************************************************************************)
\* Mutation of Preparable: a video in preparation is skipped.
PreparableOnce(v) == video[v].status \in {"UPLOADED", "FAILED"}

\* The statuses that are prepared.
Preparable(v) == video[v].status \in {"UPLOADED", "PROCESSING", "FAILED"}

\* The first transaction; process_video_file goes on with this row.
StartPreparation(w, v, k) ==
    /\ job[w] = Idle
    /\ TakeMessage(v, k)
    /\ Preparable(v)
    /\ video' = [video EXCEPT ![v].status = "PROCESSING"]
    /\ job' = [job EXCEPT ![w] =
                 [video |-> v, retries |-> k, phase |-> "reading",
                  stored |-> video[v].stored]]
    /\ UNCHANGED <<session, parts, token, openEvents, files, hooks, reply,
                   thumbFile, thumbnail, deletes, marked, losses>>

\* A video that is ready, not uploaded or deleted is left alone.
SkipPreparation(w, v, k) ==
    /\ job[w] = Idle
    /\ TakeMessage(v, k)
    /\ ~Preparable(v)
    /\ UNCHANGED <<rows, files, hooks, reply, job, thumbFile, thumbnail,
                   deletes, marked, losses>>

InPhase(w, phases) == job[w] # Idle /\ job[w].phase \in phases
MoveTo(w, phase) == job' = [job EXCEPT ![w].phase = phase]

SourceExists(w) == job[w].stored /\ videoFile[job[w].video] # NoFile

\* The source is copied and analysed.
ReadSource(w) ==
    /\ InPhase(w, {"reading"})
    /\ SourceExists(w)
    /\ MoveTo(w, "writing")
    /\ UNCHANGED <<vars, retry, thumbFile, thumbnail, deletes, marked, losses>>

\* put_stream of the thumbnail, made from the declared content.
WriteThumbnail(w) ==
    LET v == job[w].video IN
    /\ InPhase(w, {"writing"})
    /\ thumbFile' = [thumbFile EXCEPT ![v] = video[v].req.sha]
    /\ MoveTo(w, "written")
    /\ UNCHANGED <<vars, retry, thumbnail, deletes, marked, losses>>

\* Mutation of ThumbnailWritten: the row is saved before the file.
ThumbnailPlanned(w) == InPhase(w, {"writing", "written"})

ThumbnailWritten(w) == InPhase(w, {"written"})

\* Mutation of FinishPreparation: the token is left as it is.
FinishVideoOnly(w) ==
    LET v == job[w].video IN
    /\ ThumbnailWritten(w)
    /\ thumbnail' = [thumbnail EXCEPT ![v] = TRUE]
    /\ video' = [video EXCEPT ![v].status = "READY"]
    /\ job' = [job EXCEPT ![w] = Idle]
    /\ UNCHANGED <<session, parts, token, openEvents, files, hooks, queue,
                   reply, retry, thumbFile, deletes, marked, losses>>

\* The last transaction does not look at the status again.
FinishPreparation(w) ==
    LET v == job[w].video IN
    /\ ThumbnailWritten(w)
    /\ thumbnail' = [thumbnail EXCEPT ![v] = TRUE]
    /\ video' = [video EXCEPT ![v].status = "READY"]
    /\ token' = [token EXCEPT ![video[v].req.token].status = "READY"]
    /\ job' = [job EXCEPT ![w] = Idle]
    /\ UNCHANGED <<session, parts, openEvents, files, hooks, queue, reply,
                   retry, thumbFile, deletes, marked, losses>>

\* ffprobe or ffmpeg fails, takes too long or finds no video.
AnalysisFails(w) == InPhase(w, {"reading", "writing"}) /\ "media" \in WorkerFaults

\* process_video_file raised.
FailPreparation(w) ==
    /\ \/ InPhase(w, {"reading"}) /\ ~SourceExists(w)
       \/ AnalysisFails(w)
    /\ video' = [video EXCEPT ![job[w].video].status = "FAILED"]
    /\ MoveTo(w, "failed")
    /\ UNCHANGED <<session, parts, token, openEvents, files, hooks, queue,
                   reply, retry, thumbFile, thumbnail, deletes, marked, losses>>

\* The last transaction raised and was rolled back.
FailTransaction(w) ==
    /\ "database" \in WorkerFaults
    /\ InPhase(w, {"written"})
    /\ MoveTo(w, "failed")
    /\ UNCHANGED <<vars, retry, thumbFile, thumbnail, deletes, marked, losses>>

\* autoretry_for: the task is sent again, max_retries times.
RetryPreparation(w) ==
    LET v == job[w].video
        k == job[w].retries
    IN
    /\ InPhase(w, {"failed"})
    /\ \/ k < MaxRetries /\ retry' = [retry EXCEPT ![v][k + 1] = @ + 1]
       \/ (k = MaxRetries \/ "retry" \in WorkerFaults) /\ UNCHANGED retry
    /\ job' = [job EXCEPT ![w] = Idle]
    /\ UNCHANGED <<vars, thumbFile, thumbnail, deletes, marked, losses>>

\* CELERY_TASK_TIME_LIMIT: the process is killed, and the message counts as
\* acknowledged.
ExceedTimeLimit(w) ==
    /\ "timeout" \in WorkerFaults
    /\ InPhase(w, {"reading", "writing"})
    /\ job' = [job EXCEPT ![w] = Idle]
    /\ UNCHANGED <<vars, retry, thumbFile, thumbnail, deletes, marked, losses>>

\* The worker process dies and its message is delivered again.
LoseWorker(w) ==
    /\ losses < MaxLosses
    /\ job[w] # Idle
    /\ Redeliver(job[w].video, job[w].retries)
    /\ job' = [job EXCEPT ![w] = Idle]
    /\ losses' = losses + 1
    /\ UNCHANGED <<rows, files, hooks, reply, thumbFile, thumbnail, deletes,
                   marked>>

\* Messages and executions of a video.
Executions(v) ==
    queue[v] + MapThenSumSet(LAMBDA k : retry[v][k], 1 .. MaxRetries)
             + Cardinality({w \in Workers : job[w] # Idle /\ job[w].video = v})

\* enqueue_unprocessed_videos; a video in PROCESSING may be stale.
EnqueueUnprocessedVideos ==
    /\ "enqueue" \in Schedule
    /\ \E stale \in SUBSET {v \in Videos : video[v].status = "PROCESSING"} :
       LET chosen == stale \cup {v \in Videos : video[v].status = "UPLOADED"}
       IN
       /\ chosen # {}
       /\ \A v \in chosen : Executions(v) < MaxMessages
       /\ queue' = [v \in Videos |->
                      IF v \in chosen THEN queue[v] + 1 ELSE queue[v]]
    /\ UNCHANGED <<rows, files, hooks, reply, pipeline>>

-----------------------------------------------------------------------------
(***************************************************************************)
(* delete_video.                                                           *)
(***************************************************************************)
\* The first transaction; the two keys are those of this row.
MarkForDeletion(v) ==
    /\ "delete" \in Schedule
    /\ Cardinality(deletes) < MaxDeletions
    /\ video[v].status \notin {"NONE", "DELETED"}
    /\ video' = [video EXCEPT ![v].status = "PENDING_DELETE"]
    /\ deletes' = deletes \cup
          {[video |-> v, stored |-> video[v].stored,
            thumbnail |-> thumbnail[v], removed |-> FALSE]}
    /\ marked' = marked \cup {v}
    /\ UNCHANGED <<session, parts, token, openEvents, files, hooks, queue,
                   reply, retry, job, thumbFile, thumbnail, losses>>

\* Mutation of PartsOfVideo: the parts of all sessions.
AllParts(v) == {p \in Sessions \X AllPartNumbers : p[2] \in Received(p[1])}

PartsOfVideo(v) == {p \in Sessions \X AllPartNumbers :
                        p[1] \in SessionsOf(v) /\ p[2] \in Received(p[1])}

\* delete_many of the keys of the video, the thumbnail and every part with a
\* row, in this order.
DeleteMany(d, what) ==
    LET v == d.video
        gone == IF "parts" \in what THEN PartsOfVideo(v) ELSE {}
    IN
    /\ videoFile' = IF d.stored /\ "video" \in what
                       THEN [videoFile EXCEPT ![v] = NoFile]
                       ELSE videoFile
    /\ thumbFile' = IF d.thumbnail /\ "thumbnail" \in what
                       THEN [thumbFile EXCEPT ![v] = NoFile]
                       ELSE thumbFile
    /\ partFile' = [s \in Sessions |-> [n \in AllPartNumbers |->
                      IF <<s, n>> \in gone THEN NoFile ELSE partFile[s][n]]]

RemoveFiles(d) ==
    /\ d \in deletes
    /\ ~d.removed
    /\ DeleteMany(d, {"video", "thumbnail", "parts"})
    /\ deletes' = (deletes \ {d}) \cup {[d EXCEPT !.removed = TRUE]}
    /\ UNCHANGED <<rows, hooks, queue, reply, retry, job, thumbnail, marked,
                   losses>>

\* The last transaction does not look at the status again.
FinishDeletion(d) ==
    LET v == d.video IN
    /\ d \in deletes
    /\ d.removed
    /\ video' = [video EXCEPT ![v].status = "DELETED"]
    /\ token' = [token EXCEPT ![video[v].req.token].status = "EXPIRED"]
    /\ deletes' = deletes \ {d}
    /\ UNCHANGED <<session, parts, openEvents, files, hooks, queue, reply,
                   retry, job, thumbFile, thumbnail, marked, losses>>

\* The process dies, or the provider raises: the video stays PENDING_DELETE.
AbandonDeletion(d) ==
    /\ Faults \cap {"crash", "disk"} # {}
    /\ d \in deletes
    /\ \E what \in IF d.removed
                     THEN {{}}
                     ELSE {{}, {"video"}, {"video", "thumbnail"}} :
          DeleteMany(d, what)
    /\ deletes' = deletes \ {d}
    /\ UNCHANGED <<rows, hooks, queue, reply, retry, job, thumbnail, marked,
                   losses>>

-----------------------------------------------------------------------------
TaskStep(w) ==
    \/ \E v \in Videos, k \in 0 .. MaxRetries :
          StartPreparation(w, v, k) \/ SkipPreparation(w, v, k)
    \/ ReadSource(w)
    \/ WriteThumbnail(w)
    \/ FinishPreparation(w)
    \/ FailPreparation(w)
    \/ FailTransaction(w)
    \/ RetryPreparation(w)

DeletionStep ==
    \/ \E v \in Videos : MarkForDeletion(v)
    \/ \E d \in deletes : RemoveFiles(d) \/ FinishDeletion(d) \/ AbandonDeletion(d)

PipelineNext ==
    \/ UploadsStep
    \/ \E w \in Workers : TaskStep(w) \/ ExceedTimeLimit(w) \/ LoseWorker(w)
    \/ EnqueueUnprocessedVideos
    \/ DeletionStep

PipelineSpec == PipelineInit /\ [][PipelineNext]_allVars

(***************************************************************************)
(* Workers make progress, callbacks run right after the commit in the same *)
(* thread, expires_at comes, and Celery Beat runs the cleanup every hour.  *)
(***************************************************************************)
FairPipelineSpec ==
    /\ PipelineSpec
    /\ \A w \in Workers : WF_allVars(TaskStep(w))
    /\ \A s \in Sessions :
          /\ WF_allVars(\E h \in hooks :
                h.session = s /\ RunHooks(h) /\ UNCHANGED pipeline)
          /\ WF_allVars(Lapse(s) /\ UNCHANGED pipeline)
          /\ WF_allVars(CleanupExpired(s) /\ UNCHANGED pipeline)
=============================================================================
