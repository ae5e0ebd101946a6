------------------------ MODULE VideoPipelineProofs ------------------------
(***************************************************************************)
(* Proofs of safety properties of module VideoPipeline, for any numbers of *)
(* workers, retries, messages and deletions, every fault and every         *)
(* schedule.                                                               *)
(*                                                                         *)
(* UploadsInv does not survive a deletion: the file of a stored video      *)
(* goes.  PipelineInv keeps what it says of rows (LinkedRows) and says of  *)
(* files only as much as holds for videos that were never marked for       *)
(* deletion (VideoPlays) and for their sessions.  An execution that is     *)
(* about to write READY relies on what it read two transactions before:    *)
(* WorkIsLinked says that a stored video stays stored.                     *)
(***************************************************************************)
EXTENDS VideoPipelineProperties, UploadsProofs

\* What executions and deletions read is still so when they use it.
WorkIsLinked ==
    /\ \A v \in Videos : thumbnail[v] => video[v].status # "NONE"
    /\ \A w \in Workers : job[w] # Idle =>
          /\ video[job[w].video].status # "NONE"
          /\ job[w].stored => video[job[w].video].stored
          /\ job[w].phase \in {"writing", "written"} => job[w].stored
    /\ \A d \in deletes :
          d.video \in marked /\ video[d.video].status # "NONE"

ThumbnailReady(v) == thumbFile[v] = video[v].req.sha

VideoPlays(v) ==
    /\ Verified(v)
    /\ thumbnail[v] => ThumbnailReady(v)
    /\ video[v].status = "READY" =>
          /\ video[v].stored
          /\ thumbnail[v]
          /\ token[video[v].req.token].status = "READY"
    /\ \A w \in Workers :
          job[w] # Idle /\ job[w].video = v /\ job[w].phase = "written" =>
              ThumbnailReady(v)

PipelineInv ==
    /\ LinkedRows
    /\ PipelineTypeOK
    /\ PartsBelong
    /\ WorkIsLinked
    /\ \A v \in Videos \ marked : VideoPlays(v)
    /\ \A s \in Sessions :
          Active(s) /\ session[s].req.video \notin marked => SessionOnDisk(s)

LEMMA PipelineInvInit == PipelineInit => PipelineInv
  <1>. SUFFICES ASSUME PipelineInit PROVE PipelineInv
    OBVIOUS
  <1>. USE DEF PipelineInit
  <1>1. LinkedRows /\ PartsBelong /\ \A s \in Sessions : SessionOnDisk(s)
    BY UploadsInvInit, PartsInvInit DEF UploadsInv, LinkedRows, PartsInv
  <1>2. PipelineTypeOK
    BY <1>1, PipelineAssumption DEF LinkedRows, PipelineTypeOK, NoMessage
  <1>3. WorkIsLinked
    BY DEF WorkIsLinked
  <1>4. \A v \in Videos : VideoPlays(v)
    BY DEF Init, VideoPlays, Verified
  <1>. QED
    BY <1>1, <1>2, <1>3, <1>4 DEF PipelineInv

-----------------------------------------------------------------------------
(***************************************************************************)
(* Upload operations beside the pipeline.                                  *)
(***************************************************************************)
\* What they leave of a video that exists.
VideoKept(v) ==
    /\ video'[v].req = video[v].req
    /\ video'[v].status # "NONE"
    /\ video[v].stored => video'[v].stored
    /\ video'[v].status = "READY" => video[v].status = "READY"
    /\ token'[video[v].req.token] = token[video[v].req.token]

LEMMA CreateKeepsVideos ==
  ASSUME LinkedRows, NEW r \in Requests, CreateUploadSession(r),
         NEW v \in Videos, video[v].status # "NONE"
  PROVE  VideoKept(v)
  <1>. USE DEF LinkedRows
  <1>1. video'[v] = video[v]
    BY DEF CreateUploadSession, TypeOK
  <1>2. token'[video[v].req.token] = token[video[v].req.token]
    <2>1. CASE token' = token
      BY <2>1
    <2>2. CASE token' # token
      <3>1. /\ video[r.video].status = "NONE"
            /\ token' = [token EXCEPT ![r.token] =
                           [status |-> "ASSIGNED", assigned |-> r.video]]
            /\ token[r.token].assigned \in {NoVideo, r.video}
        BY <2>2 DEF CreateUploadSession, TokenAccepts
      <3>2. token[video[v].req.token].assigned = v
        BY DEF TokensBindOneVideo
      <3>3. video[v].req.token # r.token
        BY <3>1, <3>2, UploadsAssumption
      <3>. QED
        BY <3>1, <3>3
    <2>. QED
      BY <2>1, <2>2
  <1>. QED
    BY <1>1, <1>2 DEF VideoKept

LEMMA SessionStepKeepsVideos ==
  ASSUME LinkedRows, NEW s \in Sessions, SessionStep(s),
         NEW v \in Videos, video[v].status # "NONE"
  PROVE  VideoKept(v)
  <1>. USE DEF LinkedRows
  <1>0. RowsKept
    BY SessionStepKeepsRows
  <1>1. /\ video[v].stored => video'[v].stored
        /\ video'[v].status = "READY" => video[v].status = "READY"
    <2>1. CASE CompleteUploadSession(s)
      <3>. DEFINE u == session[s].req.video
                  mid == [video EXCEPT ![u].status = "UPLOADED"]
      <3>1. video' = [mid EXCEPT ![u].stored = TRUE]
        BY <2>1 DEF CompleteUploadSession
      <3>2. u \in Videos
        BY <2>1, LiveRow, ActiveRow DEF CompleteUploadSession, ComposeAttempt
      <3>3. mid \in [Videos -> VideoRow]
        BY <3>2, VideoStatusUpdate DEF TypeOK, VideoStatuses
      <3>4. /\ mid[v].stored = video[v].stored
            /\ mid[v].status = "READY" => video[v].status = "READY"
        BY DEF TypeOK, VideoRow
      <3>. HIDE DEF mid, u
      <3>. QED
        BY <3>1, <3>2, <3>3, <3>4 DEF VideoRow
    <2>2. CASE ~CompleteUploadSession(s)
      <3>1. \/ video' = video
            \/ \E st \in {"UPLOADING", "FAILED"} :
                  video' = [video EXCEPT ![session[s].req.video].status = st]
        BY <2>2 DEF SessionStep, StorePartStep, StoreUploadPart,
           StorePartChecksumMismatch, StorePartRolledBack, CompleteStep,
           CompleteChecksumMismatch, CompleteInvalidContent,
           CompleteRolledBack, CompleteAgain, AbortUploadSession,
           CleanupExpired, MayAbort, IsExpired, CloseSession, Lapse, rows
      <3>2. ASSUME NEW u, NEW st \in {"UPLOADING", "FAILED"},
                   video' = [video EXCEPT ![u].status = st]
            PROVE  /\ video'[v].stored = video[v].stored
                   /\ video'[v].status = "READY" => video[v].status = "READY"
        BY <3>2 DEF TypeOK, VideoRow
      <3>. QED
        BY <3>1, <3>2
    <2>. QED
      BY <2>1, <2>2
  <1>. QED
    BY <1>0, <1>1 DEF RowsKept, VideoKept

LEMMA UploadsKeepVideos ==
  ASSUME LinkedRows, [Next]_vars, NEW v \in Videos, video[v].status # "NONE"
  PROVE  VideoKept(v)
  <1>1. ASSUME UNCHANGED <<video, token>> PROVE VideoKept(v)
    BY <1>1 DEF VideoKept
  <1>. QED
    BY <1>1, CreateKeepsVideos, SessionStepKeepsVideos
       DEF Next, RunHooks, LoseHooks, DestroyEvent, vars, rows

LEMMA UploadsKeepPlaying ==
  ASSUME PipelineInv, [Next]_vars, UNCHANGED pipeline,
         NEW v \in Videos \ marked
  PROVE  VideoPlays(v)'
  <1>. USE DEF PipelineInv
  <1>1. VideoPlays(v)
    OBVIOUS
  <1>2. Verified(v)'
    BY <1>1, VerifiedStep DEF LinkedRows, VideoPlays
  <1>3. UNCHANGED <<thumbnail, thumbFile, job>>
    BY DEF pipeline
  <1>4. CASE video[v].status # "NONE"
    <2>1. VideoKept(v)
      BY <1>4, UploadsKeepVideos
    <2>. QED
      BY <1>1, <1>2, <1>3, <2>1 DEF VideoPlays, VideoKept, ThumbnailReady
  <1>5. CASE video[v].status = "NONE"
    <2>1. ~thumbnail[v]
      BY <1>5 DEF WorkIsLinked
    <2>2. \A w \in Workers : job[w] # Idle => job[w].video # v
      BY <1>5 DEF WorkIsLinked
    <2>3. video'[v].status # "READY"
      <3>1. CASE \E r \in Requests : CreateUploadSession(r)
        BY <1>5, <3>1 DEF CreateUploadSession, LinkedRows, TypeOK
      <3>2. ASSUME NEW s \in Sessions, SessionStep(s)
            PROVE  video'[v].status = "NONE"
        BY <1>5, <3>2, SessionStepKeepsRows DEF RowsKept, LinkedRows
      <3>. QED
        BY <1>5, <3>1, <3>2
           DEF Next, RunHooks, LoseHooks, DestroyEvent, vars, rows
    <2>. QED
      BY <1>2, <1>3, <2>1, <2>2, <2>3 DEF VideoPlays
  <1>. QED
    BY <1>4, <1>5

LEMMA UploadsKeepWork ==
  ASSUME PipelineInv, [Next]_vars, UNCHANGED pipeline
  PROVE  WorkIsLinked'
  <1>. USE DEF PipelineInv
  <1>1. \A v \in Videos : video[v].status # "NONE" => VideoKept(v)
    BY UploadsKeepVideos
  <1>2. UNCHANGED <<thumbnail, job, deletes, marked>>
    BY DEF pipeline
  <1>3. \A w \in Workers : job[w] # Idle => job[w].video \in Videos
    BY DEF PipelineTypeOK, Jobs
  <1>4. \A d \in deletes : d.video \in Videos
    BY DEF PipelineTypeOK, Deletions
  <1>. QED
    BY <1>1, <1>2, <1>3, <1>4 DEF WorkIsLinked, VideoKept

LEMMA UploadsKeepSessionsOnDisk ==
  ASSUME PipelineInv, [Next]_vars, UNCHANGED pipeline,
         NEW s \in Sessions, session'[s].req.video \notin marked
  PROVE  SessionOnDisk(s)'
  <1>. USE DEF PipelineInv
  <1>1. SessionOnDisk(s)
    <2>1. CASE session'[s].req = session[s].req
      BY <2>1 DEF SessionOnDisk
    <2>2. CASE session'[s].req # session[s].req
      <3>1. PICK r \in Requests : CreateUploadSession(r)
        BY <2>2, SessionStepKeepsRows
           DEF Next, RunHooks, LoseHooks, DestroyEvent, vars, rows, RowsKept,
           LinkedRows
      <3>2. session[s].status = "NONE"
        BY <2>2, <3>1 DEF CreateUploadSession, LinkedRows, TypeOK, SessionRow
      <3>. QED
        BY <3>2, ActiveRow DEF SessionOnDisk
    <2>. QED
      BY <2>1, <2>2
  <1>. QED
    BY <1>1, OnDiskStep

LEMMA UploadsKeepPipelineInv ==
  ASSUME PipelineInv, [Next]_vars, UNCHANGED pipeline
  PROVE  PipelineInv'
  <1>1. LinkedRows' /\ PartsBelong'
    BY LinkedRowsStep, PartsBelongStep DEF PipelineInv
  <1>2. PipelineTypeOK'
    BY <1>1 DEF PipelineInv, PipelineTypeOK, LinkedRows, pipeline
  <1>3. marked' = marked
    BY DEF pipeline
  <1>. QED
    BY <1>1, <1>2, <1>3, UploadsKeepPlaying, UploadsKeepWork,
       UploadsKeepSessionsOnDisk DEF PipelineInv

-----------------------------------------------------------------------------
(***************************************************************************)
(* The steps of workers, the broker and deletions change the status of one *)
(* video and of its token, or neither.                                     *)
(***************************************************************************)
OwnStep ==
    \/ \E w \in Workers : TaskStep(w) \/ ExceedTimeLimit(w) \/ LoseWorker(w)
    \/ EnqueueUnprocessedVideos
    \/ DeletionStep

StatusStep(u) ==
    /\ video[u].status # "NONE"
    /\ \E st \in VideoStatuses \ {"NONE"} :
          video' = [video EXCEPT ![u].status = st]
    /\ \/ token' = token
       \/ \E ts \in TokenStatuses :
             token' = [token EXCEPT ![video[u].req.token].status = ts]

LinksKept ==
    /\ UNCHANGED <<session, parts, openEvents, hooks, reply>>
    /\ \A v \in Videos :
          /\ video'[v].req = video[v].req
          /\ video'[v].status = "NONE" <=> video[v].status = "NONE"
          /\ video'[v].stored = video[v].stored
    /\ \A t \in Tokens : token'[t].assigned = token[t].assigned

\* The video of an execution or a deletion is one that was uploaded.
LEMMA WorkHasVideo ==
  ASSUME PipelineTypeOK, LinkedRows, WorkIsLinked
  PROVE  /\ \A w \in Workers : job[w] # Idle =>
               /\ job[w] \in Jobs
               /\ job[w].video \in Videos
               /\ video[job[w].video].status # "NONE"
               /\ video[job[w].video].req \in Requests
               /\ video[job[w].video].req.token \in Tokens
         /\ \A d \in deletes :
               /\ d \in Deletions
               /\ d.video \in Videos
               /\ video[d.video].status # "NONE"
               /\ video[d.video].req.token \in Tokens
  BY UploadsAssumption
     DEF PipelineTypeOK, LinkedRows, WorkIsLinked, RowsHaveRequests, Jobs,
         Deletions

LEMMA WorkerStatusSteps ==
  ASSUME PipelineTypeOK, LinkedRows, WorkIsLinked,
         NEW w \in Workers
  PROVE  /\ \A v \in Videos, k \in 0 .. MaxRetries :
               StartPreparation(w, v, k) => StatusStep(v)
         /\ FinishPreparation(w) \/ FailPreparation(w) =>
               job[w] # Idle /\ StatusStep(job[w].video)
  <1>1. ASSUME NEW v \in Videos, NEW k \in 0 .. MaxRetries,
               StartPreparation(w, v, k)
        PROVE  StatusStep(v)
    <2>1. video[v].status # "NONE" /\ "PROCESSING" \in VideoStatuses \ {"NONE"}
      BY <1>1 DEF StartPreparation, Preparable, VideoStatuses
    <2>. QED
      BY <1>1, <2>1 DEF StartPreparation, StatusStep
  <1>2. ASSUME FinishPreparation(w)
        PROVE  job[w] # Idle /\ StatusStep(job[w].video)
    <2>1. job[w] # Idle /\ video[job[w].video].status # "NONE"
      BY <1>2, WorkHasVideo DEF FinishPreparation, ThumbnailWritten, InPhase
    <2>2. "READY" \in VideoStatuses \ {"NONE"} /\ "READY" \in TokenStatuses
      BY DEF VideoStatuses, TokenStatuses
    <2>. QED
      BY <1>2, <2>1, <2>2 DEF FinishPreparation, StatusStep
  <1>3. ASSUME FailPreparation(w)
        PROVE  job[w] # Idle /\ StatusStep(job[w].video)
    <2>1. job[w] # Idle /\ video[job[w].video].status # "NONE"
      BY <1>3, WorkHasVideo DEF FailPreparation, AnalysisFails, InPhase
    <2>2. "FAILED" \in VideoStatuses \ {"NONE"}
      BY DEF VideoStatuses
    <2>. QED
      BY <1>3, <2>1, <2>2 DEF FailPreparation, StatusStep
  <1>. QED
    BY <1>1, <1>2, <1>3

LEMMA DeletionStatusSteps ==
  ASSUME PipelineTypeOK, LinkedRows, WorkIsLinked
  PROVE  /\ \A v \in Videos : MarkForDeletion(v) => StatusStep(v)
         /\ \A d \in deletes : FinishDeletion(d) => StatusStep(d.video)
  <1>1. ASSUME NEW v \in Videos, MarkForDeletion(v) PROVE StatusStep(v)
    <2>1. "PENDING_DELETE" \in VideoStatuses \ {"NONE"}
      BY DEF VideoStatuses
    <2>. QED
      BY <1>1, <2>1 DEF MarkForDeletion, StatusStep
  <1>2. ASSUME NEW d \in deletes, FinishDeletion(d) PROVE StatusStep(d.video)
    <2>1. "DELETED" \in VideoStatuses \ {"NONE"} /\ "EXPIRED" \in TokenStatuses
      BY DEF VideoStatuses, TokenStatuses
    <2>. QED
      BY <1>2, <2>1, WorkHasVideo DEF FinishDeletion, StatusStep
  <1>. QED
    BY <1>1, <1>2

\* Every other step leaves the rows of videos and tokens alone.
LEMMA OwnStepRows ==
  ASSUME PipelineTypeOK, LinkedRows, WorkIsLinked, OwnStep
  PROVE  /\ UNCHANGED <<session, parts, openEvents, hooks, reply>>
         /\ UNCHANGED <<video, token>> \/ \E u \in Videos : StatusStep(u)
  <1>1. ASSUME NEW w \in Workers, TaskStep(w)
        PROVE  /\ UNCHANGED <<session, parts, openEvents, hooks, reply>>
               /\ UNCHANGED <<video, token>> \/ \E u \in Videos : StatusStep(u)
    <2>1. ASSUME NEW v \in Videos, NEW k \in 0 .. MaxRetries,
                 StartPreparation(w, v, k) \/ SkipPreparation(w, v, k)
          PROVE  /\ UNCHANGED <<session, parts, openEvents, hooks, reply>>
                 /\ UNCHANGED <<video, token>> \/ StatusStep(v)
      BY <2>1, WorkerStatusSteps DEF StartPreparation, SkipPreparation, rows
    <2>2. CASE FinishPreparation(w) \/ FailPreparation(w)
      BY <2>2, WorkerStatusSteps, WorkHasVideo
         DEF FinishPreparation, FailPreparation
    <2>3. CASE \/ ReadSource(w) \/ WriteThumbnail(w) \/ FailTransaction(w)
               \/ RetryPreparation(w)
      BY <2>3 DEF ReadSource, WriteThumbnail, FailTransaction,
         RetryPreparation, vars, rows
    <2>. QED
      BY <1>1, <2>1, <2>2, <2>3 DEF TaskStep
  <1>2. ASSUME NEW w \in Workers, ExceedTimeLimit(w) \/ LoseWorker(w)
        PROVE  UNCHANGED <<session, parts, openEvents, hooks, reply, video, token>>
    BY <1>2 DEF ExceedTimeLimit, LoseWorker, vars, rows
  <1>3. CASE EnqueueUnprocessedVideos
    BY <1>3 DEF EnqueueUnprocessedVideos, rows
  <1>4. CASE DeletionStep
    <2>1. ASSUME NEW v \in Videos, MarkForDeletion(v)
          PROVE  /\ UNCHANGED <<session, parts, openEvents, hooks, reply>>
                 /\ StatusStep(v)
      BY <2>1, DeletionStatusSteps DEF MarkForDeletion
    <2>2. ASSUME NEW d \in deletes, FinishDeletion(d)
          PROVE  /\ UNCHANGED <<session, parts, openEvents, hooks, reply>>
                 /\ d.video \in Videos /\ StatusStep(d.video)
      BY <2>2, DeletionStatusSteps, WorkHasVideo DEF FinishDeletion
    <2>3. ASSUME NEW d \in deletes, RemoveFiles(d) \/ AbandonDeletion(d)
          PROVE  UNCHANGED <<session, parts, openEvents, hooks, reply, video,
                             token>>
      BY <2>3 DEF RemoveFiles, AbandonDeletion, rows
    <2>. QED
      BY <1>4, <2>1, <2>2, <2>3 DEF DeletionStep
  <1>. QED
    BY <1>1, <1>2, <1>3, <1>4 DEF OwnStep

LEMMA StatusStepKeepsLinks ==
  ASSUME TypeOK, NEW u \in Videos, StatusStep(u)
  PROVE  /\ video' \in [Videos -> VideoRow]
         /\ token' \in [Tokens -> TokenRow]
         /\ \A v \in Videos :
               /\ video'[v].req = video[v].req
               /\ video'[v].status = "NONE" <=> video[v].status = "NONE"
               /\ video'[v].stored = video[v].stored
               /\ v # u => video'[v] = video[v]
         /\ \A t \in Tokens :
               /\ token'[t].assigned = token[t].assigned
               /\ t # video[u].req.token => token'[t] = token[t]
  <1>1. PICK st \in VideoStatuses \ {"NONE"} :
             video' = [video EXCEPT ![u].status = st]
    BY DEF StatusStep
  <1>2. video' \in [Videos -> VideoRow]
    BY <1>1, VideoStatusUpdate DEF TypeOK
  <1>3. ASSUME NEW v \in Videos
        PROVE  /\ video'[v].req = video[v].req
               /\ video'[v].status = "NONE" <=> video[v].status = "NONE"
               /\ video'[v].stored = video[v].stored
               /\ v # u => video'[v] = video[v]
    <2>1. video[u].status # "NONE" /\ st # "NONE"
      BY <1>1 DEF StatusStep
    <2>. QED
      BY <1>1, <2>1 DEF TypeOK, VideoRow
  <1>4. /\ token' \in [Tokens -> TokenRow]
        /\ \A t \in Tokens :
               /\ token'[t].assigned = token[t].assigned
               /\ t # video[u].req.token => token'[t] = token[t]
    <2>1. CASE token' = token
      BY <2>1 DEF TypeOK
    <2>2. ASSUME NEW ts \in TokenStatuses,
                 token' = [token EXCEPT ![video[u].req.token].status = ts]
          PROVE  /\ token' \in [Tokens -> TokenRow]
                 /\ \A t \in Tokens :
                      /\ token'[t].assigned = token[t].assigned
                      /\ t # video[u].req.token => token'[t] = token[t]
      BY <2>2 DEF TypeOK, TokenRow
    <2>. QED
      BY <2>1, <2>2 DEF StatusStep
  <1>. QED
    BY <1>2, <1>3, <1>4

LEMMA OwnStepKeepsLinks ==
  ASSUME PipelineTypeOK, LinkedRows, WorkIsLinked, OwnStep
  PROVE  LinksKept
  <1>1. /\ UNCHANGED <<session, parts, openEvents, hooks, reply>>
        /\ UNCHANGED <<video, token>> \/ \E u \in Videos : StatusStep(u)
    BY OwnStepRows
  <1>2. ASSUME NEW u \in Videos, StatusStep(u) PROVE LinksKept
    BY <1>1, <1>2, StatusStepKeepsLinks DEF LinkedRows, LinksKept
  <1>. QED
    BY <1>1, <1>2 DEF LinksKept

LEMMA LinksKeptStay ==
  ASSUME LinkedRows, TypeOK', LinksKept
  PROVE  LinkedRows'
  <1>. USE DEF LinkedRows
  <1>1. RowsHaveRequests'
    <2>1. \A s \in Sessions : session[s].status # "NONE" =>
              session[s].req.video \in Videos
      BY LiveRow
    <2>. QED
      BY <2>1 DEF LinksKept, RowsHaveRequests, SameVideo
  <1>2. OneActiveSession'
    BY DEF LinksKept, OneActiveSession, Active
  <1>3. TokensBindOneVideo'
    <2>1. \A v \in Videos : video[v].status # "NONE" =>
              video[v].req.token \in Tokens
      BY UploadsAssumption DEF RowsHaveRequests
    <2>2. \A t \in Tokens : token[t].assigned # NoVideo =>
              token[t].assigned \in Videos
      BY DEF TypeOK, TokenRow
    <2>. QED
      BY <2>1, <2>2 DEF LinksKept, TokensBindOneVideo
  <1>4. AnswersFollowCommits'
    <2>1. \A s \in Sessions : session[s].status = "COMPLETED" =>
              session[s].req.video \in Videos
      BY LiveRow
    <2>. QED
      BY <2>1 DEF LinksKept, AnswersFollowCommits
  <1>. QED
    BY <1>1, <1>2, <1>3, <1>4

-----------------------------------------------------------------------------
(***************************************************************************)
(* Messages, executions, files and deletions keep their shape.             *)
(***************************************************************************)
FilesAndWork ==
    /\ partFile \in [Sessions -> [AllPartNumbers -> Bodies \cup {NoFile}]]
    /\ videoFile \in [Videos -> {r.sha : r \in Requests} \cup {NoFile}]
    /\ queue \in [Videos -> Nat]
    /\ retry \in [Videos -> [1 .. MaxRetries -> Nat]]
    /\ job \in [Workers -> Jobs \cup {Idle}]
    /\ thumbFile \in [Videos -> {r.sha : r \in Requests} \cup {NoFile}]
    /\ thumbnail \in [Videos -> BOOLEAN]
    /\ deletes \subseteq Deletions
    /\ marked \subseteq Videos
    /\ losses \in 0 .. MaxLosses

LEMMA MessageTypes ==
  ASSUME queue \in [Videos -> Nat],
         retry \in [Videos -> [1 .. MaxRetries -> Nat]],
         NEW v \in Videos, NEW k \in 0 .. MaxRetries,
         TakeMessage(v, k) \/ Redeliver(v, k)
  PROVE  /\ queue' \in [Videos -> Nat]
         /\ retry' \in [Videos -> [1 .. MaxRetries -> Nat]]
  <1>. USE PipelineAssumption
  <1>1. CASE k = 0
    <2>1. retry' = retry
      BY <1>1 DEF TakeMessage, Redeliver, AddMessages
    <2>2. \E n \in Nat : queue' = [queue EXCEPT ![v] = n]
      <3>1. CASE TakeMessage(v, k)
        <4>1. queue[v] - 1 \in Nat
          BY <1>1, <3>1 DEF TakeMessage, HasMessage
        <4>2. queue' = [queue EXCEPT ![v] = queue[v] - 1]
          BY <1>1, <3>1 DEF TakeMessage, AddMessages
        <4>. QED
          BY <4>1, <4>2
      <3>2. CASE Redeliver(v, k)
        BY <1>1, <3>2 DEF Redeliver, AddMessages
      <3>. QED
        BY <3>1, <3>2
    <2>. QED
      BY <2>1, <2>2
  <1>2. CASE k # 0
    <2>0. k \in 1 .. MaxRetries
      BY <1>2
    <2>1. queue' = queue
      BY <1>2 DEF TakeMessage, Redeliver, AddMessages
    <2>2. \E n \in Nat : retry' = [retry EXCEPT ![v][k] = n]
      <3>1. CASE TakeMessage(v, k)
        <4>1. retry[v][k] - 1 \in Nat
          BY <1>2, <2>0, <3>1 DEF TakeMessage, HasMessage
        <4>2. retry' = [retry EXCEPT ![v][k] = retry[v][k] - 1]
          BY <1>2, <3>1 DEF TakeMessage, AddMessages
        <4>. QED
          BY <4>1, <4>2
      <3>2. CASE Redeliver(v, k)
        BY <1>2, <2>0, <3>2 DEF Redeliver, AddMessages
      <3>. QED
        BY <3>1, <3>2
    <2>. QED
      BY <2>0, <2>1, <2>2
  <1>. QED
    BY <1>1, <1>2

LEMMA OneMoreRetry ==
  ASSUME retry \in [Videos -> [1 .. MaxRetries -> Nat]],
         NEW v \in Videos, NEW n \in 1 .. MaxRetries,
         retry' = [retry EXCEPT ![v][n] = @ + 1]
  PROVE  retry' \in [Videos -> [1 .. MaxRetries -> Nat]]
  BY PipelineAssumption

\* delete_many touches the files of one video only.
LEMMA DeleteManySpares ==
  ASSUME FilesAndWork, NEW d \in Deletions, NEW what, DeleteMany(d, what)
  PROVE  /\ partFile' \in [Sessions -> [AllPartNumbers -> Bodies \cup {NoFile}]]
         /\ videoFile' \in [Videos -> {r.sha : r \in Requests} \cup {NoFile}]
         /\ thumbFile' \in [Videos -> {r.sha : r \in Requests} \cup {NoFile}]
         /\ \A v \in Videos \ {d.video} :
               videoFile'[v] = videoFile[v] /\ thumbFile'[v] = thumbFile[v]
         /\ \A s \in Sessions \ SessionsOf(d.video) : partFile'[s] = partFile[s]
  <1>. DEFINE gone == IF "parts" \in what THEN PartsOfVideo(d.video) ELSE {}
  <1>1. partFile' = [s \in Sessions |-> [n \in AllPartNumbers |->
                       IF <<s, n>> \in gone THEN NoFile ELSE partFile[s][n]]]
    BY DEF DeleteMany
  <1>2. ASSUME NEW s \in Sessions \ SessionsOf(d.video)
        PROVE  partFile'[s] = partFile[s]
    <2>1. \A n \in AllPartNumbers : <<s, n>> \notin gone
      BY DEF PartsOfVideo
    <2>. HIDE DEF gone
    <2>. QED
      BY <1>1, <2>1 DEF FilesAndWork
  <1>3. partFile' \in [Sessions -> [AllPartNumbers -> Bodies \cup {NoFile}]]
    <2>. HIDE DEF gone
    <2>. QED
      BY <1>1 DEF FilesAndWork
  <1>. QED
    BY <1>2, <1>3 DEF DeleteMany, FilesAndWork

LEMMA TaskTypes ==
  ASSUME FilesAndWork, LinkedRows, PipelineTypeOK, WorkIsLinked,
         NEW w \in Workers, TaskStep(w)
  PROVE  FilesAndWork'
  <1>. USE DEF FilesAndWork
  <1>1. ASSUME NEW v \in Videos, NEW k \in 0 .. MaxRetries,
               StartPreparation(w, v, k)
        PROVE  FilesAndWork'
    <2>1. [video |-> v, retries |-> k, phase |-> "reading",
           stored |-> video[v].stored] \in Jobs
      BY DEF Jobs, Phases, LinkedRows, TypeOK, VideoRow
    <2>. QED
      BY <1>1, <2>1, MessageTypes DEF StartPreparation, files
  <1>2. ASSUME NEW v \in Videos, NEW k \in 0 .. MaxRetries,
               SkipPreparation(w, v, k)
        PROVE  FilesAndWork'
    BY <1>2, MessageTypes DEF SkipPreparation, files
  <1>3. ASSUME NEW phase \in Phases, job[w] # Idle,
               job' = [job EXCEPT ![w].phase = phase]
        PROVE  job' \in [Workers -> Jobs \cup {Idle}]
    BY <1>3, WorkHasVideo DEF Jobs
  <1>4. CASE ReadSource(w) \/ FailTransaction(w)
    BY <1>3, <1>4 DEF ReadSource, FailTransaction, InPhase, MoveTo, Phases,
       vars, files
  <1>5. CASE WriteThumbnail(w)
    <2>1. job[w] # Idle /\ job' = [job EXCEPT ![w].phase = "written"]
      BY <1>5 DEF WriteThumbnail, InPhase, MoveTo
    <2>2. thumbFile' \in [Videos -> {r.sha : r \in Requests} \cup {NoFile}]
      BY <1>5, <2>1, WorkHasVideo DEF WriteThumbnail
    <2>. QED
      BY <1>3, <1>5, <2>1, <2>2 DEF WriteThumbnail, Phases, vars, files
  <1>6. CASE FinishPreparation(w)
    <2>1. thumbnail' \in [Videos -> BOOLEAN]
      BY <1>6 DEF FinishPreparation
    <2>. QED
      BY <1>6, <2>1 DEF FinishPreparation, files
  <1>7. CASE FailPreparation(w)
    BY <1>3, <1>7 DEF FailPreparation, AnalysisFails, InPhase, MoveTo, Phases, files
  <1>8. CASE RetryPreparation(w)
    <2>. DEFINE v == job[w].video
                k == job[w].retries
    <2>1. v \in Videos /\ k \in 0 .. MaxRetries
      BY <1>8, WorkHasVideo DEF RetryPreparation, InPhase, Jobs
    <2>2. retry' \in [Videos -> [1 .. MaxRetries -> Nat]]
      <3>1. CASE retry' = retry
        BY <3>1
      <3>2. CASE k < MaxRetries /\ retry' = [retry EXCEPT ![v][k + 1] = @ + 1]
        <4>1. k + 1 \in 1 .. MaxRetries
          BY <2>1, <3>2, PipelineAssumption
        <4>. DEFINE n == k + 1
        <4>2. n \in 1 .. MaxRetries /\ retry' = [retry EXCEPT ![v][n] = @ + 1]
          BY <3>2, <4>1
        <4>. HIDE DEF v, n
        <4>. QED
          BY <2>1, <4>2, OneMoreRetry
      <3>. QED
        BY <1>8, <3>1, <3>2 DEF RetryPreparation
    <2>. QED
      BY <1>8, <2>2 DEF RetryPreparation, vars, files
  <1>. QED
    BY <1>1, <1>2, <1>4, <1>5, <1>6, <1>7, <1>8 DEF TaskStep

LEMMA DeletionTypes ==
  ASSUME FilesAndWork, LinkedRows, PipelineTypeOK, WorkIsLinked, DeletionStep
  PROVE  FilesAndWork'
  <1>. USE DEF FilesAndWork
  <1>1. ASSUME NEW v \in Videos, MarkForDeletion(v) PROVE FilesAndWork'
    <2>1. [video |-> v, stored |-> video[v].stored,
           thumbnail |-> thumbnail[v], removed |-> FALSE] \in Deletions
      BY DEF Deletions, LinkedRows, TypeOK, VideoRow
    <2>. QED
      BY <1>1, <2>1 DEF MarkForDeletion, files
  <1>2. ASSUME NEW d \in deletes, RemoveFiles(d) PROVE FilesAndWork'
    <2>1. d \in Deletions /\ [d EXCEPT !.removed = TRUE] \in Deletions
      BY DEF Deletions
    <2>2. DeleteMany(d, {"video", "thumbnail", "parts"})
      BY <1>2 DEF RemoveFiles
    <2>. QED
      BY <1>2, <2>1, <2>2, DeleteManySpares DEF RemoveFiles, rows
  <1>3. ASSUME NEW d \in deletes, AbandonDeletion(d) PROVE FilesAndWork'
    <2>1. PICK what : DeleteMany(d, what)
      BY <1>3 DEF AbandonDeletion
    <2>. QED
      BY <1>3, <2>1, DeleteManySpares DEF AbandonDeletion, rows
  <1>4. ASSUME NEW d \in deletes, FinishDeletion(d) PROVE FilesAndWork'
    BY <1>4 DEF FinishDeletion, files
  <1>. QED
    BY <1>1, <1>2, <1>3, <1>4 DEF DeletionStep

LEMMA OwnStepTypes ==
  ASSUME LinkedRows, PipelineTypeOK, WorkIsLinked, OwnStep
  PROVE  TypeOK' /\ PipelineTypeOK'
  <1>0. FilesAndWork
    BY DEF FilesAndWork, PipelineTypeOK, TypeOK
  <1>1. FilesAndWork'
    <2>. USE <1>0 DEF FilesAndWork
    <2>1. ASSUME NEW w \in Workers, ExceedTimeLimit(w) PROVE FilesAndWork'
      BY <2>1 DEF ExceedTimeLimit, vars, files
    <2>2. ASSUME NEW w \in Workers, LoseWorker(w) PROVE FilesAndWork'
      <3>1. job[w] \in Jobs /\ Redeliver(job[w].video, job[w].retries)
        BY <2>2, WorkHasVideo DEF LoseWorker
      <3>2. /\ queue' \in [Videos -> Nat]
            /\ retry' \in [Videos -> [1 .. MaxRetries -> Nat]]
        BY <3>1, MessageTypes DEF Jobs
      <3>3. losses' \in 0 .. MaxLosses
        BY <2>2, PipelineAssumption DEF LoseWorker
      <3>. QED
        BY <2>2, <3>2, <3>3 DEF LoseWorker, files
    <2>3. CASE EnqueueUnprocessedVideos
      <3>1. queue' \in [Videos -> Nat]
        BY <2>3 DEF EnqueueUnprocessedVideos
      <3>. QED
        BY <2>3, <3>1 DEF EnqueueUnprocessedVideos, files, pipeline
    <2>. QED
      BY <2>1, <2>2, <2>3, TaskTypes, DeletionTypes DEF OwnStep
  <1>2. /\ UNCHANGED <<session, parts, openEvents, hooks, reply>>
        /\ UNCHANGED <<video, token>> \/ \E u \in Videos : StatusStep(u)
    BY OwnStepRows
  <1>3. video' \in [Videos -> VideoRow] /\ token' \in [Tokens -> TokenRow]
    BY <1>2, StatusStepKeepsLinks DEF LinkedRows, TypeOK
  <1>4. TypeOK'
    BY <1>1, <1>2, <1>3 DEF LinkedRows, TypeOK, FilesAndWork
  <1>. QED
    BY <1>1, <1>4 DEF PipelineTypeOK, FilesAndWork

-----------------------------------------------------------------------------
(***************************************************************************)
(* What executions and deletions rely on.                                  *)
(***************************************************************************)
\* An execution begins with the row it reads, and goes on one step at a time.
LEMMA OwnStepJobs ==
  ASSUME PipelineTypeOK, LinkedRows, WorkIsLinked, OwnStep,
         NEW x \in Workers, job'[x] # Idle
  PROVE  \/ job'[x] = job[x]
         \/ /\ job[x] # Idle
            /\ job'[x].video = job[x].video
            /\ job'[x].stored = job[x].stored
            /\ job'[x].phase \in {"writing", "written"} => job[x].stored
            /\ job'[x].phase = "written" =>
                  thumbFile'[job[x].video] = video[job[x].video].req.sha
         \/ /\ video[job'[x].video].status # "NONE"
            /\ job'[x].video \in Videos
            /\ job'[x].stored = video[job'[x].video].stored
            /\ job'[x].phase = "reading"
  <1>. DEFINE Goal == \/ job'[x] = job[x]
                      \/ /\ job[x] # Idle
                         /\ job'[x].video = job[x].video
                         /\ job'[x].stored = job[x].stored
                         /\ job'[x].phase \in {"writing", "written"} =>
                               job[x].stored
                         /\ job'[x].phase = "written" =>
                               thumbFile'[job[x].video] =
                                   video[job[x].video].req.sha
                      \/ /\ video[job'[x].video].status # "NONE"
                         /\ job'[x].video \in Videos
                         /\ job'[x].stored = video[job'[x].video].stored
                         /\ job'[x].phase = "reading"
  <1>0. job \in [Workers -> Jobs \cup {Idle}]
    BY DEF PipelineTypeOK
  <1>1. ASSUME NEW w \in Workers, NEW v \in Videos, NEW k \in 0 .. MaxRetries,
               StartPreparation(w, v, k)
        PROVE  Goal
    <2>1. video[v].status # "NONE"
      BY <1>1 DEF StartPreparation, Preparable
    <2>. QED
      BY <1>0, <1>1, <2>1 DEF StartPreparation
  <1>2. ASSUME NEW w \in Workers, NEW phase, job[w] # Idle,
               job' = [job EXCEPT ![w].phase = phase],
               phase = "writing" => job[w].stored,
               phase = "written" =>
                  /\ job[w].phase = "writing"
                  /\ thumbFile'[job[w].video] = video[job[w].video].req.sha
        PROVE  Goal
    <2>1. CASE x # w
      BY <1>0, <1>2, <2>1
    <2>2. CASE x = w
      <3>1. job[x] \in Jobs
        BY <1>0, <1>2, <2>2
      <3>2. /\ job'[x].video = job[x].video
            /\ job'[x].stored = job[x].stored
            /\ job'[x].phase = phase
        BY <1>0, <1>2, <2>2, <3>1 DEF Jobs
      <3>3. phase = "written" => job[x].stored
        BY <1>2, <2>2 DEF WorkIsLinked
      <3>. QED
        BY <1>2, <2>2, <3>2, <3>3
    <2>. QED
      BY <2>1, <2>2
  <1>3. ASSUME NEW w \in Workers, WriteThumbnail(w) PROVE Goal
    <2>1. job[w] # Idle /\ job[w].phase = "writing"
      BY <1>3 DEF WriteThumbnail, InPhase
    <2>2. thumbFile'[job[w].video] = video[job[w].video].req.sha
      BY <1>3, <2>1, WorkHasVideo DEF WriteThumbnail, PipelineTypeOK
    <2>3. /\ job[w].stored
          /\ job' = [job EXCEPT ![w].phase = "written"]
      BY <1>3, <2>1 DEF WriteThumbnail, MoveTo, WorkIsLinked
    <2>4. CASE x # w
      BY <1>0, <2>3, <2>4
    <2>5. CASE x = w
      BY <1>0, <2>1, <2>2, <2>3, <2>5 DEF Jobs
    <2>. QED
      BY <2>4, <2>5
  <1>4. ASSUME NEW w \in Workers,
               ReadSource(w) \/ FailPreparation(w) \/ FailTransaction(w)
        PROVE  Goal
    <2>1. CASE ReadSource(w)
      BY <1>2, <2>1 DEF ReadSource, InPhase, SourceExists, MoveTo
    <2>2. CASE FailPreparation(w) \/ FailTransaction(w)
      BY <1>2, <2>2 DEF FailPreparation, AnalysisFails, FailTransaction, InPhase, MoveTo
    <2>. QED
      BY <1>4, <2>1, <2>2
  <1>5. ASSUME job' = job \/ \E w \in Workers : job' = [job EXCEPT ![w] = Idle]
        PROVE  Goal
    BY <1>0, <1>5
  <1>6. ASSUME NEW w \in Workers,
               \/ FinishPreparation(w) \/ RetryPreparation(w)
               \/ ExceedTimeLimit(w) \/ LoseWorker(w)
               \/ \E v \in Videos, k \in 0 .. MaxRetries :
                     SkipPreparation(w, v, k)
        PROVE  Goal
    BY <1>5, <1>6 DEF FinishPreparation, RetryPreparation, ExceedTimeLimit,
       LoseWorker, SkipPreparation
  <1>7. ASSUME EnqueueUnprocessedVideos \/ DeletionStep PROVE Goal
    BY <1>5, <1>7 DEF EnqueueUnprocessedVideos, DeletionStep, MarkForDeletion,
       RemoveFiles, FinishDeletion, AbandonDeletion, pipeline
  <1>. HIDE DEF Goal
  <1>8. ASSUME NEW w \in Workers, TaskStep(w) PROVE Goal
    BY <1>1, <1>3, <1>4, <1>6, <1>8 DEF TaskStep
  <1>9. Goal
    BY <1>6, <1>7, <1>8 DEF OwnStep
  <1>. QED
    BY <1>9 DEF Goal

\* A video becomes shown by the last transaction of an execution only.
Prepared(v) ==
    \E w \in Workers :
        job[w] # Idle /\ job[w].video = v /\ job[w].phase = "written"

LEMMA ThumbnailsFollowWork ==
  ASSUME PipelineTypeOK, LinkedRows, WorkIsLinked, OwnStep, NEW v \in Videos
  PROVE  /\ thumbnail[v] => thumbnail'[v]
         /\ thumbnail'[v] => thumbnail[v] \/ Prepared(v)
         /\ marked \subseteq marked'
  <1>. DEFINE Goal == /\ thumbnail[v] => thumbnail'[v]
                      /\ thumbnail'[v] => thumbnail[v] \/ Prepared(v)
                      /\ marked \subseteq marked'
  <1>1. ASSUME NEW w \in Workers, FinishPreparation(w) PROVE Goal
    BY <1>1 DEF FinishPreparation, ThumbnailWritten, InPhase, Prepared,
       PipelineTypeOK
  <1>2. ASSUME thumbnail' = thumbnail, marked \subseteq marked' PROVE Goal
    BY <1>2
  <1>3. ASSUME NEW w \in Workers, TaskStep(w), ~FinishPreparation(w)
        PROVE  Goal
    BY <1>2, <1>3 DEF TaskStep, StartPreparation, SkipPreparation, ReadSource,
       WriteThumbnail, FailPreparation, FailTransaction, RetryPreparation
  <1>4. ASSUME NEW w \in Workers, ExceedTimeLimit(w) \/ LoseWorker(w)
        PROVE  Goal
    BY <1>2, <1>4 DEF ExceedTimeLimit, LoseWorker
  <1>5. ASSUME EnqueueUnprocessedVideos \/ DeletionStep PROVE Goal
    BY <1>2, <1>5 DEF EnqueueUnprocessedVideos, DeletionStep, MarkForDeletion,
       RemoveFiles, FinishDeletion, AbandonDeletion, pipeline
  <1>. HIDE DEF Goal
  <1>6. ASSUME NEW w \in Workers, TaskStep(w) PROVE Goal
    BY <1>1, <1>3, <1>6
  <1>7. Goal
    BY <1>4, <1>5, <1>6 DEF OwnStep
  <1>. QED
    BY <1>7 DEF Goal

LEMMA OwnStepKeepsWork ==
  ASSUME PipelineTypeOK, LinkedRows, WorkIsLinked, OwnStep
  PROVE  WorkIsLinked'
  <1>1. LinksKept
    BY OwnStepKeepsLinks
  <1>2. ASSUME NEW v \in Videos, thumbnail'[v]
        PROVE  video'[v].status # "NONE"
    BY <1>1, <1>2, ThumbnailsFollowWork DEF WorkIsLinked, LinksKept, Prepared
  <1>3. ASSUME NEW w \in Workers, job'[w] # Idle
        PROVE  /\ video'[job'[w].video].status # "NONE"
               /\ job'[w].stored => video'[job'[w].video].stored
               /\ job'[w].phase \in {"writing", "written"} => job'[w].stored
    <2>1. CASE job'[w] = job[w]
      BY <1>1, <1>3, <2>1, WorkHasVideo DEF WorkIsLinked, LinksKept
    <2>2. CASE job'[w] # job[w]
      BY <1>1, <1>3, <2>2, OwnStepJobs, WorkHasVideo DEF WorkIsLinked, LinksKept
    <2>. QED
      BY <2>1, <2>2
  <1>4. ASSUME NEW d \in deletes'
        PROVE  d.video \in marked' /\ video'[d.video].status # "NONE"
    <2>1. \/ \E e \in deletes : d.video = e.video
          \/ \E v \in Videos : /\ MarkForDeletion(v)
                               /\ d.video = v
                               /\ v \in marked'
                               /\ video[v].status # "NONE"
      <3>1. CASE deletes' \subseteq deletes
        BY <3>1
      <3>2. ASSUME NEW v \in Videos, MarkForDeletion(v)
            PROVE  \/ d \in deletes
                   \/ /\ d.video = v
                      /\ v \in marked'
                      /\ video[v].status # "NONE"
        BY <3>2 DEF MarkForDeletion
      <3>3. ASSUME NEW e \in deletes, RemoveFiles(e)
            PROVE  \/ d \in deletes
                   \/ d.video = e.video
        <4>1. e \in Deletions
          BY WorkHasVideo
        <4>. QED
          BY <3>3, <4>1 DEF RemoveFiles, Deletions
      <3>4. ASSUME NEW w \in Workers, TaskStep(w) PROVE deletes' = deletes
        BY <3>4 DEF TaskStep, StartPreparation, SkipPreparation, ReadSource,
           WriteThumbnail, FailPreparation, FailTransaction,
           RetryPreparation, FinishPreparation
      <3>5. CASE DeletionStep
        BY <3>1, <3>2, <3>3, <3>5 DEF DeletionStep, FinishDeletion,
           AbandonDeletion
      <3>6. CASE ~DeletionStep
        BY <3>1, <3>4, <3>6 DEF OwnStep, ExceedTimeLimit, LoseWorker,
           EnqueueUnprocessedVideos, pipeline
      <3>. QED
        BY <3>5, <3>6
    <2>2. CASE \E e \in deletes : d.video = e.video
      BY <1>1, <2>2, WorkHasVideo, ThumbnailsFollowWork
         DEF WorkIsLinked, LinksKept
    <2>3. CASE \E v \in Videos : /\ d.video = v
                                 /\ v \in marked'
                                 /\ video[v].status # "NONE"
      BY <1>1, <2>3 DEF LinksKept
    <2>. QED
      BY <2>1, <2>2, <2>3
  <1>. QED
    BY <1>2, <1>3, <1>4 DEF WorkIsLinked

-----------------------------------------------------------------------------
(***************************************************************************)
(* Videos that nobody asked to delete.                                     *)
(***************************************************************************)
\* A deletion keeps to the files of its video, and an execution writes the
\* thumbnail of its video only.
LEMMA OwnStepFiles ==
  ASSUME PipelineTypeOK, LinkedRows, WorkIsLinked, OwnStep
  PROVE  /\ \A v \in Videos \ marked' :
               /\ videoFile'[v] = videoFile[v]
               /\ thumbFile'[v] \in {thumbFile[v], video[v].req.sha}
         /\ \A s \in Sessions :
               session[s].status # "NONE" /\ session[s].req.video \notin marked'
               => partFile'[s] = partFile[s]
  <1>. DEFINE Goal ==
         /\ \A v \in Videos \ marked' :
               /\ videoFile'[v] = videoFile[v]
               /\ thumbFile'[v] \in {thumbFile[v], video[v].req.sha}
         /\ \A s \in Sessions :
               session[s].status # "NONE" /\ session[s].req.video \notin marked'
               => partFile'[s] = partFile[s]
  <1>1. ASSUME UNCHANGED <<partFile, videoFile, thumbFile>> PROVE Goal
    BY <1>1
  <1>2. ASSUME NEW d \in deletes, NEW what, DeleteMany(d, what),
               marked' = marked
        PROVE  Goal
    <2>1. d \in Deletions /\ d.video \in marked
      BY WorkHasVideo DEF WorkIsLinked
    <2>2. FilesAndWork
      BY DEF FilesAndWork, PipelineTypeOK, TypeOK
    <2>. QED
      BY <1>2, <2>1, <2>2, DeleteManySpares DEF SessionsOf
  <1>3. ASSUME NEW w \in Workers, WriteThumbnail(w) PROVE Goal
    BY <1>3, WorkHasVideo DEF WriteThumbnail, InPhase, vars, files,
       PipelineTypeOK
  <1>4. ASSUME NEW w \in Workers, TaskStep(w), ~WriteThumbnail(w) PROVE Goal
    <2>. HIDE DEF Goal
    <2>. QED
      BY <1>1, <1>4 DEF TaskStep, StartPreparation, SkipPreparation,
         ReadSource, FinishPreparation, FailPreparation, FailTransaction,
         RetryPreparation, vars, files
  <1>5. ASSUME NEW w \in Workers, ExceedTimeLimit(w) \/ LoseWorker(w)
        PROVE  Goal
    <2>. HIDE DEF Goal
    <2>. QED
      BY <1>1, <1>5 DEF ExceedTimeLimit, LoseWorker, vars, files
  <1>6. ASSUME EnqueueUnprocessedVideos PROVE Goal
    <2>. HIDE DEF Goal
    <2>. QED
      BY <1>1, <1>6 DEF EnqueueUnprocessedVideos, files, pipeline
  <1>7. ASSUME DeletionStep PROVE Goal
    <2>. HIDE DEF Goal
    <2>1. ASSUME NEW v \in Videos, MarkForDeletion(v) PROVE Goal
      BY <1>1, <2>1 DEF MarkForDeletion, files
    <2>2. ASSUME NEW d \in deletes, FinishDeletion(d) PROVE Goal
      BY <1>1, <2>2 DEF FinishDeletion, files
    <2>3. ASSUME NEW d \in deletes, RemoveFiles(d) PROVE Goal
      BY <1>2, <2>3 DEF RemoveFiles
    <2>4. ASSUME NEW d \in deletes, AbandonDeletion(d) PROVE Goal
      BY <1>2, <2>4 DEF AbandonDeletion
    <2>. QED
      BY <1>7, <2>1, <2>2, <2>3, <2>4 DEF DeletionStep
  <1>. HIDE DEF Goal
  <1>8. Goal
    BY <1>3, <1>4, <1>5, <1>6, <1>7 DEF OwnStep
  <1>. QED
    BY <1>8 DEF Goal

\* A task or a deletion writes the row and the token of one video.
LEMMA OtherVideoKept ==
  ASSUME LinkedRows, NEW u \in Videos, NEW v \in Videos, u # v,
         StatusStep(u), video[v].status # "NONE"
  PROVE  /\ video'[v] = video[v]
         /\ token'[video[v].req.token] = token[video[v].req.token]
  <1>1. video[u].req.token # video[v].req.token
    BY DEF LinkedRows, TokensBindOneVideo, StatusStep
  <1>2. video[v].req.token \in Tokens
    BY UploadsAssumption DEF LinkedRows, RowsHaveRequests
  <1>. QED
    BY <1>1, <1>2, StatusStepKeepsLinks DEF LinkedRows

\* READY is written by the last transaction of an execution only.
LEMMA ReadyIsKeptOrPrepared ==
  ASSUME PipelineTypeOK, LinkedRows, WorkIsLinked, OwnStep,
         NEW v \in Videos \ marked', video'[v].status = "READY"
  PROVE  \/ /\ video[v].status = "READY"
            /\ token'[video[v].req.token] = token[video[v].req.token]
         \/ /\ Prepared(v)
            /\ thumbnail'[v]
            /\ token'[video[v].req.token].status = "READY"
  <1>. DEFINE Goal ==
         \/ /\ video[v].status = "READY"
            /\ token'[video[v].req.token] = token[video[v].req.token]
         \/ /\ Prepared(v)
            /\ thumbnail'[v]
            /\ token'[video[v].req.token].status = "READY"
  <1>0. v \in Videos /\ video \in [Videos -> VideoRow]
    BY DEF LinkedRows, TypeOK
  <1>1. ASSUME UNCHANGED <<video, token>> PROVE Goal
    BY <1>1
  <1>2. ASSUME NEW u \in Videos, StatusStep(u), u # v PROVE Goal
    <2>1. video[v].status # "NONE"
      BY <1>0, <1>2, StatusStepKeepsLinks DEF LinkedRows
    <2>. QED
      BY <1>0, <1>2, <2>1, OtherVideoKept
  <1>3. ASSUME NEW u \in Videos, video[u].status # "NONE",
               NEW st \in VideoStatuses \ {"NONE", "READY"},
               video' = [video EXCEPT ![u].status = st], token' = token
        PROVE  Goal
    <2>1. u # v
      BY <1>0, <1>3 DEF VideoRow
    <2>2. StatusStep(u)
      BY <1>3 DEF StatusStep
    <2>. HIDE DEF Goal
    <2>. QED
      BY <1>2, <2>1, <2>2
  <1>4. ASSUME NEW w \in Workers, FinishPreparation(w) PROVE Goal
    <2>. DEFINE u == job[w].video
    <2>1. /\ job[w] # Idle
          /\ job[w].phase = "written"
          /\ u \in Videos
          /\ video[u].status # "NONE"
          /\ video[u].req.token \in Tokens
      BY <1>4, WorkHasVideo DEF FinishPreparation, ThumbnailWritten, InPhase
    <2>2. /\ thumbnail' = [thumbnail EXCEPT ![u] = TRUE]
          /\ video' = [video EXCEPT ![u].status = "READY"]
          /\ token' = [token EXCEPT ![video[u].req.token].status = "READY"]
      BY <1>4 DEF FinishPreparation
    <2>3. ASSUME u = v PROVE Goal
      <3>1. Prepared(v)
        BY <2>1, <2>3 DEF Prepared
      <3>2. thumbnail'[v]
        BY <1>0, <2>2, <2>3 DEF PipelineTypeOK
      <3>3. token'[video[v].req.token].status = "READY"
        BY <2>1, <2>2, <2>3 DEF LinkedRows, TypeOK, TokenRow
      <3>. QED
        BY <3>1, <3>2, <3>3
    <2>4. ASSUME u # v PROVE Goal
      <3>1. StatusStep(u)
        BY <2>1, <2>2 DEF StatusStep, VideoStatuses, TokenStatuses
      <3>. HIDE DEF Goal, u
      <3>. QED
        BY <1>2, <2>1, <2>4, <3>1
    <2>. QED
      BY <2>3, <2>4
  <1>5. ASSUME NEW w \in Workers, TaskStep(w), ~FinishPreparation(w)
        PROVE  Goal
    <2>. HIDE DEF Goal
    <2>1. ASSUME NEW x \in Videos, NEW k \in 0 .. MaxRetries,
                 StartPreparation(w, x, k)
          PROVE  Goal
      BY <1>3, <2>1 DEF StartPreparation, Preparable, VideoStatuses
    <2>2. ASSUME FailPreparation(w) PROVE Goal
      <3>1. job[w] # Idle
        BY <2>2 DEF FailPreparation, AnalysisFails, InPhase
      <3>2. job[w].video \in Videos /\ video[job[w].video].status # "NONE"
        BY <3>1, WorkHasVideo
      <3>. QED
        BY <1>3, <2>2, <3>2 DEF FailPreparation, VideoStatuses
    <2>3. ASSUME \/ \E x \in Videos, k \in 0 .. MaxRetries :
                       SkipPreparation(w, x, k)
                 \/ ReadSource(w) \/ WriteThumbnail(w)
                 \/ FailTransaction(w) \/ RetryPreparation(w)
          PROVE  Goal
      BY <1>1, <2>3 DEF SkipPreparation, ReadSource, WriteThumbnail,
         FailTransaction, RetryPreparation, vars, rows
    <2>. QED
      BY <1>5, <2>1, <2>2, <2>3 DEF TaskStep
  <1>6. ASSUME NEW w \in Workers, ExceedTimeLimit(w) \/ LoseWorker(w)
        PROVE  Goal
    <2>. HIDE DEF Goal
    <2>. QED
      BY <1>1, <1>6 DEF ExceedTimeLimit, LoseWorker, vars, rows
  <1>7. ASSUME EnqueueUnprocessedVideos PROVE Goal
    <2>. HIDE DEF Goal
    <2>. QED
      BY <1>1, <1>7 DEF EnqueueUnprocessedVideos, rows
  <1>8. ASSUME DeletionStep PROVE Goal
    <2>. HIDE DEF Goal
    <2>1. ASSUME NEW x \in Videos, MarkForDeletion(x) PROVE Goal
      BY <1>3, <2>1 DEF MarkForDeletion, VideoStatuses
    <2>2. ASSUME NEW d \in deletes, FinishDeletion(d) PROVE Goal
      <3>. DEFINE u == d.video
      <3>1. /\ u \in Videos
            /\ u \in marked'
            /\ video[u].status # "NONE"
        BY <2>2, WorkHasVideo DEF WorkIsLinked, FinishDeletion
      <3>2. StatusStep(u)
        BY <2>2, <3>1 DEF FinishDeletion, StatusStep, VideoStatuses,
           TokenStatuses
      <3>. HIDE DEF u
      <3>. QED
        BY <1>2, <3>1, <3>2
    <2>3. ASSUME NEW d \in deletes, RemoveFiles(d) \/ AbandonDeletion(d)
          PROVE  Goal
      BY <1>1, <2>3 DEF RemoveFiles, AbandonDeletion, rows
    <2>. QED
      BY <1>8, <2>1, <2>2, <2>3 DEF DeletionStep
  <1>. HIDE DEF Goal
  <1>9. ASSUME NEW w \in Workers, TaskStep(w) PROVE Goal
    BY <1>4, <1>5, <1>9
  <1>10. Goal
    BY <1>6, <1>7, <1>8, <1>9 DEF OwnStep
  <1>. QED
    BY <1>10 DEF Goal

LEMMA OwnStepKeepsPlayable ==
  ASSUME PipelineTypeOK, LinkedRows, WorkIsLinked, OwnStep,
         NEW v \in Videos \ marked', VideoPlays(v)
  PROVE  VideoPlays(v)'
  <1>1. /\ video'[v].req = video[v].req
        /\ video'[v].stored = video[v].stored
    BY OwnStepKeepsLinks DEF LinksKept
  <1>2. /\ videoFile'[v] = videoFile[v]
        /\ thumbFile'[v] \in {thumbFile[v], video[v].req.sha}
    BY OwnStepFiles
  <1>3. Prepared(v) => video[v].stored /\ ThumbnailReady(v)
    BY DEF Prepared, VideoPlays, WorkIsLinked
  <1>4. ThumbnailReady(v) => ThumbnailReady(v)'
    BY <1>1, <1>2 DEF ThumbnailReady
  <1>5. Verified(v)'
    BY <1>1, <1>2 DEF VideoPlays, Verified
  <1>6. thumbnail'[v] => ThumbnailReady(v)'
    BY <1>3, <1>4, ThumbnailsFollowWork DEF VideoPlays
  <1>7. ASSUME video'[v].status = "READY"
        PROVE  /\ video'[v].stored
               /\ thumbnail'[v]
               /\ token'[video'[v].req.token].status = "READY"
    BY <1>1, <1>3, <1>7, ReadyIsKeptOrPrepared, ThumbnailsFollowWork
       DEF VideoPlays
  <1>8. ASSUME NEW w \in Workers, job'[w] # Idle, job'[w].video = v,
               job'[w].phase = "written"
        PROVE  ThumbnailReady(v)'
    <2>1. CASE job'[w] = job[w]
      BY <1>4, <1>8, <2>1 DEF VideoPlays
    <2>2. CASE job'[w] # job[w]
      <3>1. thumbFile'[v] = video[v].req.sha
        BY <1>8, <2>2, OwnStepJobs
      <3>. QED
        BY <1>1, <3>1 DEF ThumbnailReady
    <2>. QED
      BY <2>1, <2>2
  <1>. QED
    BY <1>5, <1>6, <1>7, <1>8 DEF VideoPlays

LEMMA OwnStepKeepsPipelineInv ==
  ASSUME PipelineInv, OwnStep
  PROVE  PipelineInv'
  <1>. USE DEF PipelineInv
  <1>1. TypeOK' /\ PipelineTypeOK' /\ LinksKept /\ WorkIsLinked'
    BY OwnStepTypes, OwnStepKeepsLinks, OwnStepKeepsWork
  <1>2. LinkedRows'
    BY <1>1, LinksKeptStay
  <1>3. PartsBelong'
    BY <1>1 DEF LinksKept, PartsBelong, Received, Active
  <1>4. \A v \in Videos \ marked' : v \notin marked
    BY ThumbnailsFollowWork
  <1>5. ASSUME NEW v \in Videos \ marked' PROVE VideoPlays(v)'
    BY <1>4, OwnStepKeepsPlayable
  <1>6. ASSUME NEW s \in Sessions, Active(s)',
               session'[s].req.video \notin marked'
        PROVE  SessionOnDisk(s)'
    <2>1. session' = session /\ parts' = parts
      BY <1>1 DEF LinksKept
    <2>2. session[s].status # "NONE" /\ session[s].req.video \in Videos
      BY <1>6, <2>1, LiveRow DEF Active, ActiveStatuses, LinkedRows
    <2>3. partFile'[s] = partFile[s]
      BY <1>6, <2>1, <2>2, OwnStepFiles
    <2>4. SessionOnDisk(s)
      BY <1>4, <1>6, <2>1, <2>2 DEF Active
    <2>. QED
      BY <2>1, <2>3, <2>4 DEF SessionOnDisk, PartOnDisk, Received, Active
  <1>. QED
    BY <1>1, <1>2, <1>3, <1>5, <1>6

LEMMA PipelineInvStep ==
  PipelineInv /\ [PipelineNext]_allVars => PipelineInv'
  <1>. SUFFICES ASSUME PipelineInv, [PipelineNext]_allVars PROVE PipelineInv'
    OBVIOUS
  <1>1. CASE UploadsStep
    BY <1>1, UploadsKeepPipelineInv DEF UploadsStep
  <1>2. CASE OwnStep
    BY <1>2, OwnStepKeepsPipelineInv
  <1>3. CASE UNCHANGED allVars
    <2>. USE <1>3 DEF allVars, vars, rows, files, pipeline
    <2>1. LinksKept
      BY DEF LinksKept
    <2>2. PipelineTypeOK' /\ TypeOK'
      BY DEF PipelineInv, PipelineTypeOK, TypeOK
    <2>3. WorkIsLinked'
      BY DEF PipelineInv, WorkIsLinked
    <2>4. PartsBelong'
      BY DEF PipelineInv, PartsBelong, Received, Active
    <2>5. LinkedRows'
      BY <2>1, <2>2, LinksKeptStay DEF PipelineInv
    <2>6. \A v \in Videos \ marked' : VideoPlays(v)'
      BY DEF PipelineInv, VideoPlays, Verified, ThumbnailReady
    <2>7. \A s \in Sessions :
             Active(s)' /\ session'[s].req.video \notin marked'
             => SessionOnDisk(s)'
      BY DEF PipelineInv, Active, SessionOnDisk, PartOnDisk, Received
    <2>. QED
      BY <2>2, <2>3, <2>4, <2>5, <2>6, <2>7 DEF PipelineInv
  <1>. QED
    BY <1>1, <1>2, <1>3 DEF PipelineNext, OwnStep

\* The invariant of uploads, tasks and deletions together.
LEMMA PipelineInvariant == PipelineSpec => []PipelineInv
  BY PipelineInvInit, PipelineInvStep, PTL DEF PipelineSpec

-----------------------------------------------------------------------------
(***************************************************************************)
(* What the runs check on small instances.                                 *)
(***************************************************************************)
\* Rows, files, messages, executions and deletions keep their shape, and no
\* message is taken off the broker that was not sent (videos/tasks.py).
THEOREM PipelineTyped == PipelineSpec => []PipelineTypeOK
  BY PipelineInvariant, PTL DEF PipelineInv

\* A READY video that nobody asked to delete has its declared file, its
\* thumbnail and a READY token, whatever executions of prepare_public_video
\* were duplicated, retried, killed or lost and whatever uploads tried again.
THEOREM ReadyIsPlayable == PipelineSpec => []ReadyVideosPlay
  <1>1. PipelineInv => ReadyVideosPlay
    BY DEF PipelineInv, VideoPlays, Verified, ThumbnailReady, ReadyVideosPlay
  <1>. QED
    BY <1>1, PipelineInvariant, PTL

\* delete_video, however often it is called and however far it comes, leaves
\* the files and parts of every other video alone.
THEOREM DeletionSpares == PipelineSpec => []DeletionSparesOthers
  <1>1. ASSUME PipelineInv, NEW v \in Videos \ marked
        PROVE  /\ video[v].stored => videoFile[v] = video[v].req.sha
               /\ thumbnail[v] => thumbFile[v] = video[v].req.sha
    BY <1>1 DEF PipelineInv, VideoPlays, Verified, ThumbnailReady
  <1>2. ASSUME PipelineInv, NEW v \in Videos \ marked,
               NEW s \in SessionsOf(v), Active(s), NEW n \in Received(s)
        PROVE  partFile[s][n] # NoFile
    BY <1>2, UploadsAssumption
       DEF PipelineInv, SessionsOf, SessionOnDisk, PartOnDisk
  <1>3. PipelineInv => DeletionSparesOthers
    BY <1>1, <1>2 DEF DeletionSparesOthers
  <1>. QED
    BY <1>3, PipelineInvariant, PTL

-----------------------------------------------------------------------------
(***************************************************************************)
(* The public gallery.                                                     *)
(***************************************************************************)
\* The event and the token of a video belong together, and a READY video has
\* a READY token, also while it is being deleted: no transaction writes one
\* status without the other.
PortalInv ==
    \A v \in Videos : video[v].status # "NONE" =>
        /\ EventOf[video[v].req.token] = video[v].req.event
        /\ video[v].status = "READY" => token[video[v].req.token].status = "READY"

LEMMA PortalInvInit == PipelineInit => PortalInv
  BY DEF PipelineInit, Init, PortalInv

\* The upload services.
LEMMA UploadsKeepPortalInv ==
  ASSUME PipelineInv, PortalInv, [Next]_vars
  PROVE  PortalInv'
  <1>. USE DEF PipelineInv, LinkedRows
  <1>1. ASSUME NEW v \in Videos, video[v].status # "NONE"
        PROVE  /\ EventOf[video'[v].req.token] = video'[v].req.event
               /\ video'[v].status = "READY" =>
                     token'[video'[v].req.token].status = "READY"
    BY <1>1, UploadsKeepVideos DEF VideoKept, PortalInv
  <1>2. ASSUME NEW v \in Videos, video[v].status = "NONE",
               video'[v].status # "NONE"
        PROVE  /\ EventOf[video'[v].req.token] = video'[v].req.event
               /\ video'[v].status # "READY"
    <2>1. PICK r \in Requests : CreateUploadSession(r)
      BY <1>2, SessionStepKeepsRows
         DEF Next, RunHooks, LoseHooks, DestroyEvent, vars, rows, RowsKept
    <2>2. /\ v = r.video
          /\ video'[v] = [status |-> "PENDING_UPLOAD", req |-> r, stored |-> FALSE]
      BY <1>2, <2>1 DEF CreateUploadSession, TypeOK
    <2>. QED
      BY <2>1, <2>2 DEF CreateUploadSession, TokenAccepts
  <1>. QED
    BY <1>1, <1>2 DEF PortalInv

\* A status that is written leaves the links and the other videos alone.
LEMMA StatusStepKeepsPortalInv ==
  ASSUME PipelineInv, PortalInv, NEW u \in Videos, StatusStep(u),
         video'[u].status = "READY" => token'[video[u].req.token].status = "READY"
  PROVE  PortalInv'
  <1>. USE DEF PipelineInv, LinkedRows
  <1>1. \A v \in Videos :
           /\ video'[v].req = video[v].req
           /\ video'[v].status = "NONE" <=> video[v].status = "NONE"
           /\ v # u => video'[v] = video[v]
    BY StatusStepKeepsLinks
  <1>2. \A t \in Tokens : t # video[u].req.token => token'[t] = token[t]
    BY StatusStepKeepsLinks
  <1>3. ASSUME NEW v \in Videos \ {u}, video[v].status # "NONE"
        PROVE  token'[video[v].req.token] = token[video[v].req.token]
    <2>1. /\ video[v].req.token \in Tokens
          /\ token[video[v].req.token].assigned = v
          /\ token[video[u].req.token].assigned = u
      BY <1>3, UploadsAssumption DEF RowsHaveRequests, TokensBindOneVideo,
         StatusStep
    <2>. QED
      BY <1>2, <2>1
  <1>. QED
    BY <1>1, <1>3 DEF PortalInv

\* Workers, the broker and deletions.
LEMMA OwnStepKeepsPortalInv ==
  ASSUME PipelineInv, PortalInv, OwnStep
  PROVE  PortalInv'
  <1>. USE DEF PipelineInv, LinkedRows
  <1>1. ASSUME UNCHANGED <<video, token>> PROVE PortalInv'
    BY <1>1 DEF PortalInv
  <1>2. ASSUME NEW u \in Videos, NEW st, st # "READY", StatusStep(u),
               video' = [video EXCEPT ![u].status = st]
        PROVE  PortalInv'
    <2>1. video'[u].status = st
      BY <1>2 DEF TypeOK, VideoRow
    <2>. QED
      BY <1>2, <2>1, StatusStepKeepsPortalInv
  <1>3. ASSUME NEW w \in Workers, TaskStep(w) PROVE PortalInv'
    <2>1. ASSUME NEW v \in Videos, NEW k \in 0 .. MaxRetries,
                 StartPreparation(w, v, k)
          PROVE  PortalInv'
      BY <1>2, <2>1, WorkerStatusSteps DEF StartPreparation
    <2>2. CASE FinishPreparation(w)
      <3>. DEFINE u == job[w].video
      <3>1. u \in Videos /\ StatusStep(u) /\ video[u].req.token \in Tokens
        BY <2>2, WorkerStatusSteps, WorkHasVideo
      <3>2. token'[video[u].req.token].status = "READY"
        BY <2>2, <3>1 DEF FinishPreparation, TypeOK, TokenRow
      <3>. QED
        BY <3>1, <3>2, StatusStepKeepsPortalInv
    <2>3. CASE FailPreparation(w)
      <3>1. job[w].video \in Videos /\ StatusStep(job[w].video)
        BY <2>3, WorkerStatusSteps, WorkHasVideo
      <3>. QED
        BY <1>2, <2>3, <3>1 DEF FailPreparation
    <2>4. ASSUME NEW v \in Videos, NEW k \in 0 .. MaxRetries,
                 SkipPreparation(w, v, k)
          PROVE  PortalInv'
      BY <1>1, <2>4 DEF SkipPreparation, rows
    <2>5. CASE \/ ReadSource(w) \/ WriteThumbnail(w) \/ FailTransaction(w)
               \/ RetryPreparation(w)
      BY <1>1, <2>5 DEF ReadSource, WriteThumbnail, FailTransaction,
         RetryPreparation, vars, rows
    <2>. QED
      BY <1>3, <2>1, <2>2, <2>3, <2>4, <2>5 DEF TaskStep
  <1>4. ASSUME NEW w \in Workers, ExceedTimeLimit(w) \/ LoseWorker(w)
        PROVE  PortalInv'
    BY <1>1, <1>4 DEF ExceedTimeLimit, LoseWorker, vars, rows
  <1>5. CASE EnqueueUnprocessedVideos
    BY <1>1, <1>5 DEF EnqueueUnprocessedVideos, rows
  <1>6. CASE DeletionStep
    <2>1. ASSUME NEW v \in Videos, MarkForDeletion(v) PROVE PortalInv'
      BY <1>2, <2>1, DeletionStatusSteps DEF MarkForDeletion
    <2>2. ASSUME NEW d \in deletes, FinishDeletion(d) PROVE PortalInv'
      BY <1>2, <2>2, DeletionStatusSteps, WorkHasVideo DEF FinishDeletion
    <2>3. ASSUME NEW d \in deletes, RemoveFiles(d) \/ AbandonDeletion(d)
          PROVE  PortalInv'
      BY <1>1, <2>3 DEF RemoveFiles, AbandonDeletion, rows
    <2>. QED
      BY <1>6, <2>1, <2>2, <2>3 DEF DeletionStep
  <1>. QED
    BY <1>3, <1>4, <1>5, <1>6 DEF OwnStep

LEMMA PortalInvStep ==
  PipelineInv /\ PortalInv /\ [PipelineNext]_allVars => PortalInv'
  <1>1. ASSUME PipelineInv, PortalInv, UNCHANGED allVars PROVE PortalInv'
    BY <1>1 DEF PortalInv, allVars, vars, rows
  <1>. QED
    BY <1>1, UploadsKeepPortalInv, OwnStepKeepsPortalInv
       DEF PipelineNext, OwnStep, UploadsStep

\* A link leads to at most one video.
LEMMA OneVideoPerLink ==
  ASSUME PipelineInv, NEW v \in Videos, video[v].status # "NONE"
  PROVE  VideosOf(video[v].req.token) = {v}
  BY DEF VideosOf, PipelineInv, LinkedRows, TokensBindOneVideo

\* The list of an event, the page of a link, its thumbnail and its bytes
\* agree: what is listed and not being deleted can be opened and played, and
\* nothing is given out behind a page that says there is nothing
\* (events/views.py, which asks the token in one answer and not in the
\* others).
THEOREM GalleryAgrees == PipelineSpec => []GalleryOpensWhatItLists
  <1>1. ASSUME PipelineInv, PortalInv, NEW hidden \in SUBSET Events,
               NEW e \in Events, NEW v \in PublicEvent(e, hidden) \ marked
        PROVE  LET r == video[v].req IN
               /\ PublicVideo(r.token, hidden) = "video"
               /\ PublicThumbnail(r.token, hidden) = {r.sha}
               /\ VideoBytes(r.token, hidden) = {r.sha}
    <2>. DEFINE t == video[v].req.token
    <2>1. /\ v \in Videos \ marked
          /\ video[v].status = "READY"
          /\ video[v].req.event = e
          /\ EventIsPublic(e, hidden)
      BY <1>1 DEF PublicEvent
    <2>2. /\ VideosOf(t) = {v}
          /\ EventOf[t] = e
          /\ token[t].status = "READY"
      BY <1>1, <2>1, OneVideoPerLink DEF PortalInv
    <2>3. /\ thumbFile[v] = video[v].req.sha
          /\ videoFile[v] = video[v].req.sha
          /\ thumbnail[v] /\ video[v].stored
      BY <1>1, <2>1 DEF PipelineInv, VideoPlays, Verified, ThumbnailReady
    <2>4. video[v].req.sha # NoFile
      BY <1>1, <2>1, UploadsAssumption
         DEF PipelineInv, LinkedRows, RowsHaveRequests
    <2>5. Served(t, hidden) = {v}
      BY <2>1, <2>2 DEF Served
    <2>6. PublicVideo(t, hidden) = "video"
      BY <2>1, <2>2 DEF PublicVideo
    <2>7. PublicThumbnail(t, hidden) = {video[v].req.sha}
      BY <2>3, <2>4, <2>5 DEF PublicThumbnail
    <2>8. VideoBytes(t, hidden) = {video[v].req.sha}
      BY <2>3, <2>4, <2>5 DEF VideoBytes
    <2>. QED
      BY <2>6, <2>7, <2>8
  <1>2. ASSUME PortalInv, NEW hidden \in SUBSET Events, NEW t \in Tokens,
               PublicVideo(t, hidden) # "video"
        PROVE  PublicThumbnail(t, hidden) = {} /\ VideoBytes(t, hidden) = {}
    <2>1. Served(t, hidden) = {}
      <3>1. ASSUME NEW v \in Served(t, hidden) PROVE FALSE
        <4>1. /\ v \in VideosOf(t) /\ v \in Videos
              /\ EventIsPublic(EventOf[t], hidden)
              /\ video[v].status = "READY" /\ video[v].req.token = t
          BY <3>1 DEF Served, VideosOf
        <4>2. token[t].status = "READY"
          BY <1>2, <4>1 DEF PortalInv
        <4>. QED
          BY <1>2, <4>1, <4>2 DEF PublicVideo
      <3>. QED
        BY <3>1
    <2>. QED
      BY <2>1 DEF PublicThumbnail, VideoBytes
  <1>3. PipelineInv /\ PortalInv => GalleryOpensWhatItLists
    BY <1>1, <1>2 DEF GalleryOpensWhatItLists
  <1>. QED
    BY <1>3, PipelineInvariant, PortalInvInit, PortalInvStep, PTL
       DEF PipelineSpec
=============================================================================
