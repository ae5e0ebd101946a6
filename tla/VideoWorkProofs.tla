--------------------------- MODULE VideoWorkProofs ---------------------------
(***************************************************************************)
(* A proof that the tasks of a video are never lost while the broker, the  *)
(* database and the clock are kind, for any numbers of workers, deaths of  *)
(* workers, retries, uploads and deletions.                                *)
(*                                                                         *)
(* WorkIsNeverLost is not inductive: an execution that has failed may send *)
(* no further message.  It has written FAILED by then, so whatever waits   *)
(* afterwards has other work: WorkInv does not count failed executions.    *)
(***************************************************************************)
EXTENDS VideoPipelineProofs

\* A refused message, a killed task or a rolled back last transaction ends
\* the work without a trace in the row.
NothingIsDropped ==
    /\ Faults \cap {"crash", "broker"} = {}
    /\ WorkerFaults \cap {"database", "timeout"} = {}

Waits(v) == video[v].status \in {"UPLOADED", "PROCESSING"}
Carries(w, v) ==
    job[w] # Idle /\ job[w].video = v /\ job[w].phase # "failed"
Follows(h, v) == h.prepare /\ session[h.session].req.video = v
WorkSent(v) ==
    \/ queue[v] > 0
    \/ \E k \in 1 .. MaxRetries : retry[v][k] > 0
    \/ \E h \in hooks : Follows(h, v)
    \/ \E w \in Workers : Carries(w, v)
WorkInv == \A v \in Videos : Waits(v) => WorkSent(v)

LEMMA WorkStays ==
  ASSUME NEW v \in Videos, WorkSent(v),
         queue[v] > 0 => queue'[v] > 0,
         \A k \in 1 .. MaxRetries : retry[v][k] > 0 => retry'[v][k] > 0,
         \A h \in hooks : Follows(h, v) => h \in hooks' /\ Follows(h, v)',
         \A w \in Workers : Carries(w, v) => Carries(w, v)'
  PROVE  WorkSent(v)'
  BY DEF WorkSent

-----------------------------------------------------------------------------
(***************************************************************************)
(* Uploads: a completion sends work with its commit.                       *)
(***************************************************************************)
LEMMA UploadsKeepHooks ==
  ASSUME LinkedRows, [Next]_vars, NEW h \in hooks, NEW v \in Videos,
         Follows(h, v)
  PROVE  Follows(h, v)'
  <1>. USE DEF LinkedRows
  <1>0. h.session \in Sessions /\ session[h.session].status # "NONE"
    BY DEF TypeOK, AnswersFollowCommits
  <1>1. CASE \E r \in Requests : CreateUploadSession(r)
    <2>1. PICK r \in Requests : CreateUploadSession(r)
      BY <1>1
    <2>2. h.session # <<r.operator, r.key>>
      BY <1>0, <2>1 DEF CreateUploadSession
    <2>3. session'[h.session].req = session[h.session].req
      BY <1>0, <2>1, <2>2 DEF CreateUploadSession, TypeOK, SessionRow
    <2>. QED
      BY <2>3 DEF Follows
  <1>2. CASE \E s \in Sessions : SessionStep(s)
    BY <1>0, <1>2, SessionStepKeepsRows DEF RowsKept, Follows
  <1>3. CASE UNCHANGED session
    BY <1>3 DEF Follows
  <1>. QED
    BY <1>1, <1>2, <1>3
       DEF Next, RunHooks, LoseHooks, DestroyEvent, vars, rows

\* Only a completion makes a video wait.
LEMMA SessionStepSendsWork ==
  ASSUME PipelineInv, NEW s \in Sessions, SessionStep(s), UNCHANGED pipeline,
         NEW v \in Videos, Waits(v) => WorkSent(v), Waits(v)'
  PROVE  WorkSent(v)'
  <1>. USE DEF PipelineInv, LinkedRows
  <1>1. RowsKept
    BY SessionStepKeepsRows
  <1>2. \A h \in hooks : Follows(h, v) => Follows(h, v)'
    BY <1>1 DEF Follows, RowsKept, TypeOK
  <1>3. CASE CompleteUploadSession(s)
    <2>. DEFINE u == session[s].req.video
    <2>1. /\ OnCommit(s, TRUE) \in hooks'
          /\ hooks \subseteq hooks'
          /\ queue' = queue
          /\ video' = [video EXCEPT ![u].status = "UPLOADED",
                                    ![u].stored = TRUE]
      BY <1>3 DEF CompleteUploadSession
    <2>2. CASE u = v
      <3>1. /\ OnCommit(s, TRUE).prepare
            /\ session'[OnCommit(s, TRUE).session].req.video = v
        BY <1>1, <2>2 DEF OnCommit, RowsKept
      <3>2. \E h \in hooks' : Follows(h, v)'
        BY <2>1, <3>1 DEF Follows
      <3>. QED
        BY <3>2 DEF WorkSent
    <2>3. CASE u # v
      <3>1. video'[v] = video[v]
        BY <2>1, <2>3 DEF TypeOK
      <3>2. WorkSent(v)
        BY <3>1 DEF Waits
      <3>. QED
        BY <1>2, <2>1, <3>2, WorkStays DEF pipeline, Carries
    <2>. QED
      BY <2>2, <2>3
  <1>4. CASE ~CompleteUploadSession(s)
    <2>1. /\ hooks \subseteq hooks'
          /\ queue' = queue
          /\ \/ video' = video
             \/ \E st \in {"UPLOADING", "FAILED"} :
                   video' = [video EXCEPT ![session[s].req.video].status = st]
      BY <1>4 DEF SessionStep, StorePartStep, StoreUploadPart,
         StorePartChecksumMismatch, StorePartRolledBack, CompleteStep,
         CompleteChecksumMismatch, CompleteInvalidContent,
         CompleteRolledBack, CompleteAgain, AbortUploadSession,
         CleanupExpired, CloseSession, Lapse, rows
    <2>2. Waits(v)
      BY <2>1 DEF Waits, TypeOK, VideoRow
    <2>. QED
      BY <1>2, <2>1, <2>2, WorkStays DEF pipeline, Carries
  <1>. QED
    BY <1>3, <1>4

LEMMA UploadsSendWork ==
  ASSUME NothingIsDropped, PipelineInv, [Next]_vars, UNCHANGED pipeline,
         NEW v \in Videos, Waits(v) => WorkSent(v), Waits(v)'
  PROVE  WorkSent(v)'
  <1>. USE DEF PipelineInv, LinkedRows
  <1>0. /\ \A h \in hooks : Follows(h, v) => Follows(h, v)'
        /\ UNCHANGED <<retry, job>>
    BY UploadsKeepHooks DEF pipeline
  <1>1. CASE \E r \in Requests : CreateUploadSession(r)
    <2>1. UNCHANGED <<hooks, queue>>
      BY <1>1 DEF CreateUploadSession
    <2>2. Waits(v)
      BY <1>1 DEF CreateUploadSession, Waits, TypeOK, VideoRow
    <2>. QED
      BY <1>0, <2>1, <2>2, WorkStays DEF Carries
  <1>2. CASE \E s \in Sessions : SessionStep(s)
    BY <1>2, SessionStepSendsWork
  <1>3. ASSUME NEW g \in hooks, RunHooks(g) PROVE WorkSent(v)'
    <2>. DEFINE u == session[g.session].req.video
    <2>1. /\ WorkSent(v)
          /\ hooks' = hooks \ {g}
      BY <1>3 DEF RunHooks, Waits, rows
    <2>2. CASE queue' = queue /\ ~g.prepare
      <3>1. \A h \in hooks : Follows(h, v) => h \in hooks'
        BY <2>1, <2>2 DEF Follows
      <3>. QED
        BY <1>0, <2>1, <2>2, <3>1, WorkStays DEF Carries
    <2>3. CASE queue' = [queue EXCEPT ![u] = @ + 1] /\ g.prepare
      <3>1. queue \in [Videos -> Nat]
        BY DEF TypeOK
      <3>2. CASE u = v
        BY <2>3, <3>1, <3>2 DEF WorkSent
      <3>3. CASE u # v
        <4>1. queue'[v] = queue[v]
          BY <2>3, <3>1, <3>3
        <4>2. \A h \in hooks : Follows(h, v) => h \in hooks'
          BY <2>1, <3>3 DEF Follows
        <4>. QED
          BY <1>0, <2>1, <4>1, <4>2, WorkStays DEF Carries
      <3>. QED
        BY <3>2, <3>3
    <2>. QED
      BY <1>3, <2>2, <2>3 DEF RunHooks, NothingIsDropped
  <1>4. CASE UNCHANGED <<session, video, hooks, queue>>
    BY <1>0, <1>4, WorkStays DEF Waits, Carries
  <1>. QED
    BY <1>1, <1>2, <1>3, <1>4
       DEF Next, LoseHooks, DestroyEvent, vars, rows, NothingIsDropped

-----------------------------------------------------------------------------
(***************************************************************************)
(* Tasks: a message is exchanged for an execution, and an execution for    *)
(* READY, FAILED or, when the worker dies, its message.                    *)
(***************************************************************************)
LEMMA MessagesElsewhere ==
  ASSUME PipelineTypeOK, NEW x \in Videos, NEW v \in Videos, x # v,
         NEW k \in 0 .. MaxRetries, TakeMessage(x, k) \/ Redeliver(x, k)
  PROVE  queue'[v] = queue[v] /\ retry'[v] = retry[v]
  BY DEF TakeMessage, Redeliver, AddMessages, PipelineTypeOK, TypeOK

LEMMA RedeliveredIsSent ==
  ASSUME PipelineTypeOK, NEW v \in Videos, NEW k \in 0 .. MaxRetries,
         Redeliver(v, k)
  PROVE  WorkSent(v)'
  <1>. USE PipelineAssumption DEF PipelineTypeOK, TypeOK
  <1>1. CASE k = 0
    <2>1. queue'[v] > 0
      BY <1>1 DEF Redeliver, AddMessages
    <2>. QED
      BY <2>1 DEF WorkSent
  <1>2. CASE k # 0
    <2>1. k \in 1 .. MaxRetries /\ retry'[v][k] > 0
      BY <1>2 DEF Redeliver, AddMessages
    <2>. QED
      BY <2>1 DEF WorkSent
  <1>. QED
    BY <1>1, <1>2

LEMMA TasksKeepWork ==
  ASSUME NothingIsDropped, PipelineInv, NEW w \in Workers, TaskStep(w),
         NEW v \in Videos, Waits(v) => WorkSent(v), Waits(v)'
  PROVE  WorkSent(v)'
  <1>. USE DEF PipelineInv
  <1>0. /\ UNCHANGED <<hooks, session>>
        /\ job \in [Workers -> Jobs \cup {Idle}]
        /\ video \in [Videos -> VideoRow]
        /\ \A h \in hooks : Follows(h, v) => h \in hooks' /\ Follows(h, v)'
    BY OwnStepRows DEF OwnStep, PipelineTypeOK, TypeOK, Follows
  <1>1. ASSUME NEW x \in Videos, NEW k \in 0 .. MaxRetries,
               StartPreparation(w, x, k)
        PROVE  WorkSent(v)'
    <2>1. CASE x = v
      <3>1. job'[w] = [video |-> v, retries |-> k, phase |-> "reading",
                       stored |-> video[v].stored]
        BY <1>0, <1>1, <2>1 DEF StartPreparation
      <3>2. job'[w] \in Jobs
        BY <1>0, <3>1 DEF Jobs, Phases, VideoRow
      <3>3. Carries(w, v)'
        BY <3>1, <3>2, PipelineAssumption DEF Carries
      <3>. QED
        BY <3>3 DEF WorkSent
    <2>2. CASE x # v
      <3>1. queue'[v] = queue[v] /\ retry'[v] = retry[v]
        BY <1>1, <2>2, MessagesElsewhere DEF StartPreparation
      <3>2. video'[v] = video[v]
        BY <1>0, <1>1, <2>2 DEF StartPreparation
      <3>3. \A y \in Workers : Carries(y, v) => Carries(y, v)'
        BY <1>0, <1>1 DEF StartPreparation, Carries
      <3>4. WorkSent(v)
        BY <3>2 DEF Waits
      <3>. QED
        BY <1>0, <3>1, <3>3, <3>4, WorkStays
    <2>. QED
      BY <2>1, <2>2
  <1>2. ASSUME NEW x \in Videos, NEW k \in 0 .. MaxRetries,
               SkipPreparation(w, x, k)
        PROVE  WorkSent(v)'
    <2>1. x # v /\ WorkSent(v)
      BY <1>2 DEF SkipPreparation, Preparable, Waits, rows
    <2>2. queue'[v] = queue[v] /\ retry'[v] = retry[v] /\ job' = job
      BY <1>2, <2>1, MessagesElsewhere DEF SkipPreparation
    <2>. QED
      BY <1>0, <2>1, <2>2, WorkStays DEF Carries
  <1>3. CASE ReadSource(w) \/ WriteThumbnail(w)
    <2>1. /\ UNCHANGED <<video, queue, retry>>
          /\ job[w] \in Jobs
          /\ job' = [job EXCEPT ![w].phase = "writing"]
             \/ job' = [job EXCEPT ![w].phase = "written"]
      BY <1>0, <1>3 DEF ReadSource, WriteThumbnail, InPhase, MoveTo, vars, rows
    <2>2. \A y \in Workers : Carries(y, v) => Carries(y, v)'
      <3>1. job'[w] \in Jobs
        BY <1>0, <2>1 DEF Jobs, Phases
      <3>2. job'[w] # Idle
        BY <3>1, PipelineAssumption
      <3>. QED
        BY <1>0, <2>1, <3>2 DEF Carries, Jobs
    <2>. QED
      BY <1>0, <2>1, <2>2, WorkStays DEF Waits
  <1>4. CASE FinishPreparation(w) \/ FailPreparation(w)
    <2>. DEFINE u == job[w].video
    <2>1. job[w] # Idle /\ u \in Videos
      BY <1>4, WorkHasVideo
         DEF FinishPreparation, FailPreparation, AnalysisFails, ThumbnailWritten, InPhase
    <2>2. /\ UNCHANGED <<queue, retry>>
          /\ \/ video' = [video EXCEPT ![u].status = "READY"]
             \/ video' = [video EXCEPT ![u].status = "FAILED"]
      BY <1>4 DEF FinishPreparation, FailPreparation
    <2>3. u # v
      BY <1>0, <2>2 DEF Waits, VideoRow
    <2>4. WorkSent(v)
      BY <1>0, <2>2, <2>3 DEF Waits
    <2>5. \A y \in Workers \ {w} : job'[y] = job[y]
      BY <1>0, <1>4 DEF FinishPreparation, FailPreparation, MoveTo
    <2>6. \A y \in Workers : Carries(y, v) => Carries(y, v)'
      BY <2>3, <2>5 DEF Carries
    <2>. QED
      BY <1>0, <2>2, <2>4, <2>6, WorkStays
  <1>5. CASE RetryPreparation(w)
    <2>1. /\ UNCHANGED <<video, queue>>
          /\ job[w].phase = "failed"
          /\ \A y \in Workers \ {w} : job'[y] = job[y]
      BY <1>0, <1>5 DEF RetryPreparation, InPhase, vars, rows
    <2>2. \A y \in Workers : Carries(y, v) => Carries(y, v)'
      BY <2>1 DEF Carries
    <2>3. \A k \in 1 .. MaxRetries : retry[v][k] > 0 => retry'[v][k] > 0
      <3>. DEFINE u == job[w].video
                  n == job[w].retries + 1
      <3>1. /\ retry \in [Videos -> [1 .. MaxRetries -> Nat]]
            /\ \/ retry' = retry
               \/ retry' = [retry EXCEPT ![u][n] = @ + 1]
        BY <1>5 DEF RetryPreparation, PipelineTypeOK
      <3>2. u \in Videos
        BY <1>5, WorkHasVideo DEF RetryPreparation, InPhase
      <3>. HIDE DEF u, n
      <3>3. CASE retry' = retry
        BY <3>3
      <3>4. ASSUME retry' = [retry EXCEPT ![u][n] = @ + 1],
                   NEW k \in 1 .. MaxRetries, retry[v][k] > 0
            PROVE  retry'[v][k] > 0
        <4>1. retry'[v][k] = retry[v][k] \/ retry'[v][k] = retry[v][k] + 1
          BY <3>1, <3>2, <3>4, PipelineAssumption
        <4>2. retry[v][k] \in Nat
          BY <3>1
        <4>. QED
          BY <3>4, <4>1, <4>2
      <3>. QED
        BY <3>1, <3>3, <3>4
    <2>. QED
      BY <1>0, <2>1, <2>2, <2>3, WorkStays DEF Waits
  <1>. QED
    BY <1>1, <1>2, <1>3, <1>4, <1>5
       DEF TaskStep, FailTransaction, NothingIsDropped

LEMMA LostWorkersSendAgain ==
  ASSUME PipelineInv, NEW w \in Workers, LoseWorker(w),
         NEW v \in Videos, Waits(v) => WorkSent(v), Waits(v)'
  PROVE  WorkSent(v)'
  <1>. USE DEF PipelineInv
  <1>. DEFINE u == job[w].video
              k == job[w].retries
  <1>1. u \in Videos /\ k \in 0 .. MaxRetries /\ Redeliver(u, k)
    BY WorkHasVideo DEF LoseWorker, Jobs
  <1>2. /\ UNCHANGED <<hooks, session, video>>
        /\ \A y \in Workers \ {w} : job'[y] = job[y]
    BY DEF LoseWorker, PipelineTypeOK, rows
  <1>3. CASE u = v
    BY <1>1, <1>3, RedeliveredIsSent
  <1>4. CASE u # v
    <2>1. queue'[v] = queue[v] /\ retry'[v] = retry[v]
      <3>. HIDE DEF u, k
      <3>. QED
        BY <1>1, <1>4, MessagesElsewhere
    <2>2. \A y \in Workers : Carries(y, v) => Carries(y, v)'
      BY <1>2, <1>4 DEF Carries
    <2>. QED
      BY <1>2, <2>1, <2>2, WorkStays DEF Waits, Follows
  <1>. QED
    BY <1>3, <1>4

LEMMA EnqueueAndDeleteKeepWork ==
  ASSUME PipelineInv, EnqueueUnprocessedVideos \/ DeletionStep,
         NEW v \in Videos, Waits(v) => WorkSent(v), Waits(v)'
  PROVE  WorkSent(v)'
  <1>. USE DEF PipelineInv
  <1>0. /\ UNCHANGED <<hooks, session>>
        /\ \A h \in hooks : Follows(h, v) => h \in hooks' /\ Follows(h, v)'
    BY OwnStepRows DEF OwnStep, Follows
  <1>1. UNCHANGED <<job, retry>>
    BY DEF EnqueueUnprocessedVideos, DeletionStep, MarkForDeletion,
       RemoveFiles, FinishDeletion, AbandonDeletion, pipeline
  <1>2. queue[v] > 0 => queue'[v] > 0
    <2>1. CASE EnqueueUnprocessedVideos
      <3>1. queue'[v] \in {queue[v], queue[v] + 1} /\ queue[v] \in Nat
        BY <2>1 DEF EnqueueUnprocessedVideos, PipelineTypeOK, TypeOK
      <3>. QED
        BY <3>1
    <2>2. CASE DeletionStep
      BY <2>2 DEF DeletionStep, MarkForDeletion, RemoveFiles, FinishDeletion,
         AbandonDeletion
    <2>. QED
      BY <2>1, <2>2
  <1>3. Waits(v)
    <2>1. \/ video' = video
          \/ \E u \in Videos, st \in {"PENDING_DELETE", "DELETED"} :
                video' = [video EXCEPT ![u].status = st]
      BY WorkHasVideo DEF EnqueueUnprocessedVideos, DeletionStep,
         MarkForDeletion, RemoveFiles, FinishDeletion, AbandonDeletion, rows
    <2>. QED
      BY <2>1 DEF Waits, PipelineTypeOK, TypeOK, VideoRow
  <1>. QED
    BY <1>0, <1>1, <1>2, <1>3, WorkStays DEF Carries

LEMMA WorkInvStep ==
  NothingIsDropped /\ PipelineInv /\ WorkInv /\ [PipelineNext]_allVars
      => WorkInv'
  <1>. SUFFICES ASSUME NothingIsDropped, PipelineInv, [PipelineNext]_allVars,
                       NEW v \in Videos, Waits(v) => WorkSent(v), Waits(v)'
                PROVE  WorkSent(v)'
    BY DEF WorkInv
  <1>1. CASE UploadsStep
    BY <1>1, UploadsSendWork DEF UploadsStep
  <1>2. ASSUME NEW w \in Workers, TaskStep(w) PROVE WorkSent(v)'
    BY <1>2, TasksKeepWork
  <1>3. ASSUME NEW w \in Workers, LoseWorker(w) PROVE WorkSent(v)'
    BY <1>3, LostWorkersSendAgain
  <1>4. CASE EnqueueUnprocessedVideos \/ DeletionStep
    BY <1>4, EnqueueAndDeleteKeepWork
  <1>5. CASE UNCHANGED allVars
    BY <1>5, WorkStays
       DEF allVars, vars, rows, pipeline, Waits, Carries, Follows
  <1>. QED
    BY <1>1, <1>2, <1>3, <1>4, <1>5
       DEF PipelineNext, ExceedTimeLimit, NothingIsDropped

\* As long as the broker takes what it is sent, the last transactions commit
\* and no task exceeds its time limit, a video that waits for its preparation
\* has a message, a callback or a worker that will prepare it, also when
\* workers die (acks_late, reject_on_worker_lost) and analyses fail.
THEOREM WorkSurvives ==
  ASSUME NothingIsDropped
  PROVE  PipelineSpec => []WorkIsNeverLost
  <1>1. PipelineInit => WorkInv
    BY DEF PipelineInit, Init, WorkInv, Waits
  <1>2. WorkInv => WorkIsNeverLost
    BY DEF WorkInv, Waits, WorkSent, Carries, Follows, WorkIsNeverLost, WorkFor
  <1>3. PipelineInv /\ WorkInv /\ [PipelineNext]_allVars => WorkInv'
    BY WorkInvStep
  <1>. QED
    BY <1>1, <1>2, <1>3, PipelineInvariant, PTL DEF PipelineSpec
=============================================================================
