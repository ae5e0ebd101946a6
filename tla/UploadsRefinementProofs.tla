----------------------- MODULE UploadsRefinementProofs -----------------------
(***************************************************************************)
(* Uploads implements VideoLibrary: every step of the upload operations    *)
(* publishes a video, acknowledges one, or changes nothing there.  The     *)
(* invariant UploadsInv does the work: it says that what is stored is what *)
(* was declared, so writing the same file again is not seen.               *)
(***************************************************************************)
EXTENDS UploadsProofs

LEMMA ContentIsDeclared ==
  ASSUME StoredVideosAreVerified
  PROVE  StoredContent =
            [v \in Videos |->
                IF video[v].stored THEN video[v].req.sha ELSE NoFile]
  BY DEF StoredContent, StoredVideosAreVerified, Verified

LEMMA ContentStays ==
  ASSUME StoredVideosAreVerified, StoredVideosAreVerified',
         \A v \in Videos :
            /\ video'[v].stored <=> video[v].stored
            /\ video[v].stored => video'[v].req = video[v].req
  PROVE  StoredContent' = StoredContent
  <1>. DEFINE old(v) == IF video[v].stored THEN videoFile[v] ELSE NoFile
              new(v) == IF video'[v].stored THEN videoFile'[v] ELSE NoFile
  <1>1. StoredContent = [v \in Videos |-> old(v)]
    BY DEF StoredContent
  <1>2. StoredContent' = [v \in Videos |-> new(v)]
    BY DEF StoredContent
  <1>3. \A v \in Videos : old(v) = new(v)
    BY DEF StoredVideosAreVerified, Verified
  <1>. HIDE DEF old, new
  <1>. QED
    BY <1>1, <1>2, <1>3

LEMMA AcknowledgementsStay ==
  ASSUME \A t \in Sessions :
            /\ reply'[t] = "completed" <=> reply[t] = "completed"
            /\ reply[t] = "completed" => session'[t].req = session[t].req
  PROVE  AcknowledgedVideos' = AcknowledgedVideos
  BY DEF AcknowledgedVideos

LEMMA AcknowledgementsGrow ==
  ASSUME TypeOK, NEW s \in Sessions,
         reply' = [reply EXCEPT ![s] = "completed"],
         session' = session
  PROVE  AcknowledgedVideos' = AcknowledgedVideos \cup {session[s].req.video}
  <1>1. \A t \in Sessions :
            reply'[t] = "completed" <=> (t = s \/ reply[t] = "completed")
    BY DEF TypeOK
  <1>. QED
    BY <1>1 DEF AcknowledgedVideos

-----------------------------------------------------------------------------
\* Only a video that has a row is stored.
StoredVideosHaveRows ==
    \A v \in Videos : video[v].stored => video[v].status # "NONE"

RefinementInv == UploadsInv /\ StoredVideosHaveRows

LEMMA CompletionStores ==
  ASSUME TypeOK, RowsHaveRequests, NEW s \in Sessions, CompleteUploadSession(s)
  PROVE  /\ session[s].req.video \in Videos
         /\ video'[session[s].req.video].stored
         /\ \A w \in Videos \ {session[s].req.video} :
                video'[w].stored = video[w].stored
  <1>. DEFINE v == session[s].req.video
              mid == [video EXCEPT ![v].status = "UPLOADED"]
  <1>1. v \in Videos
    BY LiveRow, ActiveRow DEF CompleteUploadSession, ComposeAttempt
  <1>2. video' = [mid EXCEPT ![v].stored = TRUE]
    BY DEF CompleteUploadSession
  <1>3. \A w \in Videos \ {v} : mid[w] = video[w]
    BY DEF TypeOK
  <1>4. mid \in [Videos -> VideoRow]
    BY <1>1, VideoStatusUpdate DEF TypeOK, VideoStatuses
  <1>. HIDE DEF mid
  <1>. QED
    BY <1>1, <1>2, <1>3, <1>4 DEF VideoRow

\* A step on a session other than its completion stores and removes nothing.
LEMMA OnlyCompletionStores ==
  ASSUME TypeOK, NEW s \in Sessions, SessionStep(s), ~CompleteUploadSession(s)
  PROVE  \A v \in Videos : video'[v].stored = video[v].stored
  <1>1. CASE \/ CompleteChecksumMismatch(s)
             \/ CompleteInvalidContent(s)
             \/ CompleteRolledBack(s)
             \/ CompleteAgain(s)
    BY <1>1 DEF CompleteChecksumMismatch, CompleteInvalidContent,
       CompleteRolledBack, CompleteAgain, rows
  <1>2. CASE ~CompleteStep(s)
    BY <1>2, StoreAndCloseKeepStorage DEF SessionStep, StorageKept
  <1>. QED
    BY <1>1, <1>2 DEF CompleteStep

LEMMA StoredHaveRowsStep ==
  RefinementInv /\ [Next]_vars => StoredVideosHaveRows'
  <1>. SUFFICES ASSUME RefinementInv, [Next]_vars, NEW v \in Videos,
                       video'[v].stored
                PROVE  video'[v].status # "NONE"
    BY DEF StoredVideosHaveRows
  <1>. USE DEF RefinementInv, UploadsInv
  <1>1. ASSUME NEW r \in Requests, CreateUploadSession(r)
        PROVE  video'[v].status # "NONE"
    <2>1. video'[v] = video[v]
      BY <1>1 DEF CreateUploadSession, TypeOK
    <2>. QED
      BY <2>1 DEF StoredVideosHaveRows
  <1>2. ASSUME NEW s \in Sessions, SessionStep(s)
        PROVE  video'[v].status # "NONE"
    <2>1. RowsKept
      BY <1>2, SessionStepKeepsRows
    <2>2. video[v].stored => video'[v].status # "NONE"
      BY <2>1 DEF StoredVideosHaveRows, RowsKept
    <2>3. CASE CompleteUploadSession(s)
      <3>1. \/ video[v].stored
            \/ v = session[s].req.video /\ session[s].status # "NONE"
        BY <2>3, CompletionStores, ActiveRow
           DEF CompleteUploadSession, ComposeAttempt
      <3>. QED
        BY <2>1, <2>2, <3>1 DEF RowsHaveRequests, RowsKept
    <2>4. CASE ~CompleteUploadSession(s)
      BY <1>2, <2>2, <2>4, OnlyCompletionStores
    <2>. QED
      BY <2>3, <2>4
  <1>3. CASE UNCHANGED video
    BY <1>3 DEF StoredVideosHaveRows
  <1>. QED
    BY <1>1, <1>2, <1>3 DEF Next, RunHooks, LoseHooks, DestroyEvent, vars, rows

-----------------------------------------------------------------------------
LEMMA LibraryInit == Init => Library!Init
  BY DEF Init, Library!Init, StoredContent, AcknowledgedVideos

LEMMA CreateIsUnseen ==
  ASSUME RefinementInv, UploadsInv', NEW r \in Requests, CreateUploadSession(r)
  PROVE  UNCHANGED <<StoredContent, AcknowledgedVideos>>
  <1>. USE DEF RefinementInv, UploadsInv
  <1>1. ASSUME NEW v \in Videos
        PROVE  /\ video'[v].stored <=> video[v].stored
               /\ video[v].stored => video'[v].req = video[v].req
    <2>1. CASE video'[v] = video[v]
      BY <2>1
    <2>2. CASE video'[v] # video[v]
      <3>1. /\ v = r.video /\ video[v].status = "NONE"
            /\ video'[v].stored = FALSE
        BY <2>2 DEF CreateUploadSession, TypeOK
      <3>2. ~video[v].stored
        BY <3>1 DEF StoredVideosHaveRows
      <3>. QED
        BY <3>1, <3>2
    <2>. QED
      BY <2>1, <2>2
  <1>2. StoredContent' = StoredContent
    BY <1>1, ContentStays
  <1>3. ASSUME NEW t \in Sessions, reply[t] = "completed"
        PROVE  session'[t].req = session[t].req
    <2>1. session[t].status = "COMPLETED"
      BY <1>3 DEF AnswersFollowCommits
    <2>. QED
      BY <2>1 DEF CreateUploadSession, Active, ActiveStatuses
  <1>4. AcknowledgedVideos' = AcknowledgedVideos
    BY <1>3, AcknowledgementsStay DEF CreateUploadSession
  <1>. QED
    BY <1>2, <1>4

LEMMA CompletionPublishes ==
  ASSUME RefinementInv, UploadsInv', RowsKept,
         NEW s \in Sessions, CompleteUploadSession(s)
  PROVE  [Library!Next]_(Library!vars)
  <1>. USE DEF RefinementInv, UploadsInv
  <1>. DEFINE v == session[s].req.video
              c == session[s].req.sha
  <1>1. /\ v \in Videos /\ video'[v].stored
        /\ \A w \in Videos \ {v} : video'[w].stored = video[w].stored
    BY CompletionStores
  <1>2. \A t \in Sessions : session'[t].req = session[t].req
    BY DEF RowsKept
  <1>3. AcknowledgedVideos' = AcknowledgedVideos
    BY <1>2, AcknowledgementsStay DEF CompleteUploadSession
  <1>4. CASE video[v].stored
    <2>1. StoredContent' = StoredContent
      BY <1>1, <1>4, ContentStays DEF RowsKept, TypeOK, VideoRow
    <2>. QED
      BY <1>3, <2>1 DEF Library!vars
  <1>5. CASE ~video[v].stored
    <2>1. /\ session[s].req \in Requests
          /\ c = video[v].req.sha
      BY ActiveRow DEF CompleteUploadSession, ComposeAttempt,
         RowsHaveRequests, SameVideo
    <2>2. c[0] \in Mp4Heads
      BY ComposedContent
         DEF CompleteUploadSession, HasMp4Head, DigestMatches
    <2>3. c \in PlayableContents[v]
      BY <1>1, <2>1, <2>2 DEF PlayableContents
    <2>4. StoredContent[v] = NoFile
      BY <1>1, <1>5 DEF StoredContent
    <2>5. StoredContent' = [StoredContent EXCEPT ![v] = c]
      <3>. DEFINE old(w) == IF video[w].stored THEN video[w].req.sha ELSE NoFile
                  new(w) == IF video'[w].stored THEN video'[w].req.sha ELSE NoFile
      <3>1. StoredContent = [w \in Videos |-> old(w)]
        BY ContentIsDeclared
      <3>2. StoredContent' = [w \in Videos |-> new(w)]
        BY DEF StoredContent, StoredVideosAreVerified, Verified
      <3>3. /\ new(v) = c
            /\ \A w \in Videos \ {v} : new(w) = old(w)
        BY <1>1, <2>1 DEF RowsKept
      <3>. HIDE DEF old, new
      <3>. QED
        BY <1>1, <3>1, <3>2, <3>3
    <2>6. Library!Publish(v)
      BY <1>3, <2>3, <2>4, <2>5 DEF Library!Publish
    <2>. QED
      BY <1>1, <2>6 DEF Library!Next
  <1>. QED
    BY <1>4, <1>5

\* A call that answers "completed" acknowledges a stored video.
LEMMA AnswerAcknowledges ==
  ASSUME RefinementInv, UploadsInv', UNCHANGED rows,
         NEW s \in Sessions, session[s].status = "COMPLETED",
         reply' = [reply EXCEPT ![s] = "completed"]
  PROVE  [Library!Next]_(Library!vars)
  <1>. USE DEF RefinementInv, UploadsInv
  <1>. DEFINE v == session[s].req.video
  <1>1. v \in Videos
    BY LiveRow
  <1>2. StoredContent' = StoredContent
    BY ContentStays DEF rows
  <1>3. AcknowledgedVideos' = AcknowledgedVideos \cup {v}
    BY AcknowledgementsGrow DEF rows
  <1>4. StoredContent[v] # NoFile
    <2>1. video[v].stored /\ video[v].req \in Requests
      BY <1>1 DEF AnswersFollowCommits, StoredVideosHaveRows, RowsHaveRequests
    <2>. QED
      BY <1>1, <2>1, ContentIsDeclared, UploadsAssumption
  <1>5. Library!Acknowledge(v)
    BY <1>2, <1>3, <1>4 DEF Library!Acknowledge
  <1>. QED
    BY <1>1, <1>5 DEF Library!Next

\* Every other step is invisible.
LEMMA QuietIsUnseen ==
  ASSUME RefinementInv, UploadsInv', RowsKept,
         \A v \in Videos : video'[v].stored = video[v].stored,
         \A t \in Sessions : reply'[t] = "completed" <=> reply[t] = "completed"
  PROVE  [Library!Next]_(Library!vars)
  <1>. USE DEF RefinementInv, UploadsInv
  <1>1. StoredContent' = StoredContent
    BY ContentStays DEF RowsKept
  <1>2. AcknowledgedVideos' = AcknowledgedVideos
    BY AcknowledgementsStay DEF RowsKept
  <1>. QED
    BY <1>1, <1>2 DEF Library!vars

LEMMA SessionStepImplements ==
  ASSUME RefinementInv, UploadsInv', NEW s \in Sessions, SessionStep(s)
  PROVE  [Library!Next]_(Library!vars)
  <1>. USE DEF RefinementInv, UploadsInv
  <1>1. RowsKept
    BY SessionStepKeepsRows
  <1>2. CASE CompleteUploadSession(s)
    BY <1>1, <1>2, CompletionPublishes
  <1>3. CASE CompleteAgain(s)
    BY <1>3, AnswerAcknowledges DEF CompleteAgain
  <1>4. CASE ~CompleteUploadSession(s) /\ ~CompleteAgain(s)
    <2>1. \A t \in Sessions : reply'[t] = "completed" <=> reply[t] = "completed"
      <3>1. CASE CompleteChecksumMismatch(s) \/ CompleteInvalidContent(s)
        <4>1. reply[s] # "completed"
          BY <3>1 DEF CompleteChecksumMismatch, CompleteInvalidContent,
             ComposeAttempt, Active, ActiveStatuses, AnswersFollowCommits
        <4>. QED
          BY <3>1, <4>1 DEF CompleteChecksumMismatch, CompleteInvalidContent,
             TypeOK
      <3>2. CASE ~(CompleteChecksumMismatch(s) \/ CompleteInvalidContent(s))
        BY <1>4, <3>2
           DEF SessionStep, StorePartStep, StoreUploadPart,
           StorePartChecksumMismatch, StorePartRolledBack, CompleteStep,
           CompleteRolledBack, AbortUploadSession, CleanupExpired, MayAbort,
           IsExpired, CloseSession, Lapse
      <3>. QED
        BY <3>1, <3>2
    <2>. QED
      BY <1>1, <1>4, <2>1, OnlyCompletionStores, QuietIsUnseen
  <1>. QED
    BY <1>2, <1>3, <1>4

LEMMA HookStepImplements ==
  ASSUME RefinementInv, UploadsInv', NEW h \in hooks, RunHooks(h) \/ LoseHooks(h)
  PROVE  [Library!Next]_(Library!vars)
  <1>. USE DEF RefinementInv, UploadsInv
  <1>1. UNCHANGED rows
    BY DEF RunHooks, LoseHooks
  <1>2. CASE reply' = reply
    <2>1. \A v \in Videos : video'[v].stored = video[v].stored
      BY <1>1 DEF rows
    <2>. QED
      BY <1>1, <1>2, <2>1, SameRows, QuietIsUnseen
  <1>3. CASE reply' # reply
    <2>1. /\ h.prepare
          /\ reply' = [reply EXCEPT ![h.session] = "completed"]
      BY <1>3 DEF RunHooks, LoseHooks
    <2>2. h.session \in Sessions /\ session[h.session].status = "COMPLETED"
      BY <2>1 DEF TypeOK, AnswersFollowCommits
    <2>. QED
      BY <1>1, <2>1, <2>2, AnswerAcknowledges
  <1>. QED
    BY <1>2, <1>3

LEMMA LibraryStep ==
  RefinementInv /\ UploadsInv' /\ [Next]_vars => [Library!Next]_(Library!vars)
  <1>. SUFFICES ASSUME RefinementInv, UploadsInv', [Next]_vars
                PROVE  [Library!Next]_(Library!vars)
    OBVIOUS
  <1>1. ASSUME NEW r \in Requests, CreateUploadSession(r)
        PROVE  [Library!Next]_(Library!vars)
    BY <1>1, CreateIsUnseen DEF Library!vars
  <1>2. ASSUME NEW s \in Sessions, SessionStep(s)
        PROVE  [Library!Next]_(Library!vars)
    BY <1>2, SessionStepImplements
  <1>3. ASSUME NEW h \in hooks, RunHooks(h) \/ LoseHooks(h)
        PROVE  [Library!Next]_(Library!vars)
    BY <1>3, HookStepImplements
  <1>4. CASE UNCHANGED <<session, video, videoFile, reply>>
    BY <1>4 DEF Library!vars, StoredContent, AcknowledgedVideos
  <1>. QED
    BY <1>1, <1>2, <1>3, <1>4 DEF Next, DestroyEvent, vars, rows, files

\* The upload operations implement the library: whatever is lost, repeated,
\* interleaved or crashed, a video is published once, complete and playable,
\* is never replaced, and is acknowledged only when it is there.
THEOREM UploadsImplementLibrary == Spec => ImplementsLibrary
  <1>1. Init => Library!Init /\ RefinementInv
    BY LibraryInit, UploadsInvInit
       DEF Init, RefinementInv, StoredVideosHaveRows
  <1>2. RefinementInv /\ [Next]_vars => RefinementInv'
    BY UploadsInvStep, StoredHaveRowsStep DEF RefinementInv
  <1>3. RefinementInv' => UploadsInv'
    BY DEF RefinementInv
  <1>. QED
    BY <1>1, <1>2, <1>3, LibraryStep, PTL
       DEF Spec, ImplementsLibrary, Library!Spec
=============================================================================
