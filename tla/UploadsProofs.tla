---------------------------- MODULE UploadsProofs ----------------------------
(***************************************************************************)
(* Proofs of the safety properties of module Uploads for any numbers of    *)
(* operators, events, tokens, videos, keys and parts.                      *)
(*                                                                         *)
(* UploadsInv is inductive: a stored video is safe because every session   *)
(* that could write its file declares the digest its video row declares    *)
(* (RowsHaveRequests), and an answer "completed" is true because only the  *)
(* commit that completes a session leaves callbacks that say so            *)
(* (AnswersFollowCommits).  PartsInv adds the part rows and files; it uses *)
(* UploadsInv and PartLayoutProofs.                                        *)
(***************************************************************************)
EXTENDS UploadsProperties, PartLayoutProofs, TLAPS

LEMMA TypeInit == Init => TypeOK
  <1>. SUFFICES ASSUME Init PROVE TypeOK
    OBVIOUS
  <1>. USE DEF Init
  <1>1. session \in [Sessions -> SessionRow]
    BY DEF SessionStatuses, SessionRow
  <1>2. video \in [Videos -> VideoRow]
    BY DEF VideoStatuses, VideoRow
  <1>3. token \in [Tokens -> TokenRow]
    BY DEF TokenStatuses, TokenRow
  <1>. QED
    BY <1>1, <1>2, <1>3 DEF TypeOK

LEMMA SessionStatusUpdate ==
  ASSUME session \in [Sessions -> SessionRow],
         NEW s \in Sessions, NEW st \in SessionStatuses
  PROVE  [session EXCEPT ![s].status = st] \in [Sessions -> SessionRow]
  BY DEF SessionRow

LEMMA VideoStatusUpdate ==
  ASSUME video \in [Videos -> VideoRow],
         NEW v \in Videos, NEW st \in VideoStatuses
  PROVE  [video EXCEPT ![v].status = st] \in [Videos -> VideoRow]
  BY DEF VideoRow

LEMMA CreateType ==
  ASSUME TypeOK, NEW r \in Requests, CreateUploadSession(r)
  PROVE  TypeOK'
  <1>1. session' \in [Sessions -> SessionRow]
    <2>1. [status |-> "CREATED", req |-> r, lapsed |-> FALSE] \in SessionRow
      BY DEF SessionRow, SessionStatuses, ActiveStatuses
    <2>2. ASSUME NEW s \in Sessions
          PROVE  [session[s] EXCEPT !.status = "EXPIRED"] \in SessionRow
      BY <2>2 DEF TypeOK, SessionRow, SessionStatuses
    <2>. QED
      BY <2>1, <2>2 DEF TypeOK, CreateUploadSession
  <1>2. video' \in [Videos -> VideoRow]
    <2>1. [status |-> "PENDING_UPLOAD", req |-> r, stored |-> FALSE]
             \in VideoRow
      BY DEF VideoRow, VideoStatuses
    <2>. QED
      BY <2>1 DEF TypeOK, CreateUploadSession
  <1>3. token' \in [Tokens -> TokenRow]
    <2>1. [status |-> "ASSIGNED", assigned |-> r.video] \in TokenRow
      BY UploadsAssumption DEF TokenRow, TokenStatuses
    <2>. QED
      BY <2>1 DEF TypeOK, CreateUploadSession
  <1>. QED
    BY <1>1, <1>2, <1>3 DEF TypeOK, CreateUploadSession, files

-----------------------------------------------------------------------------
(***************************************************************************)
(* The operations on an existing session.                                  *)
(***************************************************************************)
LEMMA OnCommitType ==
  ASSUME NEW s \in Sessions, NEW prepare \in BOOLEAN
  PROVE  OnCommit(s, prepare) \in [session : Sessions,
                                   parts : SUBSET AllPartNumbers,
                                   prepare : BOOLEAN]
  <1>1. Received(s) \in SUBSET AllPartNumbers
    BY DEF Received
  <1>. QED
    BY <1>1 DEF OnCommit

LEMMA LiveRow ==
  ASSUME RowsHaveRequests, NEW s \in Sessions, session[s].status # "NONE"
  PROVE  /\ session[s].req \in Requests
         /\ session[s].req.video \in Videos
         /\ session[s].req.size \in Nat \ {0}
  BY UploadsAssumption DEF RowsHaveRequests

LEMMA ActiveRow ==
  ASSUME NEW s \in Sessions, Active(s)
  PROVE  session[s].status # "NONE"
  BY DEF Active, ActiveStatuses

LEMMA PartRowType ==
  ASSUME NEW r \in Requests, NEW n \in PartNumbers(r.size), NEW b \in Bodies
  PROVE  PartRow(n, b, r) \in UploadPart
  <1>1. PartSizeOf(r.size) \in Nat
    BY UploadsAssumption, PartSizeAssumption DEF PartSizeOf, Least
  <1>2. n \in Nat
    BY DEF PartNumbers
  <1>3. PartOffset(n, r.size) \in Nat
    BY <1>1, <1>2 DEF PartOffset
  <1>. QED
    BY <1>3, UploadsAssumption DEF PartRow, UploadPart, Tags

LEMMA StorePartType ==
  ASSUME TypeOK, RowsHaveRequests, NEW s \in Sessions, StorePartStep(s)
  PROVE  TypeOK'
  <1>1. PICK n \in AllPartNumbers, b \in Bodies :
             \/ StoreUploadPart(s, n, b)
             \/ StorePartChecksumMismatch(s, n, b)
             \/ StorePartRolledBack(s, n, b)
    BY DEF StorePartStep
  <1>2. CASE StoreUploadPart(s, n, b)
    <2>. DEFINE v == session[s].req.video
    <2>1. session[s].req \in Requests /\ v \in Videos
             /\ n \in PartNumbers(session[s].req.size)
      BY <1>2, LiveRow, ActiveRow DEF StoreUploadPart, PutsPart
    <2>2. session' \in [Sessions -> SessionRow]
      BY <1>2, SessionStatusUpdate
         DEF StoreUploadPart, TypeOK, SessionStatuses, ActiveStatuses
    <2>3. video' \in [Videos -> VideoRow]
      BY <1>2, <2>1, VideoStatusUpdate
         DEF StoreUploadPart, TypeOK, VideoStatuses
    <2>4. parts' \in [Sessions -> [AllPartNumbers -> UploadPart \cup {NoPart}]]
      BY <1>2, <2>1, PartRowType DEF StoreUploadPart, TypeOK
    <2>5. partFile' \in [Sessions -> [AllPartNumbers -> Bodies \cup {NoFile}]]
      BY <1>2 DEF StoreUploadPart, TypeOK
    <2>. QED
      BY <1>2, <2>2, <2>3, <2>4, <2>5 DEF StoreUploadPart, TypeOK
  <1>3. CASE StorePartChecksumMismatch(s, n, b)
    BY <1>3 DEF StorePartChecksumMismatch, TypeOK, rows
  <1>4. CASE StorePartRolledBack(s, n, b)
    BY <1>4 DEF StorePartRolledBack, TypeOK, rows
  <1>. QED
    BY <1>1, <1>2, <1>3, <1>4

LEMMA CompleteType ==
  ASSUME TypeOK, RowsHaveRequests, NEW s \in Sessions, CompleteStep(s)
  PROVE  TypeOK'
  <1>. DEFINE v == session[s].req.video
  <1>1. ASSUME ComposeAttempt(s)
        PROVE  session[s].req \in Requests /\ v \in Videos
    BY <1>1, LiveRow, ActiveRow DEF ComposeAttempt
  <1>2. ASSUME ComposeAttempt(s), DigestMatches(s),
               videoFile' = [videoFile EXCEPT ![v] = Composed(s)]
        PROVE  videoFile' \in [Videos -> {r.sha : r \in Requests} \cup {NoFile}]
    BY <1>1, <1>2 DEF DigestMatches, TypeOK
  <1>3. CASE CompleteUploadSession(s)
    <2>1. session' \in [Sessions -> SessionRow]
      BY <1>3, SessionStatusUpdate
         DEF CompleteUploadSession, TypeOK, SessionStatuses
    <2>2. video' \in [Videos -> VideoRow]
      <3>1. v \in Videos
        BY <1>1, <1>3 DEF CompleteUploadSession
      <3>2. [video EXCEPT ![v].status = "UPLOADED"] \in [Videos -> VideoRow]
        BY <3>1, VideoStatusUpdate DEF TypeOK, VideoStatuses
      <3>3. video' = [[video EXCEPT ![v].status = "UPLOADED"]
                        EXCEPT ![v].stored = TRUE]
        BY <1>3 DEF CompleteUploadSession
      <3>. QED
        BY <3>1, <3>2, <3>3 DEF VideoRow
    <2>3. hooks' \subseteq [session : Sessions, parts : SUBSET AllPartNumbers,
                            prepare : BOOLEAN]
      BY <1>3, OnCommitType DEF CompleteUploadSession, TypeOK
    <2>. QED
      BY <1>2, <1>3, <2>1, <2>2, <2>3 DEF CompleteUploadSession, TypeOK
  <1>4. CASE CompleteChecksumMismatch(s)
    BY <1>4 DEF CompleteChecksumMismatch, TypeOK, rows, files
  <1>5. CASE CompleteInvalidContent(s)
    BY <1>5, <1>1 DEF CompleteInvalidContent, TypeOK, rows
  <1>6. CASE CompleteRolledBack(s)
    BY <1>2, <1>6 DEF CompleteRolledBack, TypeOK, rows
  <1>7. CASE CompleteAgain(s)
    BY <1>7 DEF CompleteAgain, TypeOK, rows, files
  <1>. QED
    BY <1>3, <1>4, <1>5, <1>6, <1>7 DEF CompleteStep

LEMMA CloseType ==
  ASSUME TypeOK, RowsHaveRequests, NEW s \in Sessions,
         AbortUploadSession(s) \/ CleanupExpired(s)
  PROVE  TypeOK'
  <1>. DEFINE v == session[s].req.video
  <1>1. v \in Videos
    BY LiveRow, ActiveRow DEF AbortUploadSession, CleanupExpired,
       MayAbort, IsExpired, CloseSession
  <1>2. session' \in [Sessions -> SessionRow]
    <2>1. PICK st \in SessionStatuses :
             session' = [session EXCEPT ![s].status = st]
      BY DEF AbortUploadSession, CleanupExpired,
         MayAbort, IsExpired, CloseSession, SessionStatuses
    <2>. QED
      BY <2>1, SessionStatusUpdate DEF TypeOK
  <1>3. video' \in [Videos -> VideoRow]
    <2>1. /\ "FAILED" \in VideoStatuses
          /\ video' = [video EXCEPT ![v].status = "FAILED"]
      BY DEF AbortUploadSession, CleanupExpired,
         MayAbort, IsExpired, CloseSession, VideoStatuses
    <2>. QED
      BY <1>1, <2>1, VideoStatusUpdate DEF TypeOK
  <1>4. hooks' \subseteq [session : Sessions, parts : SUBSET AllPartNumbers,
                          prepare : BOOLEAN]
    BY OnCommitType DEF AbortUploadSession, CleanupExpired,
       MayAbort, IsExpired, CloseSession, TypeOK
  <1>. QED
    BY <1>2, <1>3, <1>4 DEF AbortUploadSession, CleanupExpired,
       MayAbort, IsExpired, CloseSession, TypeOK, files

LEMMA DeletionType ==
  ASSUME TypeOK, NEW s \in Sessions, NEW gone, DeletePartFiles(s, gone)
  PROVE  partFile' \in [Sessions -> [AllPartNumbers -> Bodies \cup {NoFile}]]
  BY DEF DeletePartFiles, TypeOK

LEMMA HooksType ==
  ASSUME TypeOK, NEW h \in hooks, RunHooks(h) \/ LoseHooks(h)
  PROVE  TypeOK'
  <1>0. h.session \in Sessions
    BY DEF TypeOK
  <1>1. CASE LoseHooks(h)
    <2>1. PICK gone : DeletePartFiles(h.session, gone)
      BY <1>1 DEF LoseHooks
    <2>2. partFile' \in [Sessions -> [AllPartNumbers -> Bodies \cup {NoFile}]]
      BY <1>0, <2>1, DeletionType
    <2>. QED
      BY <1>1, <2>2 DEF LoseHooks, TypeOK, rows
  <1>2. CASE RunHooks(h)
    <2>1. PICK gone : DeletePartFiles(h.session, gone)
      BY <1>2 DEF RunHooks
    <2>2. partFile' \in [Sessions -> [AllPartNumbers -> Bodies \cup {NoFile}]]
      BY <1>0, <2>1, DeletionType
    <2>3. queue' \in [Videos -> Nat]
      BY <1>2 DEF RunHooks, TypeOK
    <2>4. reply' \in [Sessions -> {"none", "completed", "checksum_mismatch",
                                   "invalid_content"}]
      BY <1>2 DEF RunHooks, TypeOK
    <2>5. hooks' \subseteq hooks
      BY <1>2 DEF RunHooks
    <2>. QED
      BY <1>2, <2>2, <2>3, <2>4, <2>5 DEF RunHooks, TypeOK, rows
  <1>. QED
    BY <1>1, <1>2

LEMMA TypeStep ==
  TypeOK /\ RowsHaveRequests /\ [Next]_vars => TypeOK'
  <1>. SUFFICES ASSUME TypeOK, RowsHaveRequests, [Next]_vars
                PROVE  TypeOK'
    OBVIOUS
  <1>1. ASSUME NEW r \in Requests, CreateUploadSession(r) PROVE TypeOK'
    BY <1>1, CreateType
  <1>2. ASSUME NEW s \in Sessions, SessionStep(s) PROVE TypeOK'
    <2>1. CASE Lapse(s)
      BY <2>1 DEF Lapse, TypeOK, SessionRow, files
    <2>. QED
      BY <1>2, <2>1, StorePartType, CompleteType, CloseType DEF SessionStep
  <1>3. ASSUME NEW h \in hooks, RunHooks(h) \/ LoseHooks(h) PROVE TypeOK'
    BY <1>3, HooksType
  <1>4. ASSUME NEW e \in Events, DestroyEvent(e) PROVE TypeOK'
    BY <1>4 DEF DestroyEvent, TypeOK, files
  <1>5. CASE UNCHANGED vars
    BY <1>5 DEF vars, rows, files, TypeOK
  <1>. QED
    BY <1>1, <1>2, <1>3, <1>4, <1>5 DEF Next

-----------------------------------------------------------------------------
(***************************************************************************)
(* Only create_upload_session adds rows, links them or opens a session.    *)
(***************************************************************************)
RowsKept ==
    /\ \A s \in Sessions :
          /\ session'[s].req = session[s].req
          /\ session'[s].status = "NONE" <=> session[s].status = "NONE"
          /\ session'[s].status \in ActiveStatuses => Active(s)
          /\ session[s].status = "COMPLETED" => session'[s].status = "COMPLETED"
    /\ \A v \in Videos :
          /\ video'[v].req = video[v].req
          /\ video'[v].status = "NONE" <=> video[v].status = "NONE"
    /\ token' = token

LEMMA StatusesKeepRows ==
  ASSUME TypeOK, RowsHaveRequests,
         NEW s \in Sessions, session[s].status # "NONE",
         NEW st, st # "NONE", st \in ActiveStatuses => Active(s),
         session[s].status = "COMPLETED" => st = "COMPLETED",
         NEW vt, vt # "NONE",
         session' = [session EXCEPT ![s].status = st],
         \/ video' = [video EXCEPT ![session[s].req.video].status = vt]
         \/ video' = [video EXCEPT ![session[s].req.video].status = vt,
                                  ![session[s].req.video].stored = TRUE],
         token' = token
  PROVE  RowsKept
  <1>. DEFINE w == session[s].req.video
  <1>1. w \in Videos /\ video[w].status # "NONE"
    BY LiveRow DEF RowsHaveRequests
  <1>2. ASSUME NEW t \in Sessions
        PROVE  /\ session'[t].req = session[t].req
               /\ session'[t].status = "NONE" <=> session[t].status = "NONE"
               /\ session'[t].status \in ActiveStatuses => Active(t)
               /\ session[t].status = "COMPLETED" =>
                     session'[t].status = "COMPLETED"
    BY DEF TypeOK, SessionRow, Active
  <1>3. ASSUME NEW v \in Videos
        PROVE  /\ video'[v].req = video[v].req
               /\ video'[v].status = "NONE" <=> video[v].status = "NONE"
    <2>1. CASE video' = [video EXCEPT ![w].status = vt]
      BY <1>1, <2>1 DEF TypeOK, VideoRow
    <2>2. CASE video' = [video EXCEPT ![w].status = vt, ![w].stored = TRUE]
      <3>. DEFINE mid == [video EXCEPT ![w].status = vt]
      <3>1. video' = [mid EXCEPT ![w].stored = TRUE]
        BY <2>2
      <3>2. /\ mid \in [Videos -> [status : {vt} \cup VideoStatuses,
                                  req : Requests \cup {NoRequest},
                                  stored : BOOLEAN]]
            /\ mid[v].req = video[v].req
            /\ mid[v].status = "NONE" <=> video[v].status = "NONE"
        BY <1>1 DEF TypeOK, VideoRow
      <3>. HIDE DEF mid
      <3>. QED
        BY <3>1, <3>2
    <2>. QED
      BY <2>1, <2>2
  <1>. QED
    BY <1>2, <1>3 DEF RowsKept

LEMMA SameRows ==
  ASSUME UNCHANGED rows
  PROVE  RowsKept
  BY DEF rows, RowsKept, Active

LEMMA SessionStepKeepsRows ==
  ASSUME TypeOK, RowsHaveRequests, NEW s \in Sessions, SessionStep(s)
  PROVE  RowsKept
  <1>1. CASE StorePartStep(s)
    <2>1. PICK n \in AllPartNumbers, b \in Bodies :
               \/ StoreUploadPart(s, n, b)
               \/ StorePartChecksumMismatch(s, n, b)
               \/ StorePartRolledBack(s, n, b)
      BY <1>1 DEF StorePartStep
    <2>2. CASE StoreUploadPart(s, n, b)
      <3>1. Active(s) /\ session[s].status # "NONE"
               /\ session[s].status # "COMPLETED"
        BY <2>2 DEF StoreUploadPart, PutsPart, Active, ActiveStatuses
      <3>. QED
        BY <2>2, <3>1, StatusesKeepRows DEF StoreUploadPart
    <2>3. CASE StorePartChecksumMismatch(s, n, b)
      BY <2>3, SameRows DEF StorePartChecksumMismatch
    <2>4. CASE StorePartRolledBack(s, n, b)
      BY <2>4, SameRows DEF StorePartRolledBack
    <2>. QED
      BY <2>1, <2>2, <2>3, <2>4
  <1>2. CASE CompleteStep(s)
    <2>1. CASE CompleteUploadSession(s)
      <3>1. session[s].status # "NONE"
        BY <2>1, ActiveRow DEF CompleteUploadSession, ComposeAttempt
      <3>2. "COMPLETED" \notin ActiveStatuses
        BY DEF ActiveStatuses
      <3>. QED
        BY <2>1, <3>1, <3>2, StatusesKeepRows DEF CompleteUploadSession
    <2>2. CASE ~CompleteUploadSession(s)
      <3>1. UNCHANGED rows
        BY <1>2, <2>2 DEF CompleteStep, CompleteChecksumMismatch,
           CompleteInvalidContent, CompleteRolledBack, CompleteAgain
      <3>. QED
        BY <3>1, SameRows
    <2>. QED
      BY <2>1, <2>2
  <1>3. CASE AbortUploadSession(s)
    <2>1. /\ session[s].status # "NONE"
          /\ session[s].status # "COMPLETED"
          /\ "ABORTED" \notin ActiveStatuses
      BY <1>3 DEF AbortUploadSession, MayAbort, CloseSession, ActiveStatuses
    <2>. QED
      BY <1>3, <2>1, StatusesKeepRows DEF AbortUploadSession, MayAbort, CloseSession
  <1>4. CASE CleanupExpired(s)
    <2>1. /\ session[s].status # "NONE"
          /\ session[s].status # "COMPLETED"
          /\ "EXPIRED" \notin ActiveStatuses
      BY <1>4 DEF CleanupExpired, IsExpired, CloseSession, Active, ActiveStatuses
    <2>. QED
      BY <1>4, <2>1, StatusesKeepRows DEF CleanupExpired, IsExpired, CloseSession
  <1>5. CASE Lapse(s)
    BY <1>5 DEF Lapse, RowsKept, TypeOK, SessionRow, Active
  <1>. QED
    BY <1>1, <1>2, <1>3, <1>4, <1>5 DEF SessionStep

LEMMA KeptRowsStayLinked ==
  ASSUME TypeOK, RowsHaveRequests, OneActiveSession, TokensBindOneVideo,
         RowsKept
  PROVE  RowsHaveRequests' /\ OneActiveSession' /\ TokensBindOneVideo'
  <1>1. RowsHaveRequests'
    <2>1. ASSUME NEW s \in Sessions, session'[s].status # "NONE"
          PROVE  /\ session'[s].req \in Requests
                 /\ s = <<session'[s].req.operator, session'[s].req.key>>
                 /\ video'[session'[s].req.video].status # "NONE"
                 /\ SameVideo(video'[session'[s].req.video].req, session'[s].req)
      <3>1. session[s].status # "NONE" /\ session'[s].req = session[s].req
        BY <2>1 DEF RowsKept
      <3>2. session[s].req.video \in Videos
        BY <3>1, LiveRow
      <3>. QED
        BY <3>1, <3>2 DEF RowsHaveRequests, RowsKept
    <2>2. ASSUME NEW v \in Videos, video'[v].status # "NONE"
          PROVE  video'[v].req \in Requests /\ video'[v].req.video = v
      BY <2>2 DEF RowsHaveRequests, RowsKept
    <2>. QED
      BY <2>1, <2>2 DEF RowsHaveRequests
  <1>2. OneActiveSession'
    BY DEF OneActiveSession, RowsKept, Active
  <1>3. TokensBindOneVideo'
    <2>1. ASSUME NEW v \in Videos, video'[v].status # "NONE"
          PROVE  /\ token'[video'[v].req.token].assigned = v
                 /\ OwnerOf[EventOf[video'[v].req.token]] = video'[v].req.operator
      BY <2>1 DEF TokensBindOneVideo, RowsKept
    <2>2. ASSUME NEW t \in Tokens, token'[t].assigned # NoVideo
          PROVE  /\ video'[token'[t].assigned].status # "NONE"
                 /\ video'[token'[t].assigned].req.token = t
      <3>1. token'[t] = token[t] /\ token[t].assigned \in Videos
        BY <2>2 DEF RowsKept, TypeOK, TokenRow
      <3>. QED
        BY <2>2, <3>1 DEF TokensBindOneVideo, RowsKept
    <2>. QED
      BY <2>1, <2>2 DEF TokensBindOneVideo
  <1>. QED
    BY <1>1, <1>2, <1>3

LEMMA CreateLinksRows ==
  ASSUME TypeOK, RowsHaveRequests, OneActiveSession, TokensBindOneVideo,
         NEW r \in Requests, CreateUploadSession(r)
  PROVE  RowsHaveRequests' /\ OneActiveSession' /\ TokensBindOneVideo'
  <1>. DEFINE id == <<r.operator, r.key>>
              stale == {s \in SessionsOf(r.video) : Active(s) /\ session[s].lapsed}
  <1>0. id \in Sessions /\ r.video \in Videos /\ r.token \in Tokens
    BY UploadsAssumption DEF Sessions
  <1>1. /\ session'[id] = [status |-> "CREATED", req |-> r, lapsed |-> FALSE]
        /\ \A s \in Sessions \ {id} :
              /\ session'[s].req = session[s].req
              /\ session'[s].status =
                    IF s \in stale THEN "EXPIRED" ELSE session[s].status
    <2>1. session'[id] = [status |-> "CREATED", req |-> r, lapsed |-> FALSE]
      BY <1>0 DEF CreateUploadSession
    <2>2. ASSUME NEW s \in Sessions, s # id, s \in stale
          PROVE  /\ session'[s].req = session[s].req
                 /\ session'[s].status = "EXPIRED"
      <3>1. session'[s] = [session[s] EXCEPT !.status = "EXPIRED"]
        BY <2>2 DEF CreateUploadSession
      <3>2. session[s] \in SessionRow
        BY DEF TypeOK
      <3>. QED
        BY <3>1, <3>2 DEF SessionRow
    <2>3. ASSUME NEW s \in Sessions, s # id, s \notin stale
          PROVE  session'[s] = session[s]
      BY <2>3 DEF CreateUploadSession
    <2>. QED
      BY <2>1, <2>2, <2>3
  <1>2. /\ \A v \in Videos \ {r.video} : video'[v] = video[v]
        /\ video'[r.video] =
              IF video[r.video].status = "NONE"
                THEN [status |-> "PENDING_UPLOAD", req |-> r, stored |-> FALSE]
                ELSE video[r.video]
    BY <1>0 DEF CreateUploadSession, TypeOK
  <1>3. /\ \A t \in Tokens \ {r.token} : token'[t] = token[t]
        /\ token'[r.token] =
              IF video[r.video].status = "NONE"
                THEN [status |-> "ASSIGNED", assigned |-> r.video]
                ELSE token[r.token]
    BY <1>0 DEF CreateUploadSession, TypeOK
  <1>4. /\ EventOf[r.token] = r.event
        /\ OwnerOf[r.event] = r.operator
        /\ token[r.token].assigned \in {NoVideo, r.video}
        /\ video[r.video].status # "NONE" => SameVideo(video[r.video].req, r)
    BY DEF CreateUploadSession, TokenAccepts, VideoAccepts
  <1>5. RowsHaveRequests'
    <2>1. ASSUME NEW v \in Videos, video'[v].status # "NONE"
          PROVE  video'[v].req \in Requests /\ video'[v].req.video = v
      <3>1. CASE video[v].status = "NONE"
        BY <1>2, <2>1, <3>1
      <3>2. CASE video[v].status # "NONE"
        BY <1>2, <3>2 DEF RowsHaveRequests
      <3>. QED
        BY <3>1, <3>2
    <2>2. ASSUME NEW s \in Sessions, session'[s].status # "NONE"
          PROVE  /\ session'[s].req \in Requests
                 /\ s = <<session'[s].req.operator, session'[s].req.key>>
                 /\ video'[session'[s].req.video].status # "NONE"
                 /\ SameVideo(video'[session'[s].req.video].req, session'[s].req)
      <3>1. CASE s = id
        BY <1>0, <1>1, <1>2, <1>4, <3>1 DEF SameVideo
      <3>2. CASE s # id
        <4>1. session[s].status # "NONE" /\ session'[s].req = session[s].req
          BY <1>1, <2>2, <3>2 DEF SessionsOf
        <4>2. session[s].req.video \in Videos
          BY <4>1, LiveRow
        <4>. QED
          BY <1>2, <4>1, <4>2 DEF RowsHaveRequests
      <3>. QED
        BY <3>1, <3>2
    <2>. QED
      BY <2>1, <2>2 DEF RowsHaveRequests
  <1>6. OneActiveSession'
    <2>1. ASSUME NEW s \in Sessions, s # id,
                 session'[s].status \in ActiveStatuses
          PROVE  /\ Active(s)
                 /\ session[s].req.video # r.video
                 /\ session'[s].req = session[s].req
      <3>1. s \in SessionsOf(r.video) /\ Active(s) => s \in stale
        BY DEF CreateUploadSession, NoLiveSession
      <3>. QED
        BY <1>1, <2>1, <3>1 DEF SessionsOf, Active, ActiveStatuses
    <2>. QED
      BY <1>0, <1>1, <2>1 DEF OneActiveSession, Active
  <1>7. TokensBindOneVideo'
    <2>1. ASSUME NEW v \in Videos, video'[v].status # "NONE"
          PROVE  /\ token'[video'[v].req.token].assigned = v
                 /\ OwnerOf[EventOf[video'[v].req.token]] = video'[v].req.operator
      <3>1. CASE video[v].status = "NONE"
        BY <1>0, <1>2, <1>3, <1>4, <2>1, <3>1
      <3>2. CASE video[v].status # "NONE"
        <4>1. /\ video'[v] = video[v]
              /\ video[v].req.token \in Tokens
              /\ token[video[v].req.token].assigned = v
          BY <1>2, <3>2, UploadsAssumption DEF RowsHaveRequests, TokensBindOneVideo
        <4>2. token'[video[v].req.token].assigned = v
          BY <1>0, <1>3, <1>4, <3>2, <4>1, UploadsAssumption
        <4>. QED
          BY <3>2, <4>1, <4>2 DEF TokensBindOneVideo
      <3>. QED
        BY <3>1, <3>2
    <2>2. ASSUME NEW t \in Tokens, token'[t].assigned # NoVideo
          PROVE  /\ video'[token'[t].assigned].status # "NONE"
                 /\ video'[token'[t].assigned].req.token = t
      <3>1. CASE t = r.token /\ video[r.video].status = "NONE"
        BY <1>0, <1>2, <1>3, <3>1
      <3>2. CASE ~(t = r.token /\ video[r.video].status = "NONE")
        <4>1. token'[t] = token[t] /\ token[t].assigned \in Videos
          BY <1>3, <2>2, <3>2 DEF TypeOK, TokenRow
        <4>. QED
          BY <1>2, <2>2, <4>1 DEF TokensBindOneVideo
      <3>. QED
        BY <3>1, <3>2
    <2>. QED
      BY <2>1, <2>2 DEF TokensBindOneVideo
  <1>. QED
    BY <1>5, <1>6, <1>7

-----------------------------------------------------------------------------
(***************************************************************************)
(* What is stored was verified.                                            *)
(***************************************************************************)
StorageKept ==
    /\ videoFile' = videoFile
    /\ \A v \in Videos : video'[v].stored = video[v].stored

LEMMA CreateKeepsVerified ==
  ASSUME TypeOK, NEW v \in Videos, Verified(v),
         NEW r \in Requests, CreateUploadSession(r)
  PROVE  Verified(v)'
  <1>1. video'[v].stored => video'[v] = video[v]
    BY DEF CreateUploadSession, TypeOK
  <1>. QED
    BY <1>1 DEF Verified, CreateUploadSession, files

LEMMA KeptStorageStaysVerified ==
  ASSUME RowsKept, StorageKept, NEW v \in Videos, Verified(v)
  PROVE  Verified(v)'
  BY DEF Verified, RowsKept, StorageKept

LEMMA StatusesKeepStorage ==
  ASSUME TypeOK, NEW v, NEW st,
         video' = [video EXCEPT ![v].status = st],
         videoFile' = videoFile
  PROVE  StorageKept
  BY DEF TypeOK, VideoRow, StorageKept

\* What compose() returns when it does not raise.
LEMMA ComposedContent ==
  ASSUME TypeOK, RowsHaveRequests, NEW s \in Sessions,
         ComposeAttempt(s), DigestMatches(s)
  PROVE  /\ session[s].req.video \in Videos
         /\ Composed(s) = video[session[s].req.video].req.sha
         /\ Composed(s)[0] = partFile[s][0].tag
  <1>1. session[s].status # "NONE"
    BY ActiveRow DEF ComposeAttempt
  <1>2. /\ session[s].req.video \in Videos
        /\ session[s].req.size \in Nat \ {0}
    BY <1>1, LiveRow
  <1>3. video[session[s].req.video].req.sha = session[s].req.sha
    BY <1>1 DEF RowsHaveRequests, SameVideo
  <1>4. 0 \in PartNumbers(session[s].req.size)
    BY <1>2, FirstPart
  <1>. QED
    BY <1>2, <1>3, <1>4 DEF DigestMatches, Composed

LEMMA CompleteKeepsVerified ==
  ASSUME TypeOK, RowsHaveRequests, RowsKept,
         NEW w \in Videos, Verified(w),
         NEW s \in Sessions, CompleteStep(s)
  PROVE  Verified(w)'
  <1>. DEFINE v == session[s].req.video
  <1>1. CASE CompleteUploadSession(s)
    <2>1. /\ v \in Videos
          /\ Composed(s) = video[v].req.sha
          /\ Composed(s)[0] \in Mp4Heads
      BY <1>1, ComposedContent DEF CompleteUploadSession, HasMp4Head
    <2>2. IF w = v THEN videoFile'[w] = Composed(s)
                   ELSE videoFile'[w] = videoFile[w]
      BY <1>1, <2>1 DEF CompleteUploadSession, TypeOK
    <2>3. w # v => video'[w].stored = video[w].stored
      <3>. DEFINE mid == [video EXCEPT ![v].status = "UPLOADED"]
      <3>1. video' = [mid EXCEPT ![v].stored = TRUE]
        BY <1>1 DEF CompleteUploadSession
      <3>2. w # v => mid[w] = video[w]
        BY DEF TypeOK
      <3>3. mid \in [Videos -> VideoRow]
        BY <2>1, VideoStatusUpdate DEF TypeOK, VideoStatuses
      <3>. HIDE DEF mid
      <3>. QED
        BY <3>1, <3>2, <3>3
    <2>. QED
      BY <2>1, <2>2, <2>3 DEF Verified, RowsKept
  <1>2. CASE CompleteRolledBack(s)
    <2>1. v \in Videos /\ Composed(s) = video[v].req.sha
      BY <1>2, ComposedContent DEF CompleteRolledBack
    <2>. QED
      BY <1>2, <2>1 DEF CompleteRolledBack, Verified, TypeOK, rows
  <1>3. CASE CompleteInvalidContent(s)
    <2>1. /\ v \in Videos
          /\ Composed(s) = video[v].req.sha
          /\ Composed(s)[0] \notin Mp4Heads
      BY <1>3, ComposedContent DEF CompleteInvalidContent, HasMp4Head
    <2>2. w = v => ~video[w].stored
      BY <2>1 DEF Verified
    <2>. QED
      BY <1>3, <2>1, <2>2 DEF CompleteInvalidContent, Verified, TypeOK, rows
  <1>4. CASE CompleteChecksumMismatch(s) \/ CompleteAgain(s)
    BY <1>4 DEF CompleteChecksumMismatch, CompleteAgain, Verified, rows, files
  <1>. QED
    BY <1>1, <1>2, <1>3, <1>4 DEF CompleteStep

LEMMA StoreAndCloseKeepStorage ==
  ASSUME TypeOK, NEW s \in Sessions,
         \/ StorePartStep(s)
         \/ AbortUploadSession(s)
         \/ CleanupExpired(s)
         \/ Lapse(s)
  PROVE  StorageKept
  <1>1. CASE StorePartStep(s)
    <2>1. PICK n \in AllPartNumbers, b \in Bodies :
               \/ StoreUploadPart(s, n, b)
               \/ StorePartChecksumMismatch(s, n, b)
               \/ StorePartRolledBack(s, n, b)
      BY <1>1 DEF StorePartStep
    <2>2. CASE StoreUploadPart(s, n, b)
      BY <2>2, StatusesKeepStorage DEF StoreUploadPart
    <2>3. CASE StorePartChecksumMismatch(s, n, b) \/ StorePartRolledBack(s, n, b)
      BY <2>3 DEF StorePartChecksumMismatch, StorePartRolledBack, StorageKept, rows
    <2>. QED
      BY <2>1, <2>2, <2>3
  <1>2. CASE AbortUploadSession(s) \/ CleanupExpired(s)
    BY <1>2, StatusesKeepStorage DEF AbortUploadSession, CleanupExpired,
       MayAbort, IsExpired, CloseSession, files
  <1>3. CASE Lapse(s)
    BY <1>3 DEF Lapse, files, StorageKept
  <1>. QED
    BY <1>1, <1>2, <1>3

LEMMA CompletedVideosStayStored ==
  ASSUME RowsHaveRequests, AnswersFollowCommits, RowsKept,
         NEW s \in Sessions, session[s].status = "COMPLETED",
         \A v \in Videos : video[v].stored => video'[v].stored
  PROVE  video'[session'[s].req.video].stored
  <1>1. session[s].req.video \in Videos
    BY LiveRow
  <1>. QED
    BY <1>1 DEF AnswersFollowCommits, RowsKept

\* The callbacks left by a commit, and those it adds, belong to rows.
LEMMA HooksFollowRows ==
  ASSUME TypeOK, AnswersFollowCommits, RowsKept,
         NEW h \in hooks
  PROVE  /\ session'[h.session].status # "NONE"
         /\ h.prepare => session'[h.session].status = "COMPLETED"
  <1>1. h.session \in Sessions
    BY DEF TypeOK
  <1>. QED
    BY <1>1 DEF AnswersFollowCommits, RowsKept

LEMMA RepliesFollowRows ==
  ASSUME AnswersFollowCommits, RowsKept,
         NEW s \in Sessions, reply[s] = "completed"
  PROVE  session'[s].status = "COMPLETED"
  BY DEF AnswersFollowCommits, RowsKept

LEMMA CreateKeepsAnswers ==
  ASSUME TypeOK, RowsHaveRequests, AnswersFollowCommits,
         NEW r \in Requests, CreateUploadSession(r)
  PROVE  AnswersFollowCommits'
  <1>. DEFINE id == <<r.operator, r.key>>
  <1>1. ASSUME NEW s \in Sessions, session[s].status = "COMPLETED"
        PROVE  /\ session'[s] = session[s]
               /\ video[session[s].req.video].stored
               /\ video'[session[s].req.video] = video[session[s].req.video]
    <2>1. ~Active(s)
      BY <1>1 DEF Active, ActiveStatuses
    <2>2. s # id
      BY <1>1 DEF CreateUploadSession
    <2>3. /\ session[s].req.video \in Videos
          /\ video[session[s].req.video].status # "NONE"
      BY <1>1, LiveRow DEF RowsHaveRequests
    <2>. QED
      BY <1>1, <2>1, <2>2, <2>3
         DEF AnswersFollowCommits, CreateUploadSession, TypeOK
  <1>2. ASSUME NEW s \in Sessions, session'[s].status = "COMPLETED"
        PROVE  session[s].status = "COMPLETED"
    <2>1. CASE s = id
      BY <1>2, <2>1 DEF CreateUploadSession
    <2>2. CASE s # id /\ session'[s] = session[s]
      BY <1>2, <2>2
    <2>3. CASE s # id /\ session'[s] # session[s]
      <3>1. session'[s] = [session[s] EXCEPT !.status = "EXPIRED"]
        BY <2>3 DEF CreateUploadSession
      <3>2. session[s] \in SessionRow
        BY DEF TypeOK
      <3>. QED
        BY <1>2, <3>1, <3>2 DEF SessionRow
    <2>. QED
      BY <2>1, <2>2, <2>3
  <1>3. ASSUME NEW s \in Sessions, session[s].status # "NONE"
        PROVE  session'[s].status # "NONE"
    <2>1. CASE session'[s] = session[s]
      BY <1>3, <2>1
    <2>2. CASE session'[s] # session[s]
      <3>1. session'[s] = [session[s] EXCEPT !.status = "EXPIRED"]
        BY <1>3, <2>2 DEF CreateUploadSession
      <3>2. session[s] \in SessionRow
        BY DEF TypeOK
      <3>. QED
        BY <3>1, <3>2 DEF SessionRow
    <2>. QED
      BY <2>1, <2>2
  <1>4. hooks' = hooks /\ reply' = reply
    BY DEF CreateUploadSession
  <1>5. \A h \in hooks : h.session \in Sessions
    BY DEF TypeOK
  <1>. QED
    BY <1>1, <1>2, <1>3, <1>4, <1>5 DEF AnswersFollowCommits

LEMMA QuietStepsKeepAnswers ==
  ASSUME TypeOK, RowsHaveRequests, AnswersFollowCommits, RowsKept,
         \A v \in Videos : video[v].stored => video'[v].stored,
         \A t \in Sessions : session'[t].status = "COMPLETED" =>
              session[t].status = "COMPLETED",
         \A h \in hooks' : \/ h \in hooks
                           \/ /\ session'[h.session].status # "NONE"
                              /\ ~h.prepare,
         \A t \in Sessions : reply'[t] = "completed" =>
              reply[t] = "completed" \/ session[t].status = "COMPLETED"
  PROVE  AnswersFollowCommits'
  <1>1. ASSUME NEW t \in Sessions, session'[t].status = "COMPLETED"
        PROVE  video'[session'[t].req.video].stored
    BY <1>1, CompletedVideosStayStored
  <1>2. ASSUME NEW h \in hooks'
        PROVE  /\ session'[h.session].status # "NONE"
               /\ h.prepare => session'[h.session].status = "COMPLETED"
    BY <1>2, HooksFollowRows
  <1>3. ASSUME NEW t \in Sessions, reply'[t] = "completed"
        PROVE  session'[t].status = "COMPLETED"
    BY <1>3, RepliesFollowRows DEF RowsKept
  <1>. QED
    BY <1>1, <1>2, <1>3 DEF AnswersFollowCommits

LEMMA CompletionKeepsAnswers ==
  ASSUME TypeOK, RowsHaveRequests, AnswersFollowCommits, RowsKept,
         NEW s \in Sessions, CompleteUploadSession(s)
  PROVE  AnswersFollowCommits'
  <1>. DEFINE v == session[s].req.video
  <1>1. v \in Videos
    BY LiveRow, ActiveRow DEF CompleteUploadSession, ComposeAttempt
  <1>2. /\ video'[v].stored
        /\ \A w \in Videos : video[w].stored => video'[w].stored
    <2>. DEFINE mid == [video EXCEPT ![v].status = "UPLOADED"]
    <2>1. video' = [mid EXCEPT ![v].stored = TRUE]
      BY DEF CompleteUploadSession
    <2>2. \A w \in Videos \ {v} : mid[w] = video[w]
      BY DEF TypeOK
    <2>3. mid \in [Videos -> VideoRow]
      BY <1>1, VideoStatusUpdate DEF TypeOK, VideoStatuses
    <2>. HIDE DEF mid
    <2>. QED
      BY <1>1, <2>1, <2>2, <2>3 DEF VideoRow
  <1>3. /\ session'[s].status = "COMPLETED"
        /\ session'[s].req = session[s].req
        /\ \A t \in Sessions \ {s} : session'[t] = session[t]
    BY DEF CompleteUploadSession, TypeOK, SessionRow
  <1>4. ASSUME NEW t \in Sessions, session'[t].status = "COMPLETED"
        PROVE  video'[session'[t].req.video].stored
    BY <1>2, <1>3, <1>4, CompletedVideosStayStored
  <1>5. ASSUME NEW h \in hooks'
        PROVE  /\ session'[h.session].status # "NONE"
               /\ h.prepare => session'[h.session].status = "COMPLETED"
    <2>1. CASE h \in hooks
      BY <2>1, HooksFollowRows
    <2>2. CASE h = OnCommit(s, TRUE)
      BY <1>3, <2>2 DEF OnCommit
    <2>. QED
      BY <1>5, <2>1, <2>2 DEF CompleteUploadSession
  <1>6. ASSUME NEW t \in Sessions, reply'[t] = "completed"
        PROVE  session'[t].status = "COMPLETED"
    BY <1>6, RepliesFollowRows DEF CompleteUploadSession
  <1>. QED
    BY <1>4, <1>5, <1>6 DEF AnswersFollowCommits

LEMMA SessionStepKeepsAnswers ==
  ASSUME TypeOK, RowsHaveRequests, AnswersFollowCommits, RowsKept,
         NEW s \in Sessions, SessionStep(s)
  PROVE  AnswersFollowCommits'
  <1>1. CASE CompleteUploadSession(s)
    BY <1>1, CompletionKeepsAnswers
  <1>2. CASE \/ CompleteChecksumMismatch(s)
             \/ CompleteInvalidContent(s)
             \/ CompleteRolledBack(s)
             \/ CompleteAgain(s)
    <2>1. UNCHANGED <<session, video, hooks>>
      BY <1>2 DEF CompleteChecksumMismatch, CompleteInvalidContent,
         CompleteRolledBack, CompleteAgain, rows
    <2>2. \A t \in Sessions : reply'[t] = "completed" =>
              reply[t] = "completed" \/ session[t].status = "COMPLETED"
      BY <1>2 DEF CompleteChecksumMismatch, CompleteInvalidContent,
         CompleteRolledBack, CompleteAgain, TypeOK
    <2>. QED
      BY <2>1, <2>2, QuietStepsKeepAnswers
  <1>3. CASE \/ StorePartStep(s)
             \/ AbortUploadSession(s)
             \/ CleanupExpired(s)
             \/ Lapse(s)
    <2>1. \A v \in Videos : video[v].stored => video'[v].stored
      BY <1>3, StoreAndCloseKeepStorage DEF StorageKept
    <2>2. reply' = reply
      BY <1>3 DEF StorePartStep, StoreUploadPart, StorePartChecksumMismatch,
         StorePartRolledBack, AbortUploadSession, CleanupExpired,
         MayAbort, IsExpired, CloseSession, Lapse
    <2>3. \/ hooks' = hooks
          \/ /\ hooks' = hooks \cup {OnCommit(s, FALSE)}
             /\ session[s].status # "NONE"
      BY <1>3, ActiveRow
         DEF StorePartStep, StoreUploadPart, StorePartChecksumMismatch,
         StorePartRolledBack, AbortUploadSession, CleanupExpired,
         MayAbort, IsExpired, CloseSession, Lapse
    <2>4. \A h \in hooks' : \/ h \in hooks
                            \/ /\ session'[h.session].status # "NONE"
                               /\ ~h.prepare
      <3>. SUFFICES ASSUME NEW h \in hooks', h \notin hooks
                    PROVE  session'[h.session].status # "NONE" /\ ~h.prepare
        OBVIOUS
      <3>1. h = OnCommit(s, FALSE) /\ session[s].status # "NONE"
        BY <2>3
      <3>2. h.session = s /\ ~h.prepare
        BY <3>1 DEF OnCommit
      <3>3. session'[s].status # "NONE"
        BY <3>1 DEF RowsKept
      <3>. QED
        BY <3>2, <3>3
    <2>5. \/ session' = session
          \/ \E st \in {"RECEIVING", "ABORTED", "EXPIRED"} :
                session' = [session EXCEPT ![s].status = st]
          \/ session' = [session EXCEPT ![s].lapsed = TRUE]
      BY <1>3 DEF StorePartStep, StoreUploadPart, StorePartChecksumMismatch,
         StorePartRolledBack, AbortUploadSession, CleanupExpired,
         MayAbort, IsExpired, CloseSession, Lapse, rows
    <2>6. \A t \in Sessions : session'[t].status = "COMPLETED" =>
              session[t].status = "COMPLETED"
      <3>. SUFFICES ASSUME NEW t \in Sessions, session'[t].status = "COMPLETED"
                    PROVE  session[t].status = "COMPLETED"
        OBVIOUS
      <3>1. CASE session' = session
        BY <3>1
      <3>2. ASSUME NEW st \in {"RECEIVING", "ABORTED", "EXPIRED"},
                   session' = [session EXCEPT ![s].status = st]
            PROVE  session[t].status = "COMPLETED"
        BY <3>2 DEF TypeOK, SessionRow
      <3>3. CASE session' = [session EXCEPT ![s].lapsed = TRUE]
        BY <3>3 DEF TypeOK, SessionRow
      <3>. QED
        BY <2>5, <3>1, <3>2, <3>3
    <2>. QED
      BY <2>1, <2>2, <2>4, <2>6, QuietStepsKeepAnswers
  <1>. QED
    BY <1>1, <1>2, <1>3 DEF SessionStep, CompleteStep

LEMMA HookStepKeepsAnswers ==
  ASSUME TypeOK, RowsHaveRequests, AnswersFollowCommits, RowsKept,
         NEW h \in hooks, RunHooks(h) \/ LoseHooks(h)
  PROVE  AnswersFollowCommits'
  <1>1. UNCHANGED rows /\ hooks' \subseteq hooks
    BY DEF RunHooks, LoseHooks
  <1>2. h.session \in Sessions
           /\ (h.prepare => session[h.session].status = "COMPLETED")
    BY DEF TypeOK, AnswersFollowCommits
  <1>3. \A t \in Sessions : reply'[t] = "completed" =>
            reply[t] = "completed" \/ session[t].status = "COMPLETED"
    BY <1>2 DEF RunHooks, LoseHooks, TypeOK
  <1>. QED
    BY <1>1, <1>3, QuietStepsKeepAnswers DEF rows

-----------------------------------------------------------------------------
(***************************************************************************)
(* The invariant and what follows from it.                                 *)
(***************************************************************************)
LEMMA UploadsInvInit == Init => UploadsInv
  <1>. SUFFICES ASSUME Init PROVE UploadsInv
    OBVIOUS
  <1>1. TypeOK
    BY TypeInit
  <1>2. RowsHaveRequests /\ TokensBindOneVideo
    BY DEF Init, RowsHaveRequests, TokensBindOneVideo
  <1>3. OneActiveSession
    BY DEF Init, OneActiveSession, Active, ActiveStatuses
  <1>4. StoredVideosAreVerified /\ AnswersFollowCommits
    BY DEF Init, StoredVideosAreVerified, Verified, AnswersFollowCommits
  <1>. QED
    BY <1>1, <1>2, <1>3, <1>4 DEF UploadsInv

\* The part of the invariant that does not speak of files.
LinkedRows ==
    /\ TypeOK
    /\ RowsHaveRequests
    /\ OneActiveSession
    /\ TokensBindOneVideo
    /\ AnswersFollowCommits

LEMMA LinkedRowsStep == LinkedRows /\ [Next]_vars => LinkedRows'
  <1>. SUFFICES ASSUME LinkedRows, [Next]_vars PROVE LinkedRows'
    OBVIOUS
  <1>. USE DEF LinkedRows
  <1>0. TypeOK'
    BY TypeStep
  <1>1. ASSUME NEW r \in Requests, CreateUploadSession(r) PROVE LinkedRows'
    BY <1>0, <1>1, CreateLinksRows, CreateKeepsAnswers
  <1>2. ASSUME NEW s \in Sessions, SessionStep(s) PROVE LinkedRows'
    BY <1>0, <1>2, SessionStepKeepsRows, KeptRowsStayLinked,
       SessionStepKeepsAnswers
  <1>3. ASSUME NEW h \in hooks, RunHooks(h) \/ LoseHooks(h) PROVE LinkedRows'
    <2>1. RowsKept
      BY <1>3, SameRows DEF RunHooks, LoseHooks
    <2>. QED
      BY <1>0, <1>3, <2>1, KeptRowsStayLinked, HookStepKeepsAnswers
  <1>4. ASSUME UNCHANGED <<session, video, token, hooks, reply>>
        PROVE  LinkedRows'
    <2>1. RowsKept
      BY <1>4 DEF RowsKept, Active
    <2>2. AnswersFollowCommits'
      BY <1>4, <2>1, QuietStepsKeepAnswers
    <2>. QED
      BY <1>0, <2>1, <2>2, KeptRowsStayLinked
  <1>5. ASSUME NEW e \in Events, DestroyEvent(e) PROVE LinkedRows'
    BY <1>4, <1>5 DEF DestroyEvent, files
  <1>6. CASE UNCHANGED vars
    BY <1>4, <1>6 DEF vars, rows, files
  <1>. QED
    BY <1>1, <1>2, <1>3, <1>5, <1>6 DEF Next

LEMMA VerifiedStep ==
  ASSUME TypeOK, RowsHaveRequests, [Next]_vars,
         NEW v \in Videos, Verified(v)
  PROVE  Verified(v)'
  <1>1. ASSUME NEW r \in Requests, CreateUploadSession(r) PROVE Verified(v)'
    BY <1>1, CreateKeepsVerified
  <1>2. ASSUME NEW s \in Sessions, SessionStep(s) PROVE Verified(v)'
    <2>1. RowsKept
      BY <1>2, SessionStepKeepsRows
    <2>2. CASE CompleteStep(s)
      BY <2>1, <2>2, CompleteKeepsVerified
    <2>3. CASE ~CompleteStep(s)
      BY <1>2, <2>1, <2>3, StoreAndCloseKeepStorage, KeptStorageStaysVerified
         DEF SessionStep
    <2>. QED
      BY <2>2, <2>3
  <1>3. ASSUME UNCHANGED <<video, videoFile>> PROVE Verified(v)'
    BY <1>3 DEF Verified
  <1>. QED
    BY <1>1, <1>2, <1>3
       DEF Next, RunHooks, LoseHooks, DestroyEvent, vars, rows, files

LEMMA UploadsInvStep == UploadsInv /\ [Next]_vars => UploadsInv'
  <1>. SUFFICES ASSUME UploadsInv, [Next]_vars PROVE UploadsInv'
    OBVIOUS
  <1>1. LinkedRows'
    BY LinkedRowsStep DEF UploadsInv, LinkedRows
  <1>2. \A v \in Videos : Verified(v)'
    BY VerifiedStep DEF UploadsInv, StoredVideosAreVerified
  <1>. QED
    BY <1>1, <1>2 DEF UploadsInv, LinkedRows, StoredVideosAreVerified

\* The upload operations preserve the links between sessions, videos and
\* tokens and the verification of what is stored, in every interleaving of
\* any number of operators, with every crash.
THEOREM UploadsSafe == Spec => []UploadsInv
  <1>. QED
    BY UploadsInvInit, UploadsInvStep, PTL DEF Spec

\* Rows, files and callbacks keep their types.
THEOREM UploadsTyped == Spec => []TypeOK
  <1>1. UploadsInv => TypeOK
    BY DEF UploadsInv
  <1>. QED
    BY <1>1, UploadsSafe, PTL

\* No video has two sessions that accept parts.
THEOREM OneSessionPerVideo == Spec => []OneActiveSession
  <1>1. UploadsInv => OneActiveSession
    BY DEF UploadsInv
  <1>. QED
    BY <1>1, UploadsSafe, PTL

\* A video with a storage key has exactly its declared content on disk.
THEOREM StoredIsVerified == Spec => []StoredVideosAreVerified
  <1>1. UploadsInv => StoredVideosAreVerified
    BY DEF UploadsInv
  <1>. QED
    BY <1>1, UploadsSafe, PTL

\* What complete answers stays true.
THEOREM CompletedIsTrue == Spec => []CompletedAnswersAreTrue
  <1>1. UploadsInv => CompletedAnswersAreTrue
    BY DEF UploadsInv, AnswersFollowCommits, CompletedAnswersAreTrue
  <1>. QED
    BY <1>1, UploadsSafe, PTL

\* Tokens and videos stay paired, within the operator's own events.
THEOREM TokensStayBound == Spec => []TokensBindOneVideo
  <1>1. UploadsInv => TokensBindOneVideo
    BY DEF UploadsInv
  <1>. QED
    BY <1>1, UploadsSafe, PTL

-----------------------------------------------------------------------------
(***************************************************************************)
(* Confirmed parts.                                                        *)
(***************************************************************************)
\* A step that leaves part rows, and the files of open sessions, alone.
LEMMA QuietStepsKeepParts ==
  ASSUME PartsBelong, RowsKept, UNCHANGED parts,
         \A h \in hooks' : h.session \in Sessions,
         \A h \in hooks' : h \in hooks
              \/ session'[h.session].status \notin ActiveStatuses
  PROVE  PartsBelong'
  <1>1. ASSUME NEW s \in Sessions, session'[s].status = "NONE"
        PROVE  Received(s)' = {}
    BY <1>1 DEF PartsBelong, RowsKept, Received
  <1>2. ASSUME NEW h \in hooks'
        PROVE  session'[h.session].status \notin ActiveStatuses
    BY <1>2 DEF PartsBelong, RowsKept
  <1>. QED
    BY <1>1, <1>2 DEF PartsBelong, Active

LEMMA QuietStepsKeepOnDisk ==
  ASSUME RowsKept, UNCHANGED parts, NEW s \in Sessions, SessionOnDisk(s),
         Active(s) => partFile'[s] = partFile[s]
  PROVE  SessionOnDisk(s)'
  <1>. SUFFICES ASSUME Active(s)', NEW n \in Received(s)'
                PROVE  PartOnDisk(s, n)'
    BY DEF SessionOnDisk
  <1>1. Active(s) /\ n \in Received(s)
    BY DEF RowsKept, Active, Received
  <1>2. PartOnDisk(s, n)
    BY <1>1 DEF SessionOnDisk
  <1>3. /\ session'[s].req = session[s].req
        /\ partFile'[s] = partFile[s]
        /\ parts' = parts
    BY <1>1 DEF RowsKept
  <1>. QED
    BY <1>2, <1>3 DEF PartOnDisk, PartRow

\* create_upload_session opens one session and expires others.
LEMMA CreateOpensOne ==
  ASSUME TypeOK, NEW r \in Requests, CreateUploadSession(r),
         NEW s \in Sessions
  PROVE  \/ session'[s] = session[s]
         \/ session[s].status # "NONE" /\ session'[s].status = "EXPIRED"
         \/ session[s].status = "NONE" /\ session'[s].status = "CREATED"
  <1>. DEFINE id == <<r.operator, r.key>>
  <1>1. CASE s = id
    BY <1>1 DEF CreateUploadSession
  <1>2. CASE s # id /\ session'[s] # session[s]
    <2>1. /\ session'[s] = [session[s] EXCEPT !.status = "EXPIRED"]
          /\ session[s].status # "NONE"
      BY <1>2 DEF CreateUploadSession, SessionsOf
    <2>2. session[s] \in SessionRow
      BY DEF TypeOK
    <2>. QED
      BY <2>1, <2>2 DEF SessionRow
  <1>. QED
    BY <1>1, <1>2

LEMMA CreateKeepsParts ==
  ASSUME TypeOK, AnswersFollowCommits, PartsBelong,
         NEW r \in Requests, CreateUploadSession(r)
  PROVE  PartsBelong'
  <1>1. UNCHANGED <<parts, partFile, hooks>>
    BY DEF CreateUploadSession, files
  <1>2. ASSUME NEW s \in Sessions, session'[s].status = "NONE"
        PROVE  Received(s)' = {}
    BY <1>1, <1>2, CreateOpensOne DEF PartsBelong, Received
  <1>3. ASSUME NEW h \in hooks'
        PROVE  ~Active(h.session)'
    <2>1. /\ h \in hooks
          /\ h.session \in Sessions
          /\ session[h.session].status # "NONE"
          /\ ~Active(h.session)
      BY <1>1 DEF TypeOK, AnswersFollowCommits, PartsBelong
    <2>. QED
      BY <2>1, CreateOpensOne DEF Active, ActiveStatuses
  <1>. QED
    BY <1>2, <1>3 DEF PartsBelong

LEMMA CreateKeepsOnDisk ==
  ASSUME TypeOK, PartsBelong, NEW s \in Sessions, SessionOnDisk(s),
         NEW r \in Requests, CreateUploadSession(r)
  PROVE  SessionOnDisk(s)'
  <1>. SUFFICES ASSUME Active(s)', NEW n \in Received(s)'
                PROVE  PartOnDisk(s, n)'
    BY DEF SessionOnDisk
  <1>1. UNCHANGED <<parts, partFile>>
    BY DEF CreateUploadSession, files
  <1>2. n \in Received(s)
    BY <1>1 DEF Received
  <1>3. session'[s] = session[s]
    BY <1>2, CreateOpensOne DEF PartsBelong, Active, ActiveStatuses
  <1>. QED
    BY <1>1, <1>2, <1>3 DEF SessionOnDisk, PartOnDisk, PartRow, Active

\* put_stream only writes where no confirmed part is.
LEMMA PutsWhereNothingIs ==
  ASSUME NEW s \in Sessions, SessionOnDisk(s), NEW n \in AllPartNumbers,
         NEW b \in Bodies, PutsPart(s, n, b)
  PROVE  n \notin Received(s)
  <1>1. SUFFICES ASSUME n \in Received(s) PROVE FALSE
    OBVIOUS
  <1>2. partFile[s][n] # NoFile
    BY <1>1, UploadsAssumption DEF SessionOnDisk, PartOnDisk, PutsPart
  <1>. QED
    BY <1>1, <1>2 DEF PutsPart, PartInPlace, Received

LEMMA StoreKeepsParts ==
  ASSUME TypeOK, PartsBelong, RowsKept,
         NEW s \in Sessions, StorePartStep(s)
  PROVE  PartsBelong'
  <1>1. PICK n \in AllPartNumbers, b \in Bodies :
             \/ StoreUploadPart(s, n, b)
             \/ StorePartChecksumMismatch(s, n, b)
             \/ StorePartRolledBack(s, n, b)
    BY DEF StorePartStep
  <1>2. Active(s) /\ UNCHANGED hooks
    BY <1>1 DEF StoreUploadPart, StorePartChecksumMismatch,
       StorePartRolledBack, PutsPart
  <1>3. \A t \in Sessions \ {s} : parts'[t] = parts[t]
    BY <1>1 DEF StoreUploadPart, StorePartChecksumMismatch,
       StorePartRolledBack, TypeOK, rows
  <1>4. ASSUME NEW t \in Sessions, session'[t].status = "NONE"
        PROVE  Received(t)' = {}
    <2>1. session[t].status = "NONE" /\ t # s
      BY <1>2, <1>4, ActiveRow DEF RowsKept
    <2>. QED
      BY <1>3, <2>1 DEF PartsBelong, Received
  <1>5. ASSUME NEW h \in hooks'
        PROVE  ~Active(h.session)'
    <2>1. h \in hooks /\ h.session \in Sessions
      BY <1>2 DEF TypeOK
    <2>. QED
      BY <2>1 DEF PartsBelong, RowsKept, Active
  <1>. QED
    BY <1>4, <1>5 DEF PartsBelong

LEMMA StoreKeepsOnDisk ==
  ASSUME TypeOK, RowsKept, NEW t \in Sessions, SessionOnDisk(t),
         NEW s \in Sessions, StorePartStep(s)
  PROVE  SessionOnDisk(t)'
  <1>1. PICK n \in AllPartNumbers, b \in Bodies :
             \/ StoreUploadPart(s, n, b)
             \/ StorePartChecksumMismatch(s, n, b)
             \/ StorePartRolledBack(s, n, b)
    BY DEF StorePartStep
  <1>2. PutsPart(s, n, b)
    BY <1>1 DEF StoreUploadPart, StorePartChecksumMismatch, StorePartRolledBack
  <1>3. t = s => n \notin Received(t)
    BY <1>2, PutsWhereNothingIs
  <1>4. \A m \in AllPartNumbers :
             t # s \/ m # n => /\ partFile'[t][m] = partFile[t][m]
                              /\ parts'[t][m] = parts[t][m]
    BY <1>1 DEF StoreUploadPart, StorePartChecksumMismatch,
       StorePartRolledBack, TypeOK, rows
  <1>5. ASSUME Active(t)', NEW m \in Received(t)'
        PROVE  PartOnDisk(t, m)'
    <2>1. Active(t) /\ session'[t].req = session[t].req /\ m \in AllPartNumbers
      BY <1>5 DEF RowsKept, Active, Received
    <2>2. CASE t # s \/ m # n
      <3>1. m \in Received(t)
        BY <1>4, <1>5, <2>1, <2>2 DEF Received
      <3>2. PartOnDisk(t, m)
        BY <2>1, <3>1 DEF SessionOnDisk
      <3>. QED
        BY <1>4, <2>1, <2>2, <3>2 DEF PartOnDisk, PartRow
    <2>3. CASE t = s /\ m = n
      <3>1. parts'[s][n] # parts[s][n]
        BY <1>3, <1>5, <2>1, <2>3 DEF Received
      <3>2. StoreUploadPart(s, n, b)
        BY <1>1, <3>1 DEF StorePartChecksumMismatch, StorePartRolledBack, rows
      <3>3. /\ partFile'[s][n] = b
            /\ parts'[s][n] = PartRow(n, b, session[s].req)
            /\ n \in PartNumbers(session[s].req.size)
            /\ b.size = ExpectedPartSize(n, session[s].req.size)
        BY <3>2 DEF StoreUploadPart, PutsPart, TypeOK
      <3>. QED
        BY <2>1, <2>3, <3>3 DEF PartOnDisk, PartRow
    <2>. QED
      BY <2>2, <2>3
  <1>. QED
    BY <1>5 DEF SessionOnDisk

\* The other calls leave part rows and files alone.
LEMMA OnlyStoresTouchParts ==
  ASSUME NEW s \in Sessions, SessionStep(s), ~StorePartStep(s)
  PROVE  UNCHANGED <<parts, partFile>>
  BY DEF SessionStep, CompleteStep, CompleteUploadSession,
     CompleteChecksumMismatch, CompleteInvalidContent, CompleteRolledBack,
     CompleteAgain, AbortUploadSession, CleanupExpired,
     MayAbort, IsExpired, CloseSession, Lapse, rows, files

LEMMA SessionStepKeepsParts ==
  ASSUME TypeOK, TypeOK', PartsBelong, RowsKept,
         NEW s \in Sessions, SessionStep(s)
  PROVE  PartsBelong'
  <1>1. CASE StorePartStep(s)
    BY <1>1, StoreKeepsParts
  <1>2. CASE ~StorePartStep(s)
    <2>1. \/ hooks' = hooks
          \/ \E prepare \in BOOLEAN :
                /\ hooks' = hooks \cup {OnCommit(s, prepare)}
                /\ session'[s].status \notin ActiveStatuses
      <3>1. CASE CompleteUploadSession(s)
        <4>1. session'[s].status = "COMPLETED"
          BY <3>1 DEF CompleteUploadSession, TypeOK, SessionRow
        <4>. QED
          BY <3>1, <4>1 DEF CompleteUploadSession, ActiveStatuses
      <3>2. CASE AbortUploadSession(s)
        <4>1. session'[s].status = "ABORTED"
          BY <3>2 DEF AbortUploadSession, MayAbort, CloseSession, TypeOK, SessionRow
        <4>. QED
          BY <3>2, <4>1 DEF AbortUploadSession, MayAbort, CloseSession, ActiveStatuses
      <3>3. CASE CleanupExpired(s)
        <4>1. session'[s].status = "EXPIRED"
          BY <3>3 DEF CleanupExpired, IsExpired, CloseSession, TypeOK, SessionRow
        <4>. QED
          BY <3>3, <4>1 DEF CleanupExpired, IsExpired, CloseSession, ActiveStatuses
      <3>4. CASE \/ CompleteChecksumMismatch(s)
                 \/ CompleteInvalidContent(s)
                 \/ CompleteRolledBack(s)
                 \/ CompleteAgain(s)
                 \/ Lapse(s)
        BY <3>4 DEF CompleteChecksumMismatch, CompleteInvalidContent,
           CompleteRolledBack, CompleteAgain, Lapse
      <3>. QED
        BY <1>2, <3>1, <3>2, <3>3, <3>4 DEF SessionStep, CompleteStep
    <2>2. \A h \in hooks' : h \in hooks
              \/ session'[h.session].status \notin ActiveStatuses
      BY <2>1 DEF OnCommit
    <2>3. \A h \in hooks' : h.session \in Sessions
      BY DEF TypeOK
    <2>. QED
      BY <1>2, <2>2, <2>3, OnlyStoresTouchParts, QuietStepsKeepParts
  <1>. QED
    BY <1>1, <1>2

LEMMA SessionStepKeepsOnDisk ==
  ASSUME TypeOK, RowsKept, NEW t \in Sessions, SessionOnDisk(t),
         NEW s \in Sessions, SessionStep(s)
  PROVE  SessionOnDisk(t)'
  <1>1. CASE StorePartStep(s)
    BY <1>1, StoreKeepsOnDisk
  <1>2. CASE ~StorePartStep(s)
    BY <1>2, OnlyStoresTouchParts, QuietStepsKeepOnDisk
  <1>. QED
    BY <1>1, <1>2

\* Callbacks remove files of closed sessions only.
LEMMA HooksSpareOpenSessions ==
  ASSUME TypeOK, PartsBelong, NEW h \in hooks, RunHooks(h) \/ LoseHooks(h),
         NEW s \in Sessions, Active(s)
  PROVE  partFile'[s] = partFile[s]
  <1>1. h.session \in Sessions /\ ~Active(h.session)
    BY DEF TypeOK, PartsBelong
  <1>2. PICK gone : DeletePartFiles(h.session, gone)
    BY DEF RunHooks, LoseHooks
  <1>. QED
    BY <1>1, <1>2 DEF DeletePartFiles, TypeOK

LEMMA PartsBelongStep ==
  LinkedRows /\ PartsBelong /\ [Next]_vars => PartsBelong'
  <1>. SUFFICES ASSUME LinkedRows, PartsBelong, [Next]_vars PROVE PartsBelong'
    OBVIOUS
  <1>. USE DEF LinkedRows
  <1>0. TypeOK'
    BY TypeStep
  <1>1. ASSUME NEW r \in Requests, CreateUploadSession(r) PROVE PartsBelong'
    BY <1>1, CreateKeepsParts
  <1>2. ASSUME NEW s \in Sessions, SessionStep(s) PROVE PartsBelong'
    BY <1>0, <1>2, SessionStepKeepsRows, SessionStepKeepsParts
  <1>3. ASSUME UNCHANGED rows, hooks' \subseteq hooks PROVE PartsBelong'
    <2>1. \A h \in hooks' : h.session \in Sessions
      BY <1>0 DEF TypeOK
    <2>. QED
      BY <1>3, <2>1, SameRows, QuietStepsKeepParts DEF rows
  <1>4. ASSUME NEW h \in hooks, RunHooks(h) \/ LoseHooks(h) PROVE PartsBelong'
    BY <1>3, <1>4 DEF RunHooks, LoseHooks
  <1>5. ASSUME NEW e \in Events, DestroyEvent(e) PROVE PartsBelong'
    BY <1>5 DEF DestroyEvent, PartsBelong, Received, Active
  <1>6. CASE UNCHANGED vars
    BY <1>3, <1>6 DEF vars
  <1>. QED
    BY <1>1, <1>2, <1>4, <1>5, <1>6 DEF Next

LEMMA OnDiskStep ==
  ASSUME LinkedRows, PartsBelong, [Next]_vars,
         NEW s \in Sessions, SessionOnDisk(s)
  PROVE  SessionOnDisk(s)'
  <1>. USE DEF LinkedRows
  <1>1. ASSUME NEW r \in Requests, CreateUploadSession(r)
        PROVE  SessionOnDisk(s)'
    BY <1>1, CreateKeepsOnDisk
  <1>2. ASSUME NEW t \in Sessions, SessionStep(t) PROVE SessionOnDisk(s)'
    BY <1>2, SessionStepKeepsRows, SessionStepKeepsOnDisk
  <1>3. ASSUME NEW h \in hooks, RunHooks(h) \/ LoseHooks(h)
        PROVE  SessionOnDisk(s)'
    <2>1. RowsKept /\ UNCHANGED parts
      BY <1>3, SameRows DEF RunHooks, LoseHooks, rows
    <2>. QED
      BY <1>3, <2>1, HooksSpareOpenSessions, QuietStepsKeepOnDisk
  <1>4. ASSUME UNCHANGED <<session, parts, partFile>>
        PROVE  SessionOnDisk(s)'
    BY <1>4 DEF SessionOnDisk, PartOnDisk, PartRow, Received, Active
  <1>5. ASSUME NEW e \in Events, DestroyEvent(e) PROVE SessionOnDisk(s)'
    BY <1>4, <1>5 DEF DestroyEvent, files
  <1>6. CASE UNCHANGED vars
    BY <1>4, <1>6 DEF vars, rows, files
  <1>. QED
    BY <1>1, <1>2, <1>3, <1>5, <1>6 DEF Next

LEMMA PartsInvStep ==
  UploadsInv /\ PartsInv /\ [Next]_vars => PartsInv'
  BY PartsBelongStep, OnDiskStep DEF PartsInv, UploadsInv, LinkedRows

LEMMA PartsOnDiskFollow ==
  ASSUME TypeOK, RowsHaveRequests, PartsInv
  PROVE  ConfirmedPartsAreOnDisk
  <1>. SUFFICES ASSUME NEW s \in Sessions, Active(s), NEW n \in Received(s)
                PROVE  /\ partFile[s][n] # NoFile
                       /\ parts[s][n].sha = partFile[s][n].tag
                       /\ parts[s][n].size = partFile[s][n].size
                       /\ n > 0 /\ n - 1 \in Received(s) =>
                             parts[s][n].offset =
                                 parts[s][n - 1].offset + parts[s][n - 1].size
    BY DEF ConfirmedPartsAreOnDisk
  <1>. DEFINE size == session[s].req.size
  <1>1. size \in Nat \ {0}
    BY LiveRow, ActiveRow
  <1>2. PartOnDisk(s, n)
    BY DEF PartsInv, SessionOnDisk
  <1>3. ASSUME n - 1 \in Received(s)
        PROVE  parts[s][n].offset = parts[s][n - 1].offset + parts[s][n - 1].size
    <2>. DEFINE m == n - 1
    <2>1. PartOnDisk(s, m)
      BY <1>3 DEF PartsInv, SessionOnDisk
    <2>2. /\ parts[s][m].offset = PartOffset(m, size)
          /\ parts[s][m].size = ExpectedPartSize(m, size)
          /\ parts[s][n].offset = PartOffset(n, size)
      <3>1. parts[s][n] = PartRow(n, partFile[s][n], session[s].req)
        BY <1>2 DEF PartOnDisk
      <3>2. /\ parts[s][m] = PartRow(m, partFile[s][m], session[s].req)
            /\ partFile[s][m].size = ExpectedPartSize(m, size)
        BY <2>1 DEF PartOnDisk
      <3>. HIDE DEF m
      <3>. QED
        BY <3>1, <3>2 DEF PartRow
    <2>3. m \in PartNumbers(size) /\ n \in PartNumbers(size)
      BY <1>2, <2>1 DEF PartOnDisk
    <2>4. m + 1 = n
      BY <2>3 DEF PartNumbers
    <2>5. parts[s][n].offset = parts[s][m].offset + parts[s][m].size
      <3>1. PartOffset(m + 1, size) =
                PartOffset(m, size) + ExpectedPartSize(m, size)
        <4>. HIDE DEF m, size
        <4>. QED
          BY <1>1, <2>3, <2>4, PartsTile
      <3>. QED
        BY <2>2, <2>4, <3>1
    <2>. QED
      BY <2>5
  <1>. QED
    BY <1>2, <1>3, UploadsAssumption DEF PartOnDisk, PartRow

LEMMA PartsInvInit == Init => PartsInv
  BY DEF Init, PartsInv, PartsBelong, SessionOnDisk, Received, Active,
     ActiveStatuses

\* While a session accepts parts, every part it confirmed is on disk, and
\* together they tile the declared file without gap or overlap.
THEOREM ConfirmedOnDisk == Spec => []ConfirmedPartsAreOnDisk
  <1>1. UploadsInv /\ PartsInv => ConfirmedPartsAreOnDisk
    BY PartsOnDiskFollow DEF UploadsInv
  <1>. QED
    BY <1>1, UploadsInvInit, UploadsInvStep, PartsInvInit, PartsInvStep, PTL
       DEF Spec

-----------------------------------------------------------------------------
(***************************************************************************)
(* What a step never does.                                                 *)
(***************************************************************************)
ClosedStays ==
    \A s \in Sessions :
        /\ session[s].status # "NONE" /\ ~Active(s) => ~Active(s)'
        /\ session[s].status = "COMPLETED" => session'[s] = session[s]

LEMMA ClosedStaysStep ==
  UploadsInv /\ [Next]_vars => ClosedStays
  <1>. SUFFICES ASSUME UploadsInv, [Next]_vars PROVE ClosedStays
    OBVIOUS
  <1>. USE DEF UploadsInv
  <1>1. ASSUME NEW r \in Requests, CreateUploadSession(r) PROVE ClosedStays
    <2>1. ASSUME NEW s \in Sessions, session[s].status # "NONE", ~Active(s)
          PROVE  session'[s] = session[s]
      BY <1>1, <2>1 DEF CreateUploadSession
    <2>. QED
      BY <2>1 DEF ClosedStays, Active, ActiveStatuses
  <1>2. ASSUME NEW s \in Sessions, SessionStep(s) PROVE ClosedStays
    <2>1. RowsKept
      BY <1>2, SessionStepKeepsRows
    <2>2. ASSUME NEW t \in Sessions, session[t].status = "COMPLETED"
          PROVE  session'[t] = session[t]
      <3>1. ~Active(t)
        BY <2>2 DEF Active, ActiveStatuses
      <3>2. CASE t = s
        BY <1>2, <2>2, <3>1, <3>2
           DEF SessionStep, StorePartStep, StoreUploadPart, PutsPart,
           StorePartChecksumMismatch, StorePartRolledBack, CompleteStep,
           CompleteUploadSession, CompleteChecksumMismatch,
           CompleteInvalidContent, CompleteRolledBack, CompleteAgain,
           ComposeAttempt, AbortUploadSession, CleanupExpired,
           MayAbort, IsExpired, CloseSession, Lapse, rows
      <3>3. CASE t # s
        BY <1>2, <3>3
           DEF SessionStep, StorePartStep, StoreUploadPart,
           StorePartChecksumMismatch, StorePartRolledBack, CompleteStep,
           CompleteUploadSession, CompleteChecksumMismatch,
           CompleteInvalidContent, CompleteRolledBack, CompleteAgain,
           AbortUploadSession, CleanupExpired,
           MayAbort, IsExpired, CloseSession, Lapse, rows, TypeOK
      <3>. QED
        BY <3>2, <3>3
    <2>. QED
      BY <2>1, <2>2 DEF RowsKept, ClosedStays, Active
  <1>3. ASSUME UNCHANGED session PROVE ClosedStays
    BY <1>3 DEF ClosedStays, Active
  <1>. QED
    BY <1>1, <1>2, <1>3
       DEF Next, RunHooks, LoseHooks, DestroyEvent, vars, rows

\* A closed session stays closed and a completed one never changes.
THEOREM ClosedSessionsStay == Spec => SessionsStayClosed
  <1>1. UploadsInv /\ [Next]_vars => [ClosedStays]_vars
    BY ClosedStaysStep
  <1>. QED
    BY <1>1, UploadsInvInit, UploadsInvStep, PTL
       DEF Spec, SessionsStayClosed, ClosedStays

PartsStay ==
    \A s \in Sessions : Active(s) /\ Active(s)' =>
        \A n \in Received(s) : parts'[s][n] = parts[s][n]

LEMMA PartsStayStep ==
  UploadsInv /\ PartsInv /\ [Next]_vars => PartsStay
  <1>. SUFFICES ASSUME UploadsInv, PartsInv, [Next]_vars PROVE PartsStay
    OBVIOUS
  <1>1. CASE UNCHANGED parts
    BY <1>1 DEF PartsStay
  <1>2. ASSUME NEW s \in Sessions, NEW n \in AllPartNumbers, NEW b \in Bodies,
               StoreUploadPart(s, n, b)
        PROVE  PartsStay
    <2>1. ~PartInPlace(s, n) /\ Active(s)
      BY <1>2 DEF StoreUploadPart, PutsPart
    <2>2. n \notin Received(s)
      <3>1. \A m \in Received(s) : partFile[s][m] \in Bodies
        BY <2>1 DEF PartsInv, SessionOnDisk, PartOnDisk
      <3>. QED
        BY <2>1, <3>1, UploadsAssumption DEF PartInPlace, Received
    <2>3. parts' = [parts EXCEPT ![s][n] = PartRow(n, b, session[s].req)]
      BY <1>2 DEF StoreUploadPart
    <2>4. ASSUME NEW t \in Sessions, NEW m \in Received(t)
          PROVE  parts'[t][m] = parts[t][m]
      <3>1. m \in AllPartNumbers /\ (t = s => m # n)
        BY <2>2, <2>4 DEF Received
      <3>. QED
        BY <2>3, <3>1 DEF UploadsInv, TypeOK
    <2>. QED
      BY <2>4 DEF PartsStay
  <1>3. ASSUME NEW s \in Sessions, SessionStep(s) PROVE PartsStay
    BY <1>1, <1>2, <1>3
       DEF SessionStep, StorePartStep, StorePartChecksumMismatch,
       StorePartRolledBack, CompleteStep, CompleteUploadSession,
       CompleteChecksumMismatch, CompleteInvalidContent, CompleteRolledBack,
       CompleteAgain, AbortUploadSession, CleanupExpired, CloseSession, Lapse,
       rows
  <1>. QED
    BY <1>1, <1>3
       DEF Next, CreateUploadSession, RunHooks, LoseHooks, DestroyEvent, vars,
       rows

\* What GET uploads/<id>/ confirmed is never replaced while the session
\* accepts parts: a repeated part is not written over it.
THEOREM ConfirmedPartsStay == Spec => ConfirmedPartsAreKept
  <1>1. UploadsInv /\ PartsInv /\ [Next]_vars => [PartsStay]_vars
    BY PartsStayStep
  <1>. QED
    BY <1>1, UploadsInvInit, UploadsInvStep, PartsInvInit, PartsInvStep, PTL
       DEF Spec, ConfirmedPartsAreKept, PartsStay

-----------------------------------------------------------------------------
(***************************************************************************)
(* An uploading video is held by an open session.                          *)
(***************************************************************************)
HeldBySession(v) ==
    \E t \in Sessions : Active(t) /\ session[t].req.video = v

LEMMA UploadingMeansSession ==
  UploadingVideosAreHeld <=>
      \A v \in Videos : video[v].status = "UPLOADING" => HeldBySession(v)
  BY DEF UploadingVideosAreHeld, HeldBySession, SessionsOf, Active,
     ActiveStatuses

LEMMA CreateKeepsUploading ==
  ASSUME UploadsInv, NEW r \in Requests, CreateUploadSession(r),
         \A v \in Videos : video[v].status = "UPLOADING" => HeldBySession(v),
         NEW v \in Videos, video'[v].status = "UPLOADING"
  PROVE  HeldBySession(v)'
  <1>. DEFINE id == <<r.operator, r.key>>
  <1>1. id \in Sessions /\ r.video \in Videos
    BY UploadsAssumption DEF Sessions
  <1>2. /\ session'[id].status = "CREATED"
        /\ session'[id].req = r
    BY <1>1 DEF CreateUploadSession
  <1>3. CASE v = r.video
    BY <1>1, <1>2, <1>3 DEF HeldBySession, Active, ActiveStatuses
  <1>4. CASE v # r.video
    <2>1. video[v].status = "UPLOADING"
      BY <1>4 DEF CreateUploadSession, UploadsInv, TypeOK
    <2>2. PICK t \in Sessions : Active(t) /\ session[t].req.video = v
      BY <2>1 DEF HeldBySession
    <2>3. t # id
      BY <2>2 DEF CreateUploadSession, Active, ActiveStatuses
    <2>4. t \notin SessionsOf(r.video)
      BY <1>4, <2>2 DEF SessionsOf
    <2>5. session'[t] = session[t]
      BY <2>3, <2>4 DEF CreateUploadSession
    <2>. QED
      BY <2>2, <2>5 DEF HeldBySession, Active
  <1>. QED
    BY <1>3, <1>4

\* A step of a session takes a part, ends it with its video in another
\* status, lets it lapse, or changes neither row.
LEMMA SessionStepKinds ==
  ASSUME NEW s \in Sessions, SessionStep(s)
  PROVE  LET w == session[s].req.video IN
         \/ /\ session' = [session EXCEPT ![s].status = "RECEIVING"]
            /\ video' = [video EXCEPT ![w].status = "UPLOADING"]
         \/ /\ \E st \in SessionStatuses :
                   session' = [session EXCEPT ![s].status = st]
            /\ \/ video' = [video EXCEPT ![w].status = "UPLOADED",
                                         ![w].stored = TRUE]
               \/ video' = [video EXCEPT ![w].status = "FAILED"]
         \/ /\ session' = [session EXCEPT ![s].lapsed = TRUE]
            /\ video' = video
         \/ session' = session /\ video' = video
  <1>1. CASE StorePartStep(s)
    BY <1>1 DEF StorePartStep, StoreUploadPart, StorePartChecksumMismatch,
       StorePartRolledBack, rows
  <1>2. CASE CompleteStep(s)
    BY <1>2 DEF CompleteStep, CompleteUploadSession, CompleteChecksumMismatch,
       CompleteInvalidContent, CompleteRolledBack, CompleteAgain, rows,
       SessionStatuses
  <1>3. CASE AbortUploadSession(s) \/ CleanupExpired(s)
    BY <1>3 DEF AbortUploadSession, CleanupExpired, CloseSession,
       SessionStatuses
  <1>4. CASE Lapse(s)
    BY <1>4 DEF Lapse
  <1>. QED
    BY <1>1, <1>2, <1>3, <1>4 DEF SessionStep

LEMMA SessionStepKeepsUploading ==
  ASSUME UploadsInv, NEW s \in Sessions, SessionStep(s),
         \A v \in Videos : video[v].status = "UPLOADING" => HeldBySession(v),
         NEW v \in Videos, video'[v].status = "UPLOADING"
  PROVE  HeldBySession(v)'
  <1>. DEFINE w == session[s].req.video
  <1>0. session \in [Sessions -> SessionRow] /\ video \in [Videos -> VideoRow]
    BY DEF UploadsInv, TypeOK
  <1>1. CASE /\ session' = [session EXCEPT ![s].status = "RECEIVING"]
             /\ video' = [video EXCEPT ![w].status = "UPLOADING"]
    <2>1. /\ session'[s].status = "RECEIVING"
          /\ \A t \in Sessions : session'[t].req = session[t].req
          /\ \A t \in Sessions : t # s => session'[t] = session[t]
      BY <1>0, <1>1 DEF SessionRow
    <2>2. CASE v = w
      BY <2>1, <2>2 DEF HeldBySession, Active, ActiveStatuses
    <2>3. CASE v # w
      <3>1. video[v].status = "UPLOADING"
        BY <1>0, <1>1, <2>3
      <3>2. PICK t \in Sessions : Active(t) /\ session[t].req.video = v
        BY <3>1 DEF HeldBySession
      <3>. QED
        BY <2>1, <2>3, <3>2 DEF HeldBySession, Active
    <2>. QED
      BY <2>2, <2>3
  <1>2. CASE /\ \E st \in SessionStatuses :
                   session' = [session EXCEPT ![s].status = st]
             /\ \/ video' = [video EXCEPT ![w].status = "UPLOADED",
                                          ![w].stored = TRUE]
                \/ video' = [video EXCEPT ![w].status = "FAILED"]
    <2>1. v # w /\ video'[v] = video[v]
      BY <1>0, <1>2 DEF VideoRow
    <2>2. PICK t \in Sessions : Active(t) /\ session[t].req.video = v
      BY <2>1 DEF HeldBySession
    <2>3. session'[t] = session[t]
      BY <1>0, <1>2, <2>1, <2>2
    <2>. QED
      BY <2>2, <2>3 DEF HeldBySession, Active
  <1>3. CASE \/ /\ session' = [session EXCEPT ![s].lapsed = TRUE]
                /\ video' = video
             \/ session' = session /\ video' = video
    <2>1. \A t \in Sessions : /\ session'[t].status = session[t].status
                              /\ session'[t].req = session[t].req
      BY <1>0, <1>3 DEF SessionRow
    <2>. QED
      BY <1>3, <2>1 DEF HeldBySession, Active
  <1>. QED
    BY <1>1, <1>2, <1>3, SessionStepKinds

LEMMA UploadingStep ==
  UploadsInv /\ UploadingVideosAreHeld /\ [Next]_vars
      => UploadingVideosAreHeld'
  <1>1. UploadingVideosAreHeld' <=>
            \A v \in Videos :
                video'[v].status = "UPLOADING" => HeldBySession(v)'
    BY DEF UploadingVideosAreHeld, HeldBySession, SessionsOf, Active,
       ActiveStatuses
  <1>. SUFFICES ASSUME UploadsInv, [Next]_vars,
                       \A v \in Videos :
                           video[v].status = "UPLOADING" => HeldBySession(v),
                       NEW v \in Videos, video'[v].status = "UPLOADING"
                PROVE  HeldBySession(v)'
    BY <1>1, UploadingMeansSession
  <1>2. CASE \E r \in Requests : CreateUploadSession(r)
    BY <1>2, CreateKeepsUploading
  <1>3. CASE \E s \in Sessions : SessionStep(s)
    BY <1>3, SessionStepKeepsUploading
  <1>4. CASE UNCHANGED <<session, video>>
    BY <1>4 DEF HeldBySession, Active
  <1>. QED
    BY <1>2, <1>3, <1>4
       DEF Next, RunHooks, LoseHooks, DestroyEvent, vars, rows

\* A video shown as uploading is held by an open session: expiry, abortion and
\* the replacement of a lapsed session never leave the status behind.  That the
\* session can still finish is not claimed.
THEOREM UploadingIsHeld == Spec => []UploadingVideosAreHeld
  <1>1. Init => UploadingVideosAreHeld
    BY DEF Init, UploadingVideosAreHeld
  <1>. QED
    BY <1>1, UploadsInvInit, UploadsInvStep, UploadingStep, PTL DEF Spec
=============================================================================
