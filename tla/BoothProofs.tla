----------------------------- MODULE BoothProofs -----------------------------
(***************************************************************************)
(* Proofs about the booth and the server together, by the inductive        *)
(* invariant BoothInv of module BoothProperties.  What the server needs of *)
(* itself is not proved again: the booth only calls operations of Uploads, *)
(* so the theorems of UploadsProofs hold of it.                            *)
(***************************************************************************)
EXTENDS BoothProperties, TLAPS

U == INSTANCE UploadsProofs

-----------------------------------------------------------------------------
(***************************************************************************)
(* What a step does to one video, for the lemmas on actions.               *)
(***************************************************************************)
\* What a row must be, to be held of a video.
RowFits(v, r) ==
    /\ r \in LocalVideo
    /\ RowShape(r)
    /\ video[v].stored \/ (r.upload # "UPLOADED" /\ HasItsFiles(v, r))

\* The server keeps what it has of the video.
ServerRests(v) ==
    LET s == SessionOf(v) IN
    /\ session'[s].req = session[s].req
    /\ session'[s].status = "NONE" <=> session[s].status = "NONE"
    /\ session[s].status = "COMPLETED" => session'[s].status = "COMPLETED"
    /\ video'[v].stored = video[v].stored
    /\ videoFile'[v] = videoFile[v]

\* No token of Pools is assigned to the video, and none comes back.
PoolsRest(v) ==
    /\ \A t \in PoolTokens : assigned'[t] = v => assigned[t] = v
    /\ shelf \cap PoolTokens = {} => shelf' \cap PoolTokens = {}

\* The phone does nothing about the video.
PhoneRests(v) ==
    /\ row'[v] = row[v]
    /\ staging'[v] = staging[v]
    /\ original'[v] = original[v]
    /\ final'[v] = final[v]
    /\ capt'[v] = capt[v]
    /\ repair'[v] = repair[v]
    /\ proc'[v] = proc[v]
    /\ upl'[v] = upl[v]
    /\ cleaner'[v] = cleaner[v]

OthersRest(v) == \A w \in Videos \ {v} : PhoneRests(w)

\* What is held of the video afterwards was held before, or is r; the
\* renamed files stay.
Writes(v, r) ==
    /\ original'[v] = original[v]
    /\ final'[v] = final[v]
    /\ ServerRests(v)
    /\ PoolsRest(v)
    /\ row[v] \in LocalVideo
    /\ row'[v] \in LocalVideo
    /\ Held(v)' \subseteq Held(v) \cup {r}
    /\ RowFits(v, r)
    /\ \E q \in Held(v) : r.token = q.token

-----------------------------------------------------------------------------
(***************************************************************************)
(* Lemmas on one video.                                                    *)
(***************************************************************************)
\* The constants of the server are those of Uploads.
LEMMA UploadsConstants == U!PartSizeAssumption /\ U!UploadsAssumption
  <1>1. U!PartSizeAssumption
    BY PartSizeAssumption DEF PartSizeAssumption, U!PartSizeAssumption
  <1>2. U!UploadsAssumption
    BY ServerAssumption
    DEF ServerAssumption, Server!UploadsAssumption, U!UploadsAssumption
  <1> QED
    BY <1>1, <1>2

\* What is held of a video has the shape of a row.
LEMMA HeldRows ==
    ASSUME BoothTypeOK, NEW v \in Videos
    PROVE  /\ Held(v) \subseteq LocalVideo
           /\ \A r \in {row[v], repair[v].copy, proc[v].copy, upl[v].copy,
                        cleaner[v].copy} : r # NoRow => r \in Held(v)
  BY DEF Held, BoothTypeOK, RepairPlaces, ProcessPlaces, UploadPlaces,
         CleanupPlaces

\* What is held of a video fits it: HeldInv, one row at a time.
LEMMA HeldFits ==
    ASSUME BoothTypeOK, NEW v \in Videos, HeldInv(v), NEW r \in Held(v)
    PROVE  RowFits(v, r)
  BY HeldRows DEF HeldInv, RowFits

\* NoRow stands for no row.
LEMMA RowsAreNotNoRow == \A r \in LocalVideo : r # NoRow
  BY BoothAssumption DEF BoothAssumption

\* Tokens of what is held, when what is held afterwards has the tokens of
\* what was held before.
LEMMA TokensFollow ==
    ASSUME NEW v \in Videos, TokensInv(v), PoolsRest(v), ServerRests(v),
           row'[v] # NoRow,
           \A r \in Held(v)' : \E q \in Held(v) : r.token = q.token
    PROVE  TokensInv(v)'
  <1> USE DEF PoolsRest, ServerRests
  <1>1. ASSUME NEW t \in PoolTokens, assigned'[t] = v
        PROVE  /\ \A q \in Held(v)' : q.token = t
               /\ session'[SessionOf(v)].status # "NONE" =>
                    session'[SessionOf(v)].req.token = t
    BY <1>1 DEF TokensInv
  <1>2. ASSUME NEW q \in Held(v)', q.token = NoToken
        PROVE  shelf' \cap PoolTokens = {}
    BY <1>2 DEF TokensInv
  <1> QED
    BY <1>1, <1>2 DEF TokensInv, SessionOf, PoolTokens

\* A worker writes a row that fits: what speaks of rows still holds.
LEMMA WrittenRows ==
    ASSUME NEW v \in Videos, VideoInv(v), NEW r, Writes(v, r)
    PROVE  /\ HeldInv(v)'
           /\ SessionInv(v)'
           /\ TokensInv(v)'
           /\ (row[v] = NoRow => Untouched(v))'
  <1> USE DEF Writes, VideoInv
  <1>1. HeldInv(v)'
    BY DEF HeldInv, RowFits, HasItsFiles, ServerRests
  <1>2. SessionInv(v)'
    BY DEF SessionInv, SessionOf, ServerRests
  <1>3. row'[v] # NoRow
    BY RowsAreNotNoRow
  <1>4. TokensInv(v)'
    BY <1>3, TokensFollow
  <1> QED
    BY <1>1, <1>2, <1>3, <1>4

\* A step that writes no row.
LEMMA KeptRows ==
    ASSUME BoothTypeOK, NEW v \in Videos, VideoInv(v),
           original'[v] = original[v], final'[v] = final[v],
           ServerRests(v), PoolsRest(v),
           row[v] # NoRow, row'[v] = row[v], Held(v)' \subseteq Held(v)
    PROVE  Writes(v, row[v])
  <1>1. row[v] \in Held(v) /\ row[v] \in LocalVideo
    BY HeldRows
  <1>2. RowFits(v, row[v])
    BY <1>1, HeldFits DEF VideoInv
  <1> QED
    BY <1>1, <1>2 DEF Writes

\* A video the step has nothing to do with.
LEMMA RestingVideo ==
    ASSUME NEW v \in Videos, VideoInv(v),
           PhoneRests(v), ServerRests(v), PoolsRest(v),
           app' = app \/ app' # "starting"
    PROVE  VideoInv(v)'
  <1> USE DEF PhoneRests, ServerRests, VideoInv
  <1>1. Held(v)' = Held(v)
    BY DEF Held
  <1>2. (row[v] = NoRow => Untouched(v))'
    BY DEF Untouched, SessionOf
  <1>3. CameraInv(v)'
    BY DEF CameraInv, BeforeRename, SessionOf
  <1>4. JobsInv(v)'
    BY DEF JobsInv, RepairInv, ProcessInv, UploadInv, CleanupInv
  <1>5. HeldInv(v)'
    BY <1>1 DEF HeldInv, HasItsFiles
  <1>6. FilesInv(v)'
    BY DEF FilesInv
  <1>7. SessionInv(v)'
    BY DEF SessionInv, SessionOf
  <1>8. TokensInv(v)'
    <2>1. ASSUME NEW t \in PoolTokens, assigned'[t] = v
          PROVE  /\ row'[v] # NoRow
                 /\ \A q \in Held(v)' : q.token = t
                 /\ session'[SessionOf(v)].status # "NONE" =>
                      session'[SessionOf(v)].req.token = t
      BY <1>1, <2>1 DEF TokensInv, PoolsRest
    <2>2. ASSUME NEW q \in Held(v)', q.token = NoToken
          PROVE  shelf' \cap PoolTokens = {}
      BY <1>1, <2>2 DEF TokensInv, PoolsRest
    <2> QED
      BY <2>1, <2>2 DEF TokensInv, SessionOf, PoolTokens
  <1> QED
    BY <1>2, <1>3, <1>4, <1>5, <1>6, <1>7, <1>8

-----------------------------------------------------------------------------
(***************************************************************************)
(* The steps of the phone, one lemma for each process.                     *)
(***************************************************************************)
\* What remains to be shown of a step besides Writes.
Proceeds(v) ==
    /\ BoothTypeOK'
    /\ OthersRest(v)
    /\ CameraInv(v)'
    /\ JobsInv(v)'
    /\ FilesInv(v)'

\* Without a call the server has what it had.
LEMMA CallsRest ==
    ASSUME UNCHANGED callVars, NEW v \in Videos
    PROVE  ServerRests(v)
  BY DEF callVars, serverVars, ServerRests

\* Without a claim the tokens stay where they are.
LEMMA TokensRest ==
    ASSUME UNCHANGED tokensVars, NEW v \in Videos
    PROVE  PoolsRest(v)
  BY DEF tokensVars, PoolsRest

\* The parts of VideoInv that a phone step may disturb, put together.
LEMMA Assembled ==
    ASSUME BoothInv, NEW v \in Videos, Proceeds(v), NEW r, Writes(v, r)
    PROVE  BoothTypeOK' /\ OthersRest(v) /\ VideoInv(v)'
  BY WrittenRows DEF BoothInv, Proceeds, VideoInv

\* A worker's copy of a row is a row of the video.
LEMMA ProcessCopy ==
    ASSUME BoothInv, NEW v \in Videos, proc[v].pc \notin {"none", "enqueued"}
    PROVE  /\ row[v] \in LocalVideo
           /\ proc[v].copy \in LocalVideo
           /\ proc[v].copy \in Held(v)
           /\ RowFits(v, proc[v].copy)
           /\ proc[v].pc # "failing" => proc[v].copy.original
  <1>1. row[v] # NoRow
    BY DEF BoothInv, VideoInv, Untouched
  <1>2. proc[v].copy # NoRow
    BY DEF BoothInv, VideoInv, JobsInv, ProcessInv
  <1> QED
    BY <1>1, <1>2, HeldRows, HeldFits
    DEF BoothInv, VideoInv, JobsInv, ProcessInv, Held

\* SyncRepository.process: the steps that write the row.
LEMMA ProcessWrites ==
    ASSUME BoothInv, NEW v \in Videos, UNCHANGED callVars,
           ProcessMarks(v) \/ ProcessSaves(v) \/ ProcessFails(v)
    PROVE  BoothTypeOK' /\ OthersRest(v) /\ VideoInv(v)'
  <1> DEFINE copy == proc[v].copy
             marked == [copy EXCEPT !.processing = "PROCESSING"]
             done == [copy EXCEPT !.final = TRUE, !.processing = "COMPLETED",
                                  !.upload = "PENDING"]
             failed == [copy EXCEPT !.processing = "FAILED"]
  <1> USE DEF BoothInv, SetRow, ProcTo, ProcEnds, Resting
  <1>1. /\ UNCHANGED <<original, final>>
        /\ ServerRests(v)
        /\ PoolsRest(v)
    BY CallsRest, TokensRest
    DEF ProcessMarks, ProcessSaves, ProcessFails, filesVars
  <1>2. ASSUME NEW r \in LocalVideo, row' = [row EXCEPT ![v] = r],
               RowFits(v, r), r.token = copy.token,
               copy \in Held(v), row[v] \in LocalVideo,
               proc'[v].copy \in {copy, NoRow},
               UNCHANGED <<repair, upl, cleaner>>
        PROVE  Writes(v, r)
    BY <1>1, <1>2 DEF Writes, BoothTypeOK, Held
  <1>3. CASE ProcessMarks(v)
    <2> USE <1>3 DEF ProcessMarks
    <2>1. /\ row[v] \in LocalVideo /\ copy \in LocalVideo /\ copy \in Held(v)
          /\ copy.original /\ RowFits(v, copy)
      BY ProcessCopy
    <2>2. marked \in LocalVideo
      BY <2>1 DEF LocalVideo, CaptureStates, ProcessingStates, UploadStates
    <2>3. RowFits(v, marked)
      BY <2>1, <2>2 DEF RowFits, RowShape, HasItsFiles, LocalVideo
    <2>4. Writes(v, marked)
      BY <1>2, <2>1, <2>2, <2>3 DEF BoothTypeOK, ProcessPlaces, LocalVideo
    <2>5. BoothTypeOK'
      <3>1. row' \in [Videos -> LocalVideo \cup {NoRow}]
        BY <2>1, <2>2 DEF BoothTypeOK
      <3>2. proc' \in [Videos -> ProcessPlaces]
        BY <2>1, <2>2 DEF BoothTypeOK, ProcessPlaces
      <3> QED
        BY <3>1, <3>2 DEF BoothTypeOK, filesVars, tokensVars, callVars
    <2>6. OthersRest(v)
      BY DEF OthersRest, PhoneRests, BoothTypeOK, filesVars
    <2>7. CameraInv(v)'
      BY <2>1
      DEF BoothTypeOK, filesVars, callVars, VideoInv, CameraInv, BeforeRename,
          SessionOf, serverVars
    <2>8. JobsInv(v)'
      BY <2>1, RowsAreNotNoRow
      DEF BoothTypeOK, ProcessPlaces, VideoInv, JobsInv, RepairInv, ProcessInv,
          UploadInv, CleanupInv
    <2>9. FilesInv(v)'
      BY <2>1
      DEF BoothTypeOK, ProcessPlaces, filesVars, callVars, VideoInv,
          serverVars, FilesInv
    <2> QED
      BY <2>4, <2>5, <2>6, <2>7, <2>8, <2>9, Assembled DEF Proceeds
  <1>4. CASE ProcessSaves(v)
    <2> USE <1>4 DEF ProcessSaves
    <2>1. /\ row[v] \in LocalVideo /\ copy \in LocalVideo /\ copy \in Held(v)
          /\ copy.original /\ RowFits(v, copy)
      BY ProcessCopy
    <2>2. done \in LocalVideo
      BY <2>1 DEF LocalVideo, CaptureStates, ProcessingStates, UploadStates
    <2>3. RowFits(v, done)
      BY <2>1, <2>2
      DEF RowFits, RowShape, HasItsFiles, LocalVideo, VideoInv, FilesInv
    <2>4. Writes(v, done)
      BY <1>2, <2>1, <2>2, <2>3 DEF BoothTypeOK, ProcessPlaces, LocalVideo
    <2>5. BoothTypeOK'
      <3>1. row' \in [Videos -> LocalVideo \cup {NoRow}]
        BY <2>1, <2>2 DEF BoothTypeOK
      <3>2. proc' \in [Videos -> ProcessPlaces]
        BY <2>1, <2>2 DEF BoothTypeOK, ProcessPlaces
      <3> QED
        BY <3>1, <3>2 DEF BoothTypeOK, filesVars, tokensVars, callVars
    <2>6. OthersRest(v)
      BY DEF OthersRest, PhoneRests, BoothTypeOK, filesVars
    <2>7. CameraInv(v)'
      BY <2>1
      DEF BoothTypeOK, filesVars, callVars, VideoInv, CameraInv, BeforeRename,
          SessionOf, serverVars
    <2>8. JobsInv(v)'
      <3>1. proc'[v].pc = "saved" /\ proc'[v].copy = copy
        BY <2>1 DEF BoothTypeOK, ProcessPlaces
      <3> QED
        BY <2>1, <3>1, RowsAreNotNoRow
        DEF VideoInv, JobsInv, RepairInv, ProcessInv, UploadInv, CleanupInv
    <2>9. FilesInv(v)'
      BY <2>1
      DEF BoothTypeOK, ProcessPlaces, filesVars, callVars, VideoInv,
          serverVars, FilesInv
    <2> QED
      BY <2>4, <2>5, <2>6, <2>7, <2>8, <2>9, Assembled DEF Proceeds
  <1>5. CASE ProcessFails(v)
    <2> USE <1>5 DEF ProcessFails
    <2>1. /\ row[v] \in LocalVideo /\ copy \in LocalVideo /\ copy \in Held(v)
          /\ RowFits(v, copy)
      BY ProcessCopy
    <2>2. failed \in LocalVideo
      BY <2>1 DEF LocalVideo, CaptureStates, ProcessingStates, UploadStates
    <2>3. RowFits(v, failed)
      BY <2>1, <2>2 DEF RowFits, RowShape, HasItsFiles, LocalVideo
    <2>4. Writes(v, failed)
      BY <1>2, <2>1, <2>2, <2>3 DEF BoothTypeOK, ProcessPlaces, LocalVideo
    <2>5. BoothTypeOK'
      <3>1. row' \in [Videos -> LocalVideo \cup {NoRow}]
        BY <2>1, <2>2 DEF BoothTypeOK
      <3>2. proc' \in [Videos -> ProcessPlaces]
        BY <2>1, <2>2 DEF BoothTypeOK, ProcessPlaces
      <3> QED
        BY <3>1, <3>2 DEF BoothTypeOK, filesVars, tokensVars, callVars
    <2>6. OthersRest(v)
      BY DEF OthersRest, PhoneRests, BoothTypeOK, filesVars
    <2>7. CameraInv(v)'
      BY <2>1
      DEF BoothTypeOK, filesVars, callVars, VideoInv, CameraInv, BeforeRename,
          SessionOf, serverVars
    <2>8. JobsInv(v)'
      BY <2>1, RowsAreNotNoRow
      DEF BoothTypeOK, ProcessPlaces, VideoInv, JobsInv, RepairInv, ProcessInv,
          UploadInv, CleanupInv
    <2>9. FilesInv(v)'
      BY <2>1
      DEF BoothTypeOK, ProcessPlaces, filesVars, callVars, VideoInv,
          serverVars, FilesInv
    <2> QED
      BY <2>4, <2>5, <2>6, <2>7, <2>8, <2>9, Assembled DEF Proceeds
  <1> QED
    BY <1>3, <1>4, <1>5

\* The steps that write no row: reading it, copying the file, and the work
\* that is enqueued next.
LEMMA ProcessWorks ==
    ASSUME BoothInv, NEW v \in Videos, UNCHANGED callVars,
           \/ ProcessReads(v) \/ ProcessCannotCopy(v)
           \/ ProcessEnqueues(v) \/ ProcessSucceeds(v)
    PROVE  BoothTypeOK' /\ OthersRest(v) /\ VideoInv(v)'
  <1> USE DEF BoothInv, ProcTo, ProcEnds, Resting
  <1>1. /\ UNCHANGED <<row, original, final>>
        /\ ServerRests(v)
        /\ PoolsRest(v)
    BY CallsRest, TokensRest
    DEF ProcessReads, ProcessCannotCopy, ProcessEnqueues, ProcessSucceeds,
        filesVars
  <1>2. row[v] \in LocalVideo
    BY DEF ProcessReads, ProcessCannotCopy, ProcessEnqueues, ProcessSucceeds,
           VideoInv, Untouched, BoothTypeOK
  <1>3. CASE ProcessReads(v)
    <2> USE <1>3 DEF ProcessReads
    <2>1. row[v] \in LocalVideo /\ row[v] # NoRow
      BY <1>2, RowsAreNotNoRow
    <2>2. Held(v)' \subseteq Held(v)
      BY <2>1 DEF Held, BoothTypeOK, ProcessPlaces
    <2>4. Writes(v, row[v])
      BY <1>1, <1>2, <2>2, KeptRows, RowsAreNotNoRow
    <2>5. BoothTypeOK'
      <3>1. proc' \in [Videos -> ProcessPlaces]
        BY <2>1 DEF BoothTypeOK, ProcessPlaces
      <3> QED
        BY <3>1 DEF BoothTypeOK, filesVars, tokensVars, callVars
    <2>6. OthersRest(v)
      BY DEF OthersRest, PhoneRests, BoothTypeOK, filesVars
    <2>7. CameraInv(v)'
      BY <2>1
      DEF BoothTypeOK, filesVars, callVars, VideoInv, CameraInv, BeforeRename,
          SessionOf, serverVars
    <2>8. JobsInv(v)'
      BY <2>1, RowsAreNotNoRow
      DEF BoothTypeOK, ProcessPlaces, VideoInv, JobsInv, RepairInv, ProcessInv,
          UploadInv, CleanupInv
    <2>9. FilesInv(v)'
      BY <2>1
      DEF BoothTypeOK, ProcessPlaces, filesVars, callVars, VideoInv,
          serverVars, FilesInv
    <2> QED
      BY <2>4, <2>5, <2>6, <2>7, <2>8, <2>9, Assembled DEF Proceeds
  <1>4. CASE ProcessCannotCopy(v)
    <2> USE <1>4 DEF ProcessCannotCopy
    <2>1. row[v] \in LocalVideo /\ row[v] # NoRow
      BY <1>2, RowsAreNotNoRow
    <2>2. Held(v)' \subseteq Held(v)
      BY <2>1 DEF Held, BoothTypeOK, ProcessPlaces
    <2>4. Writes(v, row[v])
      BY <1>1, <1>2, <2>2, KeptRows, RowsAreNotNoRow
    <2>5. BoothTypeOK'
      <3>1. proc' \in [Videos -> ProcessPlaces]
        BY <2>1 DEF BoothTypeOK, ProcessPlaces
      <3> QED
        BY <3>1 DEF BoothTypeOK, filesVars, tokensVars, callVars
    <2>6. OthersRest(v)
      BY DEF OthersRest, PhoneRests, BoothTypeOK, filesVars
    <2>7. CameraInv(v)'
      BY <2>1
      DEF BoothTypeOK, filesVars, callVars, VideoInv, CameraInv, BeforeRename,
          SessionOf, serverVars
    <2>8. JobsInv(v)'
      BY <2>1, RowsAreNotNoRow
      DEF BoothTypeOK, ProcessPlaces, VideoInv, JobsInv, RepairInv, ProcessInv,
          UploadInv, CleanupInv
    <2>9. FilesInv(v)'
      BY <2>1
      DEF BoothTypeOK, ProcessPlaces, filesVars, callVars, VideoInv,
          serverVars, FilesInv
    <2> QED
      BY <2>4, <2>5, <2>6, <2>7, <2>8, <2>9, Assembled DEF Proceeds
  <1>5. CASE ProcessEnqueues(v)
    <2> USE <1>5 DEF ProcessEnqueues, EnqueueUpload, UploadEnqueued
    <2>1. row[v] \in LocalVideo /\ row[v] # NoRow
      BY <1>2, RowsAreNotNoRow
    <2>2. Held(v)' \subseteq Held(v)
      BY <2>1 DEF Held, BoothTypeOK, ProcessPlaces, UploadPlaces
    <2>4. Writes(v, row[v])
      BY <1>1, <1>2, <2>2, KeptRows, RowsAreNotNoRow
    <2>5. BoothTypeOK'
      <3>1. proc' \in [Videos -> ProcessPlaces]
        BY <2>1 DEF BoothTypeOK, ProcessPlaces
      <3>2. upl' \in [Videos -> UploadPlaces]
        BY <2>1 DEF BoothTypeOK, UploadPlaces
      <3> QED
        BY <3>1, <3>2 DEF BoothTypeOK, filesVars, tokensVars, callVars
    <2>6. OthersRest(v)
      BY DEF OthersRest, PhoneRests, BoothTypeOK, filesVars
    <2>7. CameraInv(v)'
      BY <2>1
      DEF BoothTypeOK, filesVars, callVars, VideoInv, CameraInv, BeforeRename,
          SessionOf, serverVars
    <2>8. JobsInv(v)'
      <3>1. /\ proc'[v].pc = "succeeded" /\ proc'[v].copy = proc[v].copy
            /\ upl'[v] \in {upl[v], UploadEnqueued}
        BY <2>1 DEF BoothTypeOK, ProcessPlaces, UploadPlaces
      <3> QED
        BY <2>1, <3>1, RowsAreNotNoRow
        DEF VideoInv, JobsInv, RepairInv, ProcessInv, UploadInv, CleanupInv
    <2>9. FilesInv(v)'
      BY <2>1
      DEF BoothTypeOK, ProcessPlaces, UploadPlaces, filesVars, callVars,
          VideoInv, serverVars, FilesInv
    <2> QED
      BY <2>4, <2>5, <2>6, <2>7, <2>8, <2>9, Assembled DEF Proceeds
  <1>6. CASE ProcessSucceeds(v)
    <2> USE <1>6 DEF ProcessSucceeds
    <2>1. row[v] \in LocalVideo /\ row[v] # NoRow
      BY <1>2, RowsAreNotNoRow
    <2>2. Held(v)' \subseteq Held(v)
      BY <2>1 DEF Held, BoothTypeOK, ProcessPlaces
    <2>4. Writes(v, row[v])
      BY <1>1, <1>2, <2>2, KeptRows, RowsAreNotNoRow
    <2>5. BoothTypeOK'
      <3>1. proc' \in [Videos -> ProcessPlaces]
        BY <2>1 DEF BoothTypeOK, ProcessPlaces
      <3> QED
        BY <3>1 DEF BoothTypeOK, filesVars, tokensVars, callVars
    <2>6. OthersRest(v)
      BY DEF OthersRest, PhoneRests, BoothTypeOK, filesVars
    <2>7. CameraInv(v)'
      BY <2>1
      DEF BoothTypeOK, filesVars, callVars, VideoInv, CameraInv, BeforeRename,
          SessionOf, serverVars
    <2>8. JobsInv(v)'
      <3>1. proc'[v] = Resting
        BY <2>1 DEF BoothTypeOK, ProcessPlaces
      <3> QED
        BY <2>1, <3>1, RowsAreNotNoRow
        DEF VideoInv, JobsInv, RepairInv, ProcessInv, UploadInv, CleanupInv
    <2>9. FilesInv(v)'
      BY <2>1
      DEF BoothTypeOK, ProcessPlaces, filesVars, callVars, VideoInv,
          serverVars, FilesInv
    <2> QED
      BY <2>4, <2>5, <2>6, <2>7, <2>8, <2>9, Assembled DEF Proceeds
  <1> QED
    BY <1>3, <1>4, <1>5, <1>6

\* The copy itself: from now on the final file is the original.
LEMMA ProcessCopiesFile ==
    ASSUME BoothInv, NEW v \in Videos, UNCHANGED callVars, ProcessCopies(v)
    PROVE  BoothTypeOK' /\ OthersRest(v) /\ VideoInv(v)'
  <1> USE DEF BoothInv, ProcessCopies, ProcTo
  <1>1. /\ row[v] \in LocalVideo /\ row[v] # NoRow
        /\ proc[v].copy # NoRow /\ proc[v].copy.original
    BY ProcessCopy, RowsAreNotNoRow
  <1>2. /\ proc'[v].pc = "copied" /\ proc'[v].copy = proc[v].copy
        /\ final'[v] = original[v] /\ original'[v] = original[v]
        /\ original[v] # NoFile
        /\ row'[v] = row[v] /\ capt'[v] = capt[v] /\ repair'[v] = repair[v]
        /\ upl'[v] = upl[v] /\ cleaner'[v] = cleaner[v]
        /\ staging'[v] = staging[v] /\ app' = app
    BY DEF BoothTypeOK, ProcessPlaces
  <1>3. Held(v)' = Held(v)
    BY <1>2 DEF Held
  <1>4. ServerRests(v) /\ PoolsRest(v)
    BY CallsRest, TokensRest
  <1>5. BoothTypeOK'
    <2>1. proc' \in [Videos -> ProcessPlaces]
      BY DEF BoothTypeOK, ProcessPlaces
    <2> QED
      BY <2>1 DEF BoothTypeOK, tokensVars, callVars
  <1>6. OthersRest(v)
    BY DEF OthersRest, PhoneRests, BoothTypeOK
  <1>7. CameraInv(v)'
    BY <1>2 DEF VideoInv, CameraInv, BeforeRename
  <1>8. JobsInv(v)'
    BY <1>1, <1>2 DEF VideoInv, JobsInv, RepairInv, ProcessInv, UploadInv,
                      CleanupInv
  <1>9. HeldInv(v)'
    BY <1>2, <1>3, <1>4 DEF VideoInv, HeldInv, HasItsFiles, ServerRests
  <1>10. FilesInv(v)'
    BY <1>2, <1>4 DEF VideoInv, FilesInv, ServerRests
  <1>11. SessionInv(v)'
    BY <1>2, <1>4 DEF VideoInv, SessionInv, SessionOf, ServerRests, FilesInv
  <1>12. TokensInv(v)'
    BY <1>1, <1>2, <1>3, <1>4, TokensFollow DEF VideoInv
  <1> QED
    BY <1>1, <1>2, <1>5, <1>6, <1>7, <1>8, <1>9, <1>10, <1>11, <1>12
    DEF VideoInv

\* The processing worker keeps the invariant of its video.
LEMMA ProcessStepKeeps ==
    ASSUME BoothInv, NEW v \in Videos, UNCHANGED callVars, ProcessStep(v)
    PROVE  BoothTypeOK' /\ OthersRest(v) /\ VideoInv(v)'
  BY ProcessWrites, ProcessWorks, ProcessCopiesFile DEF ProcessStep

\* What is read and written before the file is renamed is not saved yet.
LEMMA NotSavedYet ==
    ASSUME BoothInv, NEW v \in Videos, BeforeRename(v), NEW r \in Held(v)
    PROVE  ~video[v].stored /\ ~r.original /\ ~r.final
  <1>1. original[v] = NoFile /\ session[SessionOf(v)].status = "NONE"
    BY DEF BoothInv, VideoInv, CameraInv
  <1>2. ~video[v].stored
    BY <1>1 DEF BoothInv, VideoInv, SessionInv
  <1> QED
    BY <1>1, <1>2 DEF BoothInv, VideoInv, HeldInv, RowShape, HasItsFiles

\* The screen and the camera, but for the row that prepare writes.
LEMMA CameraKeeps ==
    ASSUME BoothInv, NEW v \in Videos, UNCHANGED callVars,
           \/ StartRecording(v) \/ FinishRecording(v)
           \/ RecordingFails(v) \/ LeaveScreen(v)
    PROVE  BoothTypeOK' /\ OthersRest(v) /\ VideoInv(v)'
  <1> DEFINE failed == [row[v] EXCEPT !.capture = "FAILED"]
  <1> USE DEF BoothInv, SetRow, GoTo
  <1>1. /\ UNCHANGED <<original, final, repair, proc, upl, cleaner>>
        /\ ServerRests(v)
        /\ PoolsRest(v)
    BY CallsRest, TokensRest
    DEF StartRecording, FinishRecording, RecordingFails, LeaveScreen,
        filesVars
  <1>2. row[v] \in LocalVideo /\ row[v] # NoRow /\ row[v] \in Held(v)
    BY HeldRows
    DEF StartRecording, FinishRecording, RecordingFails, LeaveScreen,
        VideoInv, Untouched, BoothTypeOK
  <1>3. CASE StartRecording(v)
    <2> USE <1>3 DEF StartRecording
    <2>1. row[v] \in LocalVideo /\ row[v] # NoRow /\ row[v] \in Held(v)
      BY <1>2
    <2>2. Held(v)' \subseteq Held(v)
      BY <1>1 DEF Held, BoothTypeOK
    <2>4. Writes(v, row[v])
      BY <1>1, <1>2, <2>2, KeptRows
    <2>5. BoothTypeOK'
      <3> QED
        BY DEF BoothTypeOK, filesVars, tokensVars, callVars
    <2>6. OthersRest(v)
      BY DEF OthersRest, PhoneRests, BoothTypeOK, filesVars
    <2>7. CameraInv(v)'
      <3>1. capt'[v] = "recording" /\ staging'[v] \in {NoFile, Cut}
        BY DEF BoothTypeOK
      <3>2. original[v] = NoFile /\ final[v] = NoFile
        BY DEF VideoInv, CameraInv, BeforeRename
      <3>3. session[SessionOf(v)].status = "NONE"
        BY DEF VideoInv, CameraInv, BeforeRename
      <3> QED
        BY <1>1, <3>1, <3>2, <3>3, CaptureAssumption
        DEF VideoInv, CameraInv, SessionOf, ServerRests
    <2>8. JobsInv(v)'
      BY <2>1, RowsAreNotNoRow
      DEF BoothTypeOK, VideoInv, JobsInv, RepairInv, ProcessInv, UploadInv,
          CleanupInv
    <2>9. FilesInv(v)'
      BY <2>1
      DEF BoothTypeOK, filesVars, callVars, VideoInv, serverVars, FilesInv
    <2> QED
      BY <2>4, <2>5, <2>6, <2>7, <2>8, <2>9, Assembled DEF Proceeds
  <1>4. CASE FinishRecording(v)
    <2> USE <1>4 DEF FinishRecording
    <2>1. row[v] \in LocalVideo /\ row[v] # NoRow /\ row[v] \in Held(v)
      BY <1>2
    <2>2. Held(v)' \subseteq Held(v)
      BY <1>1 DEF Held, BoothTypeOK
    <2>4. Writes(v, row[v])
      BY <1>1, <1>2, <2>2, KeptRows
    <2>5. BoothTypeOK'
      <3> QED
        BY DEF BoothTypeOK, filesVars, tokensVars, callVars
    <2>6. OthersRest(v)
      BY DEF OthersRest, PhoneRests, BoothTypeOK, filesVars
    <2>7. CameraInv(v)'
      BY <2>1
      DEF BoothTypeOK, filesVars, callVars, VideoInv, CameraInv, BeforeRename,
          SessionOf, serverVars
    <2>8. JobsInv(v)'
      BY <2>1, RowsAreNotNoRow
      DEF BoothTypeOK, VideoInv, JobsInv, RepairInv, ProcessInv, UploadInv,
          CleanupInv
    <2>9. FilesInv(v)'
      BY <2>1
      DEF BoothTypeOK, filesVars, callVars, VideoInv, serverVars, FilesInv
    <2> QED
      BY <2>4, <2>5, <2>6, <2>7, <2>8, <2>9, Assembled DEF Proceeds
  <1>6. CASE LeaveScreen(v)
    <2> USE <1>6 DEF LeaveScreen
    <2>1. row[v] \in LocalVideo /\ row[v] # NoRow /\ row[v] \in Held(v)
      BY <1>2
    <2>2. Held(v)' \subseteq Held(v)
      BY <1>1 DEF Held, BoothTypeOK
    <2>4. Writes(v, row[v])
      BY <1>1, <1>2, <2>2, KeptRows
    <2>5. BoothTypeOK'
      <3> QED
        BY DEF BoothTypeOK, filesVars, tokensVars, callVars
    <2>6. OthersRest(v)
      BY DEF OthersRest, PhoneRests, BoothTypeOK, filesVars
    <2>7. CameraInv(v)'
      BY <2>1
      DEF BoothTypeOK, filesVars, callVars, VideoInv, CameraInv, BeforeRename,
          SessionOf, serverVars
    <2>8. JobsInv(v)'
      BY <2>1, RowsAreNotNoRow
      DEF BoothTypeOK, VideoInv, JobsInv, RepairInv, ProcessInv, UploadInv,
          CleanupInv
    <2>9. FilesInv(v)'
      BY <2>1
      DEF BoothTypeOK, filesVars, callVars, VideoInv, serverVars, FilesInv
    <2> QED
      BY <2>4, <2>5, <2>6, <2>7, <2>8, <2>9, Assembled DEF Proceeds
  <1>5. CASE RecordingFails(v)
    <2> USE <1>5 DEF RecordingFails
    <2>1. row[v] \in LocalVideo /\ row[v] # NoRow /\ row[v] \in Held(v)
      BY <1>2
    <2>2. failed \in LocalVideo
      BY <2>1 DEF LocalVideo, CaptureStates, ProcessingStates, UploadStates
    <2>3. RowFits(v, failed)
      BY <2>1, <2>2, NotSavedYet, HeldFits
      DEF VideoInv, BeforeRename, RowFits, RowShape, HasItsFiles, LocalVideo
    <2>4. Writes(v, failed)
      BY <1>1, <2>1, <2>2, <2>3 DEF Writes, BoothTypeOK, Held, LocalVideo
    <2>5. BoothTypeOK'
      <3>1. row' \in [Videos -> LocalVideo \cup {NoRow}]
        BY <2>1, <2>2 DEF BoothTypeOK
      <3> QED
        BY <3>1 DEF BoothTypeOK, filesVars, tokensVars, callVars
    <2>6. OthersRest(v)
      BY DEF OthersRest, PhoneRests, BoothTypeOK, filesVars
    <2>7. CameraInv(v)'
      BY <2>1
      DEF BoothTypeOK, filesVars, callVars, VideoInv, CameraInv, BeforeRename,
          SessionOf, serverVars
    <2>8. JobsInv(v)'
      BY <2>1, RowsAreNotNoRow
      DEF BoothTypeOK, VideoInv, JobsInv, RepairInv, ProcessInv, UploadInv,
          CleanupInv
    <2>9. FilesInv(v)'
      BY <2>1
      DEF BoothTypeOK, filesVars, callVars, VideoInv, serverVars, FilesInv
    <2> QED
      BY <2>4, <2>5, <2>6, <2>7, <2>8, <2>9, Assembled DEF Proceeds
  <1> QED
    BY <1>3, <1>4, <1>5, <1>6

\* CaptureRepository.complete after a recording, but for the rename.
LEMMA CompleteKeeps ==
    ASSUME BoothInv, NEW v \in Videos, UNCHANGED callVars,
           \/ CompleteMarks(v) \/ CompleteCannotMove(v)
           \/ CompleteSaves(v) \/ CompleteEnqueues(v)
    PROVE  BoothTypeOK' /\ OthersRest(v) /\ VideoInv(v)'
  <1> DEFINE marked == [row[v] EXCEPT !.capture = "SAVING"]
             saved == SavedRow(row[v])
  <1> USE DEF BoothInv, SetRow, GoTo
  <1>1. /\ UNCHANGED <<staging, original, final, repair, upl, cleaner>>
        /\ ServerRests(v)
        /\ PoolsRest(v)
    BY CallsRest, TokensRest
    DEF CompleteMarks, CompleteCannotMove, CompleteSaves, CompleteEnqueues,
        MarkSaving, filesVars
  <1>2. row[v] \in LocalVideo /\ row[v] # NoRow /\ row[v] \in Held(v)
    BY HeldRows
    DEF CompleteMarks, CompleteCannotMove, CompleteSaves, CompleteEnqueues,
        VideoInv, Untouched, BoothTypeOK
  <1>3. CASE CompleteMarks(v)
    <2> USE <1>3 DEF CompleteMarks, MarkSaving
    <2>1. row[v] \in LocalVideo /\ row[v] # NoRow /\ row[v] \in Held(v)
      BY <1>2
    <2>2. marked \in LocalVideo
      BY <2>1 DEF LocalVideo, CaptureStates, ProcessingStates, UploadStates
    <2>3. RowFits(v, marked)
      BY <2>1, <2>2, NotSavedYet, HeldFits
      DEF VideoInv, BeforeRename, RowFits, RowShape, HasItsFiles, LocalVideo
    <2>4. Writes(v, marked)
      BY <1>1, <2>1, <2>2, <2>3 DEF Writes, BoothTypeOK, Held, LocalVideo
    <2>5. BoothTypeOK'
      <3>1. row' \in [Videos -> LocalVideo \cup {NoRow}]
        BY <2>1, <2>2 DEF BoothTypeOK
      <3> QED
        BY <3>1 DEF BoothTypeOK, filesVars, tokensVars, callVars
    <2>6. OthersRest(v)
      BY DEF OthersRest, PhoneRests, BoothTypeOK, filesVars
    <2>7. CameraInv(v)'
      BY <2>1
      DEF BoothTypeOK, filesVars, callVars, VideoInv, CameraInv, BeforeRename,
          SessionOf, serverVars
    <2>8. JobsInv(v)'
      BY <2>1, RowsAreNotNoRow
      DEF BoothTypeOK, VideoInv, JobsInv, RepairInv, ProcessInv, UploadInv,
          CleanupInv
    <2>9. FilesInv(v)'
      BY <2>1
      DEF BoothTypeOK, filesVars, callVars, VideoInv, serverVars, FilesInv
    <2> QED
      BY <2>4, <2>5, <2>6, <2>7, <2>8, <2>9, Assembled DEF Proceeds
  <1>4. CASE CompleteCannotMove(v)
    <2> USE <1>4 DEF CompleteCannotMove
    <2>1. row[v] \in LocalVideo /\ row[v] # NoRow /\ row[v] \in Held(v)
      BY <1>2
    <2>2. Held(v)' \subseteq Held(v)
      BY <1>1 DEF Held, BoothTypeOK
    <2>4. Writes(v, row[v])
      BY <1>1, <1>2, <2>2, KeptRows
    <2>5. BoothTypeOK'
      <3> QED
        BY DEF BoothTypeOK, filesVars, tokensVars, callVars
    <2>6. OthersRest(v)
      BY DEF OthersRest, PhoneRests, BoothTypeOK, filesVars
    <2>7. CameraInv(v)'
      BY <2>1
      DEF BoothTypeOK, filesVars, callVars, VideoInv, CameraInv, BeforeRename,
          SessionOf, serverVars
    <2>8. JobsInv(v)'
      BY <2>1, RowsAreNotNoRow
      DEF BoothTypeOK, VideoInv, JobsInv, RepairInv, ProcessInv, UploadInv,
          CleanupInv
    <2>9. FilesInv(v)'
      BY <2>1
      DEF BoothTypeOK, filesVars, callVars, VideoInv, serverVars, FilesInv
    <2> QED
      BY <2>4, <2>5, <2>6, <2>7, <2>8, <2>9, Assembled DEF Proceeds
  <1>5. CASE CompleteSaves(v)
    <2> USE <1>5 DEF CompleteSaves
    <2>1. row[v] \in LocalVideo /\ row[v] # NoRow /\ row[v] \in Held(v)
      BY <1>2
    <2>2. saved \in LocalVideo
      BY <2>1
      DEF SavedRow, RecordingRow, LocalVideo, CaptureStates, ProcessingStates,
          UploadStates
    <2>3. RowFits(v, saved)
      BY <2>1, <2>2
      DEF SavedRow, RecordingRow, RowFits, RowShape, HasItsFiles, VideoInv,
          FilesInv
    <2>4. Writes(v, saved)
      BY <1>1, <2>1, <2>2, <2>3
      DEF Writes, BoothTypeOK, Held, LocalVideo, SavedRow, RecordingRow
    <2>5. BoothTypeOK'
      <3>1. row' \in [Videos -> LocalVideo \cup {NoRow}]
        BY <2>1, <2>2 DEF BoothTypeOK
      <3> QED
        BY <3>1 DEF BoothTypeOK, filesVars, tokensVars, callVars
    <2>6. OthersRest(v)
      BY DEF OthersRest, PhoneRests, BoothTypeOK, filesVars
    <2>7. CameraInv(v)'
      BY <2>1
      DEF BoothTypeOK, filesVars, callVars, VideoInv, CameraInv, BeforeRename,
          SessionOf, serverVars
    <2>8. JobsInv(v)'
      BY <2>1, RowsAreNotNoRow
      DEF BoothTypeOK, VideoInv, JobsInv, RepairInv, ProcessInv, UploadInv,
          CleanupInv
    <2>9. FilesInv(v)'
      BY <2>1
      DEF BoothTypeOK, filesVars, callVars, VideoInv, serverVars, FilesInv
    <2> QED
      BY <2>4, <2>5, <2>6, <2>7, <2>8, <2>9, Assembled DEF Proceeds
  <1>6. CASE CompleteEnqueues(v)
    <2> USE <1>6 DEF CompleteEnqueues, EnqueueProcessing, Enqueued
    <2>1. row[v] \in LocalVideo /\ row[v] # NoRow /\ row[v] \in Held(v)
      BY <1>2
    <2>2. Held(v)' \subseteq Held(v)
      BY <1>1 DEF Held, BoothTypeOK, ProcessPlaces
    <2>4. Writes(v, row[v])
      BY <1>1, <1>2, <2>2, KeptRows
    <2>5. BoothTypeOK'
      <3>1. proc' \in [Videos -> ProcessPlaces]
        BY <2>1 DEF BoothTypeOK, ProcessPlaces
      <3> QED
        BY <3>1 DEF BoothTypeOK, filesVars, tokensVars, callVars
    <2>6. OthersRest(v)
      BY DEF OthersRest, PhoneRests, BoothTypeOK, filesVars
    <2>7. CameraInv(v)'
      BY <2>1
      DEF BoothTypeOK, filesVars, callVars, VideoInv, CameraInv, BeforeRename,
          SessionOf, serverVars
    <2>8. JobsInv(v)'
      <3>1. proc'[v] \in {proc[v], Enqueued}
        BY <2>1 DEF BoothTypeOK, ProcessPlaces
      <3> QED
        BY <2>1, <3>1, RowsAreNotNoRow
        DEF VideoInv, JobsInv, RepairInv, ProcessInv, UploadInv, CleanupInv
    <2>9. FilesInv(v)'
      BY <2>1
      DEF BoothTypeOK, ProcessPlaces, filesVars, callVars, VideoInv,
          serverVars, FilesInv
    <2> QED
      BY <2>4, <2>5, <2>6, <2>7, <2>8, <2>9, Assembled DEF Proceeds
  <1> QED
    BY <1>3, <1>4, <1>5, <1>6

\* AtomicCaptureFile.finalize, called by complete or by reconcile.
LEMMA RenameKeeps ==
    ASSUME BoothInv, NEW v \in Videos, UNCHANGED callVars,
           CompleteMoves(v) \/ RepairMoves(v)
    PROVE  BoothTypeOK' /\ OthersRest(v) /\ VideoInv(v)'
  <1> USE DEF BoothInv, CompleteMoves, RepairMoves, RenameStaging, GoTo,
              RepairTo
  <1>1. BeforeRename(v) /\ staging[v] # NoFile
    BY DEF VideoInv, CameraInv, BeforeRename
  <1>2. /\ original[v] = NoFile /\ final[v] = NoFile
        /\ session[SessionOf(v)].status = "NONE"
        /\ ~video[v].stored
    BY <1>1 DEF VideoInv, CameraInv, SessionInv
  <1>3. row[v] # NoRow
    BY <1>1 DEF VideoInv, Untouched
  <1>4. /\ original'[v] = staging[v] /\ staging'[v] = NoFile
        /\ final'[v] = NoFile /\ row'[v] = row[v] /\ proc'[v] = proc[v]
        /\ upl'[v] = upl[v] /\ cleaner'[v] = cleaner[v] /\ app' = app
        /\ repair'[v].copy = repair[v].copy
        /\ \/ /\ capt'[v] = "moved" /\ capt[v] = "moving"
              /\ repair'[v].pc = "none" /\ repair[v].pc = "none"
           \/ /\ capt'[v] = "none"
              /\ repair'[v].pc = "moved" /\ repair[v].pc = "moving"
    BY <1>2 DEF BoothTypeOK, RepairPlaces, VideoInv, CameraInv
  <1>5. ServerRests(v) /\ PoolsRest(v)
    BY CallsRest, TokensRest
  <1>6. Held(v)' = Held(v)
    BY <1>4 DEF Held
  <1>7. BoothTypeOK'
    <2>1. repair' \in [Videos -> RepairPlaces]
      BY DEF BoothTypeOK, RepairPlaces
    <2> QED
      BY <2>1 DEF BoothTypeOK, tokensVars, callVars
  <1>8. OthersRest(v)
    BY DEF OthersRest, PhoneRests, BoothTypeOK
  <1>9. CameraInv(v)'
    BY <1>4 DEF VideoInv, CameraInv, BeforeRename
  <1>10. JobsInv(v)'
    BY <1>4 DEF VideoInv, JobsInv, RepairInv, ProcessInv, UploadInv,
                CleanupInv
  <1>11. HeldInv(v)'
    <2>1. ASSUME NEW r \in Held(v)
          PROVE  /\ RowShape(r)
                 /\ ~r.original /\ ~r.final /\ r.upload # "UPLOADED"
      BY <1>1, <1>2, NotSavedYet DEF VideoInv, HeldInv
    <2> QED
      BY <1>6, <2>1 DEF HeldInv, RowShape, HasItsFiles
  <1>12. FilesInv(v)'
    BY <1>1, <1>2, <1>4 DEF VideoInv, FilesInv
  <1>13. SessionInv(v)'
    BY <1>2, <1>5 DEF SessionInv, SessionOf, ServerRests
  <1>14. TokensInv(v)'
    BY <1>3, <1>4, <1>5, <1>6, TokensFollow DEF VideoInv
  <1> QED
    BY <1>3, <1>4, <1>7, <1>8, <1>9, <1>10, <1>11, <1>12, <1>13, <1>14
    DEF VideoInv

\* CaptureRepository.complete keeps the invariant of its video.
LEMMA CompleteStepKeeps ==
    ASSUME BoothInv, NEW v \in Videos, UNCHANGED callVars, CompleteStep(v)
    PROVE  BoothTypeOK' /\ OthersRest(v) /\ VideoInv(v)'
  BY CompleteKeeps, RenameKeeps DEF CompleteStep

\* What reconcile read was not saved.
LEMMA RepairCopy ==
    ASSUME BoothInv, NEW v \in Videos, repair[v].pc # "none"
    PROVE  /\ row[v] \in LocalVideo /\ row[v] \in Held(v)
           /\ RowFits(v, row[v])
           /\ repair[v].copy \in LocalVideo /\ repair[v].copy \in Held(v)
           /\ RowFits(v, repair[v].copy)
           /\ ~repair[v].copy.original /\ ~repair[v].copy.final
  <1>1. row[v] # NoRow
    BY DEF BoothInv, VideoInv, Untouched
  <1>2. /\ repair[v].copy # NoRow
        /\ repair[v].copy.capture \in {"RECORDING", "SAVING"}
    BY DEF BoothInv, VideoInv, JobsInv, RepairInv
  <1>3. /\ row[v] \in LocalVideo /\ row[v] \in Held(v)
        /\ repair[v].copy \in LocalVideo /\ repair[v].copy \in Held(v)
    BY <1>1, <1>2, HeldRows DEF BoothInv
  <1>4. RowFits(v, row[v]) /\ RowFits(v, repair[v].copy)
    BY <1>3, HeldFits DEF BoothInv, VideoInv
  <1> QED
    BY <1>2, <1>3, <1>4 DEF RowFits, RowShape

\* CaptureRepository.reconcile, but for the rename.
LEMMA RepairKeeps ==
    ASSUME BoothInv, NEW v \in Videos, UNCHANGED callVars,
           \/ RepairMarks(v) \/ RepairCannotMove(v) \/ RepairSaves(v)
           \/ RepairAdopts(v) \/ RepairGivesUp(v) \/ RepairEnqueues(v)
    PROVE  BoothTypeOK' /\ OthersRest(v) /\ VideoInv(v)'
  <1> DEFINE copy == repair[v].copy
             marked == [row[v] EXCEPT !.capture = "SAVING"]
             failed == [copy EXCEPT !.capture = "FAILED"]
             saved == SavedRow(row[v])
             adopted == [copy EXCEPT !.capture = "SAVED", !.original = TRUE,
                                     !.processing = "PENDING",
                                     !.upload = "PENDING"]
  <1> USE DEF BoothInv, SetRow, RepairTo, RepairEnds, Resting
  <1>1. /\ UNCHANGED <<staging, original, final, capt, upl, cleaner>>
        /\ ServerRests(v)
        /\ PoolsRest(v)
    BY CallsRest, TokensRest
    DEF RepairMarks, RepairCannotMove, RepairSaves, RepairAdopts,
        RepairGivesUp, RepairEnqueues, MarkSaving, filesVars
  <1>2. repair[v].pc # "none"
    BY DEF RepairMarks, RepairCannotMove, RepairSaves, RepairAdopts,
           RepairGivesUp, RepairEnqueues
  <1>3. ASSUME NEW r \in LocalVideo, row' = [row EXCEPT ![v] = r],
               RowFits(v, r), r.token \in {copy.token, row[v].token},
               repair'[v].copy \in {copy, NoRow}, UNCHANGED proc
        PROVE  Writes(v, r)
    BY <1>1, <1>2, <1>3, RepairCopy DEF Writes, BoothTypeOK, Held
  <1>4. CASE RepairMarks(v)
    <2> USE <1>4 DEF RepairMarks, MarkSaving
    <2>1. /\ row[v] \in LocalVideo /\ row[v] \in Held(v) /\ RowFits(v, row[v])
          /\ copy \in LocalVideo /\ copy \in Held(v) /\ RowFits(v, copy)
          /\ ~copy.original /\ ~copy.final
      BY <1>2, RepairCopy
    <2>2. marked \in LocalVideo
      BY <2>1 DEF LocalVideo, CaptureStates, ProcessingStates, UploadStates
    <2>3. RowFits(v, marked)
      BY <2>1, <2>2, NotSavedYet
      DEF BeforeRename, RowFits, RowShape, HasItsFiles, LocalVideo
    <2>4. Writes(v, marked)
      BY <1>3, <2>1, <2>2, <2>3 DEF BoothTypeOK, RepairPlaces, LocalVideo
    <2>5. BoothTypeOK'
      <3>1. row' \in [Videos -> LocalVideo \cup {NoRow}]
        BY <2>1, <2>2 DEF BoothTypeOK
      <3>2. repair' \in [Videos -> RepairPlaces]
        BY <2>1, <2>2 DEF BoothTypeOK, RepairPlaces
      <3> QED
        BY <3>1, <3>2 DEF BoothTypeOK, filesVars, tokensVars, callVars
    <2>6. OthersRest(v)
      BY DEF OthersRest, PhoneRests, BoothTypeOK, filesVars
    <2>7. CameraInv(v)'
      BY <2>1
      DEF BoothTypeOK, filesVars, callVars, VideoInv, CameraInv, BeforeRename,
          SessionOf, serverVars
    <2>8. JobsInv(v)'
      <3>1. repair'[v].pc = "moving" /\ repair'[v].copy = copy
        BY <2>1 DEF BoothTypeOK, RepairPlaces
      <3> QED
        BY <2>1, <3>1, RowsAreNotNoRow
        DEF VideoInv, JobsInv, RepairInv, ProcessInv, UploadInv, CleanupInv
    <2>9. FilesInv(v)'
      BY <2>1
      DEF BoothTypeOK, RepairPlaces, filesVars, callVars, VideoInv, serverVars,
          FilesInv
    <2> QED
      BY <2>4, <2>5, <2>6, <2>7, <2>8, <2>9, Assembled DEF Proceeds
  <1>5. CASE RepairCannotMove(v)
    <2> USE <1>5 DEF RepairCannotMove
    <2>1. /\ row[v] \in LocalVideo /\ row[v] \in Held(v) /\ RowFits(v, row[v])
          /\ copy \in LocalVideo /\ copy \in Held(v) /\ RowFits(v, copy)
          /\ ~copy.original /\ ~copy.final
      BY <1>2, RepairCopy
    <2>2. failed \in LocalVideo
      BY <2>1 DEF LocalVideo, CaptureStates, ProcessingStates, UploadStates
    <2>3. RowFits(v, failed)
      BY <2>1, <2>2 DEF RowFits, RowShape, HasItsFiles, LocalVideo
    <2>4. Writes(v, failed)
      BY <1>3, <2>1, <2>2, <2>3 DEF BoothTypeOK, RepairPlaces, LocalVideo
    <2>5. BoothTypeOK'
      <3>1. row' \in [Videos -> LocalVideo \cup {NoRow}]
        BY <2>1, <2>2 DEF BoothTypeOK
      <3>2. repair' \in [Videos -> RepairPlaces]
        BY <2>1, <2>2 DEF BoothTypeOK, RepairPlaces
      <3> QED
        BY <3>1, <3>2 DEF BoothTypeOK, filesVars, tokensVars, callVars
    <2>6. OthersRest(v)
      BY DEF OthersRest, PhoneRests, BoothTypeOK, filesVars
    <2>7. CameraInv(v)'
      BY <2>1
      DEF BoothTypeOK, filesVars, callVars, VideoInv, CameraInv, BeforeRename,
          SessionOf, serverVars
    <2>8. JobsInv(v)'
      <3>1. repair'[v] = Resting
        BY <2>1 DEF BoothTypeOK, RepairPlaces
      <3> QED
        BY <2>1, <3>1, RowsAreNotNoRow
        DEF VideoInv, JobsInv, RepairInv, ProcessInv, UploadInv, CleanupInv
    <2>9. FilesInv(v)'
      BY <2>1
      DEF BoothTypeOK, RepairPlaces, filesVars, callVars, VideoInv, serverVars,
          FilesInv
    <2> QED
      BY <2>4, <2>5, <2>6, <2>7, <2>8, <2>9, Assembled DEF Proceeds
  <1>6. CASE RepairSaves(v)
    <2> USE <1>6 DEF RepairSaves
    <2>1. /\ row[v] \in LocalVideo /\ row[v] \in Held(v) /\ RowFits(v, row[v])
          /\ copy \in LocalVideo /\ copy \in Held(v) /\ RowFits(v, copy)
          /\ ~copy.original /\ ~copy.final
      BY <1>2, RepairCopy
    <2>2. saved \in LocalVideo
      BY <2>1
      DEF SavedRow, RecordingRow, LocalVideo, CaptureStates, ProcessingStates,
          UploadStates
    <2>3. RowFits(v, saved)
      BY <2>1, <2>2
      DEF SavedRow, RecordingRow, RowFits, RowShape, HasItsFiles, VideoInv,
          FilesInv
    <2>4. Writes(v, saved)
      BY <1>3, <2>1, <2>2, <2>3
      DEF BoothTypeOK, RepairPlaces, LocalVideo, SavedRow, RecordingRow
    <2>5. BoothTypeOK'
      <3>1. row' \in [Videos -> LocalVideo \cup {NoRow}]
        BY <2>1, <2>2 DEF BoothTypeOK
      <3>2. repair' \in [Videos -> RepairPlaces]
        BY <2>1, <2>2 DEF BoothTypeOK, RepairPlaces
      <3> QED
        BY <3>1, <3>2 DEF BoothTypeOK, filesVars, tokensVars, callVars
    <2>6. OthersRest(v)
      BY DEF OthersRest, PhoneRests, BoothTypeOK, filesVars
    <2>7. CameraInv(v)'
      BY <2>1
      DEF BoothTypeOK, filesVars, callVars, VideoInv, CameraInv, BeforeRename,
          SessionOf, serverVars
    <2>8. JobsInv(v)'
      <3>1. repair'[v].pc = "saved" /\ repair'[v].copy = copy
        BY <2>1 DEF BoothTypeOK, RepairPlaces
      <3> QED
        BY <2>1, <3>1, RowsAreNotNoRow
        DEF VideoInv, JobsInv, RepairInv, ProcessInv, UploadInv, CleanupInv
    <2>9. FilesInv(v)'
      BY <2>1
      DEF BoothTypeOK, RepairPlaces, filesVars, callVars, VideoInv, serverVars,
          FilesInv
    <2> QED
      BY <2>4, <2>5, <2>6, <2>7, <2>8, <2>9, Assembled DEF Proceeds
  <1>7. CASE RepairAdopts(v)
    <2> USE <1>7 DEF RepairAdopts
    <2>1. /\ row[v] \in LocalVideo /\ row[v] \in Held(v) /\ RowFits(v, row[v])
          /\ copy \in LocalVideo /\ copy \in Held(v) /\ RowFits(v, copy)
          /\ ~copy.original /\ ~copy.final
      BY <1>2, RepairCopy
    <2>2. adopted \in LocalVideo
      BY <2>1 DEF LocalVideo, CaptureStates, ProcessingStates, UploadStates
    <2>3. RowFits(v, adopted)
      BY <2>1, <2>2 DEF RowFits, RowShape, HasItsFiles, LocalVideo
    <2>4. Writes(v, adopted)
      BY <1>3, <2>1, <2>2, <2>3 DEF BoothTypeOK, RepairPlaces, LocalVideo
    <2>5. BoothTypeOK'
      <3>1. row' \in [Videos -> LocalVideo \cup {NoRow}]
        BY <2>1, <2>2 DEF BoothTypeOK
      <3>2. repair' \in [Videos -> RepairPlaces]
        BY <2>1, <2>2 DEF BoothTypeOK, RepairPlaces
      <3> QED
        BY <3>1, <3>2 DEF BoothTypeOK, filesVars, tokensVars, callVars
    <2>6. OthersRest(v)
      BY DEF OthersRest, PhoneRests, BoothTypeOK, filesVars
    <2>7. CameraInv(v)'
      BY <2>1
      DEF BoothTypeOK, filesVars, callVars, VideoInv, CameraInv, BeforeRename,
          SessionOf, serverVars
    <2>8. JobsInv(v)'
      <3>1. repair'[v].pc = "saved" /\ repair'[v].copy = copy
        BY <2>1 DEF BoothTypeOK, RepairPlaces
      <3> QED
        BY <2>1, <3>1, RowsAreNotNoRow
        DEF VideoInv, JobsInv, RepairInv, ProcessInv, UploadInv, CleanupInv
    <2>9. FilesInv(v)'
      BY <2>1
      DEF BoothTypeOK, RepairPlaces, filesVars, callVars, VideoInv, serverVars,
          FilesInv
    <2> QED
      BY <2>4, <2>5, <2>6, <2>7, <2>8, <2>9, Assembled DEF Proceeds
  <1>8. CASE RepairGivesUp(v)
    <2> USE <1>8 DEF RepairGivesUp
    <2>1. /\ row[v] \in LocalVideo /\ row[v] \in Held(v) /\ RowFits(v, row[v])
          /\ copy \in LocalVideo /\ copy \in Held(v) /\ RowFits(v, copy)
          /\ ~copy.original /\ ~copy.final
      BY <1>2, RepairCopy
    <2>2. failed \in LocalVideo
      BY <2>1 DEF LocalVideo, CaptureStates, ProcessingStates, UploadStates
    <2>3. RowFits(v, failed)
      BY <2>1, <2>2 DEF RowFits, RowShape, HasItsFiles, LocalVideo
    <2>4. Writes(v, failed)
      BY <1>3, <2>1, <2>2, <2>3 DEF BoothTypeOK, RepairPlaces, LocalVideo
    <2>5. BoothTypeOK'
      <3>1. row' \in [Videos -> LocalVideo \cup {NoRow}]
        BY <2>1, <2>2 DEF BoothTypeOK
      <3>2. repair' \in [Videos -> RepairPlaces]
        BY <2>1, <2>2 DEF BoothTypeOK, RepairPlaces
      <3> QED
        BY <3>1, <3>2 DEF BoothTypeOK, filesVars, tokensVars, callVars
    <2>6. OthersRest(v)
      BY DEF OthersRest, PhoneRests, BoothTypeOK, filesVars
    <2>7. CameraInv(v)'
      BY <2>1
      DEF BoothTypeOK, filesVars, callVars, VideoInv, CameraInv, BeforeRename,
          SessionOf, serverVars
    <2>8. JobsInv(v)'
      <3>1. repair'[v] = Resting
        BY <2>1 DEF BoothTypeOK, RepairPlaces
      <3> QED
        BY <2>1, <3>1, RowsAreNotNoRow
        DEF VideoInv, JobsInv, RepairInv, ProcessInv, UploadInv, CleanupInv
    <2>9. FilesInv(v)'
      BY <2>1
      DEF BoothTypeOK, RepairPlaces, filesVars, callVars, VideoInv, serverVars,
          FilesInv
    <2> QED
      BY <2>4, <2>5, <2>6, <2>7, <2>8, <2>9, Assembled DEF Proceeds
  <1>9. CASE RepairEnqueues(v)
    <2> USE <1>9 DEF RepairEnqueues, EnqueueProcessing, Enqueued
    <2>1. /\ row[v] \in LocalVideo /\ row[v] \in Held(v) /\ RowFits(v, row[v])
          /\ copy \in LocalVideo /\ copy \in Held(v) /\ RowFits(v, copy)
          /\ ~copy.original /\ ~copy.final
      BY <1>2, RepairCopy
    <2>2. Held(v)' \subseteq Held(v)
      BY <2>1 DEF Held, BoothTypeOK, RepairPlaces, ProcessPlaces
    <2>4. Writes(v, row[v])
      BY <1>1, <2>1, <2>2, KeptRows, RowsAreNotNoRow
    <2>5. BoothTypeOK'
      <3>1. repair' \in [Videos -> RepairPlaces]
        BY <2>1 DEF BoothTypeOK, RepairPlaces
      <3>2. proc' \in [Videos -> ProcessPlaces]
        BY <2>1 DEF BoothTypeOK, ProcessPlaces
      <3> QED
        BY <3>1, <3>2 DEF BoothTypeOK, filesVars, tokensVars, callVars
    <2>6. OthersRest(v)
      BY DEF OthersRest, PhoneRests, BoothTypeOK, filesVars
    <2>7. CameraInv(v)'
      BY <2>1
      DEF BoothTypeOK, filesVars, callVars, VideoInv, CameraInv, BeforeRename,
          SessionOf, serverVars
    <2>8. JobsInv(v)'
      <3>1. repair'[v] = Resting /\ proc'[v] \in {proc[v], Enqueued}
        BY <2>1 DEF BoothTypeOK, RepairPlaces, ProcessPlaces
      <3> QED
        BY <2>1, <3>1, RowsAreNotNoRow
        DEF VideoInv, JobsInv, RepairInv, ProcessInv, UploadInv, CleanupInv
    <2>9. FilesInv(v)'
      BY <2>1
      DEF BoothTypeOK, RepairPlaces, ProcessPlaces, filesVars, callVars,
          VideoInv, serverVars, FilesInv
    <2> QED
      BY <2>4, <2>5, <2>6, <2>7, <2>8, <2>9, Assembled DEF Proceeds
  <1> QED
    BY <1>4, <1>5, <1>6, <1>7, <1>8, <1>9

\* reconcile keeps the invariant of the video it repairs.
LEMMA RepairStepKeeps ==
    ASSUME BoothInv, NEW v \in Videos, UNCHANGED callVars, RepairStep(v)
    PROVE  BoothTypeOK' /\ OthersRest(v) /\ VideoInv(v)'
  BY RepairKeeps, RenameKeeps DEF RepairStep

\* CaptureRepository.prepare: the video begins, with a token of the shelf or
\* with none when the shelf is empty.
LEMMA PrepareKeeps ==
    ASSUME BoothInv, NEW v \in Videos, UNCHANGED callVars, Prepare(v)
    PROVE  /\ BoothTypeOK' /\ OthersRest(v) /\ VideoInv(v)'
           /\ \A w \in Videos \ {v} : PoolsRest(w)
  <1> USE DEF BoothInv, Prepare, SetRow, GoTo, Claims
  <1>1. Untouched(v)
    BY DEF VideoInv
  <1>2. PICK t \in Tokens \cup {NoToken} :
            /\ row' = [row EXCEPT ![v] = RecordingRow(t)]
            /\ \/ /\ t \in shelf
                  /\ shelf' = shelf \ {t}
                  /\ assigned' = [assigned EXCEPT ![t] = v]
               \/ /\ t = NoToken
                  /\ shelf = {}
                  /\ UNCHANGED <<shelf, assigned>>
    BY DEF BoothTypeOK, tokensVars
  <1>3. RecordingRow(t) \in LocalVideo
    BY DEF RecordingRow, LocalVideo, CaptureStates, ProcessingStates,
           UploadStates
  <1>4. BoothTypeOK'
    <2>1. row' \in [Videos -> LocalVideo \cup {NoRow}]
      BY <1>2, <1>3 DEF BoothTypeOK
    <2>2. shelf' \subseteq Tokens
      BY <1>2 DEF BoothTypeOK
    <2>3. assigned' \in [Tokens -> Videos \cup {NoVideo}]
      BY <1>2 DEF BoothTypeOK
    <2> QED
      BY <2>1, <2>2, <2>3 DEF BoothTypeOK, filesVars, callVars
  <1>5. OthersRest(v)
    BY DEF OthersRest, PhoneRests, BoothTypeOK, filesVars
  <1>6. ASSUME NEW w \in Videos \ {v}
        PROVE  PoolsRest(w)
    <2>1. shelf' \subseteq shelf
      BY <1>2
    <2>2. ASSUME NEW p \in PoolTokens, assigned'[p] = w
          PROVE  assigned[p] = w
      BY <1>2, <2>2, CaptureAssumption
      DEF BoothTypeOK, CaptureAssumption, PoolTokens
    <2> QED
      BY <2>1, <2>2 DEF PoolsRest
  <1>7. ServerRests(v)
    BY CallsRest
  <1>8. /\ row'[v] = RecordingRow(t) /\ row'[v] # NoRow
        /\ Held(v)' = {RecordingRow(t)}
        /\ capt'[v] = "countdown" /\ app' # "starting"
        /\ repair'[v] = repair[v] /\ proc'[v] = proc[v] /\ upl'[v] = upl[v]
        /\ cleaner'[v] = cleaner[v]
        /\ staging'[v] = NoFile /\ original'[v] = NoFile
        /\ final'[v] = NoFile
    BY <1>1, <1>2, <1>3, RowsAreNotNoRow
    DEF BoothTypeOK, Held, Untouched, filesVars
  <1>9. CameraInv(v)'
    BY <1>1, <1>7, <1>8, CaptureAssumption
    DEF CameraInv, Untouched, SessionOf, ServerRests
  <1>10. JobsInv(v)'
    BY <1>1, <1>8 DEF JobsInv, RepairInv, ProcessInv, UploadInv, CleanupInv,
                      Untouched
  <1>11. HeldInv(v)'
    BY <1>8 DEF HeldInv, RowShape, HasItsFiles, RecordingRow
  <1>12. FilesInv(v)'
    BY <1>1, <1>8 DEF FilesInv, Untouched
  <1>13. SessionInv(v)'
    BY <1>1, <1>7 DEF VideoInv, SessionInv, SessionOf, ServerRests, Untouched
  <1>14. TokensInv(v)'
    <2>1. ASSUME NEW p \in PoolTokens, assigned'[p] = v
          PROVE  p = t
      <3>1. assigned[p] # v
        BY DEF VideoInv, TokensInv
      <3>2. p \in Tokens
        BY CaptureAssumption DEF CaptureAssumption, PoolTokens
      <3> QED
        BY <1>2, <2>1, <3>1, <3>2 DEF BoothTypeOK
    <2>2. \A r \in Held(v)' : r.token = t
      BY <1>8 DEF RecordingRow
    <2>3. t = NoToken => shelf' = {}
      BY <1>2, CaptureAssumption DEF CaptureAssumption, BoothTypeOK
    <2>4. session'[SessionOf(v)].status = "NONE"
      BY <1>1, <1>7 DEF ServerRests, Untouched
    <2> QED
      BY <1>8, <2>1, <2>2, <2>3, <2>4 DEF TokensInv, SessionOf, PoolTokens
  <1> QED
    BY <1>4, <1>5, <1>6, <1>8, <1>9, <1>10, <1>11, <1>12, <1>13, <1>14
    DEF VideoInv

\* SyncRepository.cleanup, the files: both are released, and only when the
\* server stores the video.
LEMMA CleanupReleases ==
    ASSUME BoothInv, NEW v \in Videos, CleanupDeletes(v)
    PROVE  /\ video[v].stored
           /\ row[v] # NoRow /\ row[v].upload = "UPLOADED"
           /\ original'[v] = NoFile /\ final'[v] = NoFile
  <1>1. row[v] \in Held(v) /\ row[v] # NoRow /\ row[v].upload = "UPLOADED"
    BY HeldRows DEF BoothInv, CleanupDeletes, CleanupCandidate
  <1>2. video[v].stored /\ RowShape(row[v])
    BY <1>1 DEF BoothInv, VideoInv, HeldInv
  <1>3. row[v].original /\ row[v].final
    BY <1>1, <1>2, HeldRows
    DEF CleanupDeletes, CleanupCandidate, RowShape, BoothInv, LocalVideo
  <1> QED
    BY <1>1, <1>2, <1>3 DEF BoothInv, BoothTypeOK, CleanupDeletes

\* The cleanup deletes files only of a video the server stores.
LEMMA CleanupDeletesKeeps ==
    ASSUME BoothInv, NEW v \in Videos, UNCHANGED callVars, CleanupDeletes(v)
    PROVE  BoothTypeOK' /\ OthersRest(v) /\ VideoInv(v)'
  <1> USE DEF BoothInv, CleanupDeletes
  <1>1. /\ video[v].stored
        /\ row[v] # NoRow /\ row[v].upload = "UPLOADED"
        /\ original'[v] = NoFile /\ final'[v] = NoFile
    BY CleanupReleases
  <1>2. /\ row'[v] = row[v] /\ staging'[v] = staging[v]
        /\ capt'[v] = capt[v] /\ repair'[v] = repair[v]
        /\ proc'[v] = proc[v] /\ upl'[v] = upl[v] /\ app' = app
        /\ cleaner'[v].pc = "deleted" /\ cleaner'[v].copy = row[v]
    BY DEF BoothTypeOK
  <1>3. ServerRests(v) /\ PoolsRest(v)
    BY CallsRest, TokensRest
  <1>4. Held(v)' \subseteq Held(v)
    BY <1>1, <1>2 DEF Held
  <1>5. BoothTypeOK'
    <2>1. cleaner' \in [Videos -> CleanupPlaces]
      BY <1>1 DEF BoothTypeOK, CleanupPlaces
    <2>2. /\ original' \in [Videos -> {NoFile, Cut, Whole}]
          /\ final' \in [Videos -> {NoFile, Cut, Whole}]
      BY DEF BoothTypeOK
    <2> QED
      BY <2>1, <2>2 DEF BoothTypeOK, tokensVars, callVars
  <1>6. OthersRest(v)
    BY DEF OthersRest, PhoneRests, BoothTypeOK
  <1>7. CameraInv(v)'
    BY <1>1, <1>2, <1>3
    DEF VideoInv, CameraInv, BeforeRename, SessionOf, ServerRests
  <1>8. JobsInv(v)'
    BY <1>1, <1>2 DEF VideoInv, JobsInv, RepairInv, ProcessInv, UploadInv,
                      CleanupInv
  <1>9. HeldInv(v)'
    BY <1>1, <1>3, <1>4 DEF VideoInv, HeldInv, ServerRests
  <1>10. FilesInv(v)'
    BY <1>1, <1>3 DEF FilesInv, ServerRests
  <1>11. SessionInv(v)'
    BY <1>1, <1>3 DEF VideoInv, SessionInv, SessionOf, ServerRests
  <1>12. TokensInv(v)'
    BY <1>1, <1>2, <1>3, <1>4, TokensFollow DEF VideoInv
  <1> QED
    BY <1>1, <1>2, <1>5, <1>6, <1>7, <1>8, <1>9, <1>10, <1>11, <1>12
    DEF VideoInv

\* SyncRepository.cleanup, the row.
LEMMA CleanupForgetsKeeps ==
    ASSUME BoothInv, NEW v \in Videos, UNCHANGED callVars, CleanupForgets(v)
    PROVE  BoothTypeOK' /\ OthersRest(v) /\ VideoInv(v)'
  <1> DEFINE copy == cleaner[v].copy
             forgotten == [copy EXCEPT !.original = FALSE, !.final = FALSE]
  <1> USE DEF BoothInv, SetRow, Resting
  <1>1. /\ UNCHANGED <<original, final, repair, proc, upl>>
        /\ ServerRests(v)
        /\ PoolsRest(v)
    BY CallsRest, TokensRest DEF CleanupForgets, filesVars
  <1>2. row[v] # NoRow /\ copy # NoRow
    BY DEF CleanupForgets, VideoInv, Untouched, JobsInv, CleanupInv
  <1> USE DEF CleanupForgets
  <1>3. /\ row[v] \in LocalVideo
        /\ copy \in LocalVideo /\ copy \in Held(v) /\ RowFits(v, copy)
    BY <1>2, HeldRows, HeldFits DEF VideoInv
  <1>4. forgotten \in LocalVideo
    BY <1>3 DEF LocalVideo, CaptureStates, ProcessingStates, UploadStates
  <1>5. RowFits(v, forgotten)
    BY <1>3, <1>4 DEF RowFits, RowShape, HasItsFiles, LocalVideo
  <1>6. Writes(v, forgotten)
    BY <1>1, <1>3, <1>4, <1>5 DEF Writes, BoothTypeOK, Held, LocalVideo
  <1>7. BoothTypeOK'
    <2>1. row' \in [Videos -> LocalVideo \cup {NoRow}]
      BY <1>3, <1>4 DEF BoothTypeOK
    <2>2. cleaner' \in [Videos -> CleanupPlaces]
      BY <1>3, <1>4 DEF BoothTypeOK, CleanupPlaces
    <2> QED
      BY <2>1, <2>2 DEF BoothTypeOK, filesVars, tokensVars, callVars
  <1>8. OthersRest(v)
    BY DEF OthersRest, PhoneRests, BoothTypeOK, filesVars
  <1>9. CameraInv(v)'
    BY <1>3
    DEF BoothTypeOK, filesVars, callVars, VideoInv, CameraInv, BeforeRename,
        SessionOf, serverVars
  <1>10. JobsInv(v)'
    <2>1. cleaner'[v] = Resting
      BY <1>3 DEF BoothTypeOK, CleanupPlaces
    <2> QED
      BY <1>3, <2>1, RowsAreNotNoRow
      DEF VideoInv, JobsInv, RepairInv, ProcessInv, UploadInv, CleanupInv
  <1>11. FilesInv(v)'
    BY <1>3
    DEF BoothTypeOK, CleanupPlaces, filesVars, callVars, VideoInv,
        serverVars, FilesInv
  <1> QED
    BY <1>6, <1>7, <1>8, <1>9, <1>10, <1>11, Assembled DEF Proceeds

\* The cleanup worker keeps the invariant of its video.
LEMMA CleanupStepKeeps ==
    ASSUME BoothInv, NEW v \in Videos, UNCHANGED callVars, CleanupStep(v)
    PROVE  BoothTypeOK' /\ OthersRest(v) /\ VideoInv(v)'
  BY CleanupDeletesKeeps, CleanupForgetsKeeps DEF CleanupStep

\* A step of the application as a whole writes no row; a worker keeps its
\* place, begins again, or has just read the row.
LEMMA StartKeepsVideo ==
    ASSUME BoothInv, NEW v \in Videos, UNCHANGED callVars,
           UNCHANGED <<row, tokensVars, filesVars>>,
           app' # "starting" \/ capt'[v] = "none",
           capt'[v] \in {capt[v], "none"},
           \/ repair'[v] \in {repair[v], Resting}
           \/ /\ capt[v] = "none" /\ v \in Interrupted
              /\ repair'[v] = [pc |-> "found", copy |-> row[v]],
           \/ proc'[v] \in {proc[v], Resting}
           \/ row[v] # NoRow /\ proc'[v] = Enqueued,
           \/ upl'[v] \in {upl[v], UploadResting}
           \/ row[v] # NoRow /\ upl'[v] = UploadEnqueued,
           cleaner'[v] \in {cleaner[v], Resting}
    PROVE  VideoInv(v)'
  <1> USE DEF BoothInv, Resting, Enqueued, UploadResting, UploadEnqueued,
              Interrupted
  <1>1. ServerRests(v) /\ PoolsRest(v)
    BY CallsRest, TokensRest
  <1>2. UNCHANGED <<row, original, final, staging>>
    BY DEF filesVars
  <1>3. (row[v] = NoRow => Untouched(v))'
    BY <1>1, <1>2 DEF VideoInv, Untouched, SessionOf, ServerRests
  <1>4. Held(v)' \subseteq Held(v)
    BY <1>2 DEF Held
  <1>5. CameraInv(v)'
    BY <1>1, <1>2
    DEF VideoInv, CameraInv, BeforeRename, SessionOf, ServerRests
  <1>6. RepairInv(v)'
    BY DEF VideoInv, JobsInv, RepairInv
  <1>7. ProcessInv(v)'
    BY DEF VideoInv, JobsInv, ProcessInv
  <1>8. UploadInv(v)'
    BY DEF VideoInv, JobsInv, UploadInv
  <1>9. CleanupInv(v)'
    BY DEF VideoInv, JobsInv, CleanupInv
  <1>10. HeldInv(v)'
    BY <1>1, <1>2, <1>4 DEF VideoInv, HeldInv, HasItsFiles, ServerRests
  <1>11. FilesInv(v)'
    BY <1>1, <1>2 DEF VideoInv, FilesInv, ServerRests
  <1>12. SessionInv(v)'
    BY <1>1, <1>2 DEF VideoInv, SessionInv, SessionOf, ServerRests
  <1>13. TokensInv(v)'
    <2>1. CASE row[v] # NoRow
      BY <1>1, <1>2, <1>4, <2>1, TokensFollow DEF VideoInv
    <2>2. CASE row[v] = NoRow
      <3>1. \A t \in PoolTokens : assigned'[t] # v
        BY <1>1, <2>2 DEF VideoInv, TokensInv, PoolsRest
      <3>2. Held(v)' = {}
        BY <1>2, <1>4, <2>2 DEF VideoInv, Untouched, Held
      <3> QED
        BY <3>1, <3>2 DEF TokensInv, PoolTokens
    <2> QED
      BY <2>1, <2>2
  <1> QED
    BY <1>3, <1>5, <1>6, <1>7, <1>8, <1>9, <1>10, <1>11, <1>12, <1>13
    DEF VideoInv, JobsInv

\* The start of the process: reconcile's list and the two scans.
LEMMA StartStepKeeps ==
    ASSUME BoothInv, UNCHANGED callVars, StartStep
    PROVE  BoothInv'
  <1> USE DEF BoothInv
  <1>1. CASE FindInterrupted
    <2> USE <1>1 DEF FindInterrupted
    <2>1. repair' \in [Videos -> RepairPlaces]
      BY DEF BoothTypeOK, RepairPlaces, Resting, Interrupted
    <2>2. BoothTypeOK'
      BY <2>1 DEF BoothTypeOK, filesVars, tokensVars, callVars
    <2>3. ASSUME NEW v \in Videos
          PROVE  VideoInv(v)'
      <3>1. capt[v] = "none"
        BY DEF VideoInv, CameraInv
      <3> QED
        BY <3>1, StartKeepsVideo
    <2> QED
      BY <2>2, <2>3
  <1>2. CASE EnqueuePendingProcessing
    <2> USE <1>2 DEF EnqueuePendingProcessing, EnqueueProcessing
    <2>1. proc' \in [Videos -> ProcessPlaces]
      BY DEF BoothTypeOK, ProcessPlaces, Enqueued
    <2>2. BoothTypeOK'
      BY <2>1 DEF BoothTypeOK, filesVars, tokensVars, callVars
    <2>3. ASSUME NEW v \in Videos
          PROVE  VideoInv(v)'
      BY StartKeepsVideo DEF PendingProcessing
    <2> QED
      BY <2>2, <2>3
  <1>3. CASE EnqueuePendingUploads
    <2> USE <1>3 DEF EnqueuePendingUploads, EnqueueUpload
    <2>1. upl' \in [Videos -> UploadPlaces]
      BY DEF BoothTypeOK, UploadPlaces, UploadEnqueued
    <2>2. BoothTypeOK'
      BY <2>1 DEF BoothTypeOK, filesVars, tokensVars, callVars
    <2>3. ASSUME NEW v \in Videos
          PROVE  VideoInv(v)'
      BY StartKeepsVideo DEF PendingUploads
    <2> QED
      BY <2>2, <2>3
  <1> QED
    BY <1>1, <1>2, <1>3 DEF StartStep

\* The process dies or is closed, and starts again.
LEMMA RestartKeeps ==
    ASSUME BoothInv, UNCHANGED callVars, Restarts
    PROVE  BoothInv'
  <1> USE DEF BoothInv, Restarts, Rescheduled
  <1>1. proc' \in [Videos -> ProcessPlaces] /\ upl' \in [Videos -> UploadPlaces]
    BY DEF BoothTypeOK, ProcessPlaces, UploadPlaces, Resting, Enqueued,
           UploadResting, UploadEnqueued
  <1>2. /\ repair' \in [Videos -> RepairPlaces]
        /\ cleaner' \in [Videos -> CleanupPlaces]
    BY DEF BoothTypeOK, RepairPlaces, CleanupPlaces, Resting
  <1>3. BoothTypeOK'
    BY <1>1, <1>2 DEF BoothTypeOK, filesVars, tokensVars, callVars
  <1>4. ASSUME NEW v \in Videos
        PROVE  VideoInv(v)'
    <2>1. row[v] = NoRow => proc[v].pc = "none" /\ upl[v].pc = "none"
      BY DEF VideoInv, Untouched
    <2> QED
      BY <2>1, StartKeepsVideo
  <1> QED
    BY <1>3, <1>4

\* One video moves on, the others stay as they are.
LEMMA OneVideoMoves ==
    ASSUME BoothInv, NEW v \in Videos, BoothTypeOK', VideoInv(v)',
           OthersRest(v), app' = app \/ app' # "starting",
           \A w \in Videos \ {v} : ServerRests(w) /\ PoolsRest(w)
    PROVE  BoothInv'
  <1>1. ASSUME NEW w \in Videos, w # v
        PROVE  VideoInv(w)'
    BY <1>1, RestingVideo DEF BoothInv, OthersRest
  <1> QED
    BY <1>1 DEF BoothInv

\* Every step of the phone alone keeps the invariant.
LEMMA CaptureKeepsInv ==
    ASSUME BoothInv, CaptureNext, UNCHANGED callVars
    PROVE  BoothInv'
  <1>1. ASSUME NEW v \in Videos, Prepare(v)
        PROVE  BoothInv'
    BY <1>1, PrepareKeeps, OneVideoMoves, CallsRest DEF Prepare
  <1>2. ASSUME NEW v \in Videos,
               \/ CameraStep(v) /\ ~Prepare(v)
               \/ CompleteStep(v)
               \/ RepairStep(v)
               \/ ProcessStep(v)
               \/ CleanupStep(v)
        PROVE  BoothInv'
    <2>1. BoothTypeOK' /\ OthersRest(v) /\ VideoInv(v)'
      BY <1>2, CameraKeeps, CompleteStepKeeps, RepairStepKeeps,
         ProcessStepKeeps, CleanupStepKeeps DEF CameraStep
    <2>2. UNCHANGED <<app, tokensVars>>
      BY <1>2
      DEF CameraStep, StartRecording, FinishRecording, RecordingFails,
          LeaveScreen, CompleteStep, CompleteMarks, CompleteMoves,
          CompleteCannotMove, CompleteSaves, CompleteEnqueues, RepairStep,
          RepairMarks, RepairMoves, RepairCannotMove, RepairSaves,
          RepairAdopts, RepairGivesUp, RepairEnqueues, ProcessStep,
          ProcessReads, ProcessMarks, ProcessCopies, ProcessCannotCopy,
          ProcessSaves, ProcessEnqueues, ProcessSucceeds, ProcessFails,
          CleanupStep, CleanupDeletes, CleanupForgets
    <2>3. \A w \in Videos \ {v} : ServerRests(w) /\ PoolsRest(w)
      BY <2>2, CallsRest, TokensRest
    <2> QED
      BY <2>1, <2>2, <2>3, OneVideoMoves
  <1>3. CASE StartStep
    BY <1>3, StartStepKeeps
  <1>4. CASE Crash \/ ReopenApp
    BY <1>4, RestartKeeps DEF Crash, ReopenApp
  <1> QED
    BY <1>1, <1>2, <1>3, <1>4 DEF CaptureNext, CameraStep

-----------------------------------------------------------------------------
(***************************************************************************)
(* The upload worker.                                                      *)
(***************************************************************************)
LEMMA UploadCopy ==
    ASSUME BoothInv, NEW v \in Videos, upl[v].pc \notin {"none", "enqueued"}
    PROVE  /\ row[v] \in LocalVideo /\ row[v] \in Held(v)
           /\ RowFits(v, row[v])
           /\ upl[v].copy \in LocalVideo /\ upl[v].copy \in Held(v)
           /\ RowFits(v, upl[v].copy)
  <1>1. row[v] # NoRow
    BY DEF BoothInv, VideoInv, Untouched
  <1>2. upl[v].copy # NoRow
    BY DEF BoothInv, VideoInv, JobsInv, UploadInv
  <1> QED
    BY <1>1, <1>2, HeldRows, HeldFits DEF BoothInv, VideoInv

\* The worker goes on without writing the row.
LEMMA UploadMoves ==
    ASSUME BoothInv, NEW v \in Videos, NEW u \in UploadPlaces,
           UNCHANGED phoneVars, known' \in [Videos -> BOOLEAN],
           upl' = [upl EXCEPT ![v] = u],
           row[v] # NoRow, u.copy \in {row[v], upl[v].copy, NoRow},
           UploadInv(v)'
    PROVE  /\ BoothTypeOK'
           /\ OthersRest(v)
           /\ PoolsRest(v)
           /\ JobsInv(v)'
           /\ Held(v)' \subseteq Held(v)
           /\ ServerRests(v) => VideoInv(v)'
  <1> USE DEF BoothInv, phoneVars
  <1>1. BoothTypeOK'
    BY DEF BoothTypeOK, filesVars, tokensVars
  <1>2. OthersRest(v)
    BY DEF OthersRest, PhoneRests, BoothTypeOK, filesVars
  <1>3. PoolsRest(v)
    BY TokensRest
  <1>4. JobsInv(v)'
    BY DEF VideoInv, JobsInv, RepairInv, ProcessInv, CleanupInv
  <1>5. upl'[v] = u
    BY DEF BoothTypeOK
  <1>6. Held(v)' \subseteq Held(v)
    BY <1>5 DEF Held
  <1>7. ASSUME ServerRests(v)
        PROVE  VideoInv(v)'
    <2>1. Writes(v, row[v])
      BY <1>3, <1>6, <1>7, KeptRows DEF filesVars
    <2>2. CameraInv(v)'
      BY <1>7
      DEF VideoInv, CameraInv, BeforeRename, SessionOf, ServerRests,
          filesVars
    <2>3. FilesInv(v)'
      BY <1>7 DEF VideoInv, FilesInv, ServerRests, filesVars
    <2> QED
      BY <1>1, <1>2, <1>4, <2>1, <2>2, <2>3, Assembled DEF Proceeds
  <1> QED
    BY <1>1, <1>2, <1>3, <1>4, <1>6, <1>7

\* The steps that neither write the row nor call the server.
LEMMA UploadWaits ==
    ASSUME BoothInv, NEW v \in Videos,
           UploadReads(v) \/ UploadSucceeds(v) \/ UploadRefused(v)
    PROVE  BoothTypeOK' /\ OthersRest(v) /\ VideoInv(v)'
  <1> USE DEF BoothInv, UplThrows, UplEnds, UploadResting, callVars
  <1>1. row[v] # NoRow /\ row[v] \in LocalVideo
    BY DEF VideoInv, Untouched, UploadReads, UploadSucceeds, UploadRefused,
           BoothTypeOK
  <1>2. ServerRests(v) /\ UNCHANGED phoneVars /\ known' = known
    BY CallsRest DEF UploadReads, UploadSucceeds, UploadRefused
  <1>3. CASE UploadReads(v)
    <2> DEFINE pc == IF ~(row[v].final /\ final[v] # NoFile) THEN "missing"
                     ELSE IF row[v].token = NoToken THEN "reserving"
                          ELSE "marking"
               u == [pc |-> pc, copy |-> row[v], todo |-> {}]
    <2>1. u \in UploadPlaces
      BY <1>1 DEF UploadPlaces
    <2>2. upl' = [upl EXCEPT ![v] = u]
      BY <1>3 DEF UploadReads
    <2>3. upl'[v] = u
      BY <2>2 DEF BoothTypeOK
    <2>4. UploadInv(v)'
      BY <1>1, <2>3 DEF UploadInv
    <2> HIDE DEF u
    <2>5. u.copy = row[v]
      BY DEF u
    <2> QED
      BY <1>1, <1>2, <2>1, <2>2, <2>4, <2>5, UploadMoves DEF BoothTypeOK
  <1>4. CASE UploadSucceeds(v)
    <2>1. UploadResting \in UploadPlaces /\ UploadResting.copy = NoRow
      BY DEF UploadPlaces
    <2>2. upl' = [upl EXCEPT ![v] = UploadResting]
      BY <1>4 DEF UploadSucceeds
    <2>3. UploadInv(v)'
      BY <2>2 DEF UploadInv, BoothTypeOK
    <2> QED
      BY <1>1, <1>2, <2>1, <2>2, <2>3, UploadMoves DEF BoothTypeOK
  <1>5. CASE UploadRefused(v)
    <2> DEFINE u == [pc |-> "refused", copy |-> row[v], todo |-> {}]
    <2>1. u \in UploadPlaces /\ u.copy = row[v]
      BY <1>1 DEF UploadPlaces
    <2>2. upl' = [upl EXCEPT ![v] = u]
      BY <1>5 DEF UploadRefused
    <2>3. UploadInv(v)'
      BY <1>1, <2>2 DEF UploadInv, BoothTypeOK
    <2> QED
      BY <1>1, <1>2, <2>1, <2>2, <2>3, UploadMoves DEF BoothTypeOK
  <1> QED
    BY <1>3, <1>4, <1>5

\* The session of a video was opened for it, with the file that is there.
LEMMA SessionRequest ==
    ASSUME BoothInv, NEW v \in Videos, session[SessionOf(v)].status # "NONE"
    PROVE  \E t \in Tokens, c \in {Cut, Whole} :
              LET r == session[SessionOf(v)].req IN
              /\ r = RequestFor(v, t, c)
              /\ r.video = v /\ r.token = t
              /\ r.size = SizeOf[c] /\ r.sha = ShaOf[c]
              /\ {original[v], final[v]} \subseteq {NoFile, c}
              /\ ~video[v].stored => final[v] = c
              /\ video[v].stored => videoFile[v] = ShaOf[c]
  <1>1. PICK t \in Tokens, c \in {Cut, Whole} :
            /\ session[SessionOf(v)].req = RequestFor(v, t, c)
            /\ {original[v], final[v]} \subseteq {NoFile, c}
            /\ ~video[v].stored => final[v] = c
            /\ video[v].stored => videoFile[v] = ShaOf[c]
    BY DEF BoothInv, VideoInv, SessionInv
  <1>2. LET r == RequestFor(v, t, c) IN
            /\ r.video = v /\ r.token = t
            /\ r.size = SizeOf[c] /\ r.sha = ShaOf[c]
    BY DEF RequestFor
  <1> QED
    BY <1>1, <1>2

\* The server is believed only about what it stores.
LEMMA AnswerIsTrue ==
    ASSUME BoothInv, U!UploadsInv, NEW v \in Videos,
           reply[SessionOf(v)] = "completed"
    PROVE  video[v].stored
  <1>1. SessionOf(v) \in U!Sessions
    BY BoothAssumption DEF BoothAssumption, SessionOf, U!Sessions
  <1>2. session[SessionOf(v)].status = "COMPLETED"
    BY <1>1 DEF U!UploadsInv, U!AnswersFollowCommits
  <1>3. session[SessionOf(v)].req.video = v
    BY <1>2, SessionRequest
  <1> QED
    BY <1>1, <1>2, <1>3 DEF U!UploadsInv, U!AnswersFollowCommits

\* The steps that write the row.
LEMMA UploadWrites ==
    ASSUME BoothInv, U!UploadsInv, NEW v \in Videos,
           \/ UploadMissesFile(v) \/ UploadMarks(v)
           \/ UploadSaves(v) \/ UploadNotes(v)
    PROVE  BoothTypeOK' /\ OthersRest(v) /\ VideoInv(v)'
  <1> DEFINE copy == upl[v].copy
             missed == [copy EXCEPT !.upload = "FAILED"]
             marked == [copy EXCEPT !.upload = "UPLOADING"]
             uploaded == [copy EXCEPT !.upload = "UPLOADED",
                                      !.uploadedAt = TRUE]
  <1> USE DEF BoothInv, SetRow, UplTo, UplEnds, UploadResting, UploadEnqueued
  <1>1. /\ UNCHANGED <<original, final, repair, proc, cleaner>>
        /\ UNCHANGED callVars
        /\ ServerRests(v)
        /\ PoolsRest(v)
    BY CallsRest, TokensRest
    DEF UploadMissesFile, UploadMarks, UploadSaves, UploadNotes, filesVars
  <1>2. ASSUME NEW r \in LocalVideo, row' = [row EXCEPT ![v] = r],
               RowFits(v, r), r.token = copy.token,
               copy \in Held(v), row[v] \in LocalVideo,
               upl'[v].copy \in {copy, NoRow}
        PROVE  Writes(v, r)
    BY <1>1, <1>2 DEF Writes, BoothTypeOK, Held
  <1>3. CASE UploadMissesFile(v)
    <2> USE <1>3 DEF UploadMissesFile
    <2>1. /\ row[v] \in LocalVideo /\ copy \in LocalVideo
          /\ copy \in Held(v) /\ RowFits(v, copy)
      BY UploadCopy
    <2>2. missed \in LocalVideo
      BY <2>1 DEF LocalVideo, CaptureStates, ProcessingStates, UploadStates
    <2>3. RowFits(v, missed)
      BY <2>1, <2>2 DEF RowFits, RowShape, HasItsFiles, LocalVideo
    <2>4. Writes(v, missed)
      BY <1>2, <2>1, <2>2, <2>3 DEF BoothTypeOK, UploadPlaces, LocalVideo
    <2>5. BoothTypeOK'
      <3>1. row' \in [Videos -> LocalVideo \cup {NoRow}]
        BY <2>1, <2>2 DEF BoothTypeOK
      <3>2. upl' \in [Videos -> UploadPlaces]
        BY <2>1, <2>2 DEF BoothTypeOK, UploadPlaces
      <3> QED
        BY <3>1, <3>2 DEF BoothTypeOK, filesVars, tokensVars, callVars
    <2>6. OthersRest(v)
      BY DEF OthersRest, PhoneRests, BoothTypeOK, filesVars
    <2>7. CameraInv(v)'
      BY <2>1
      DEF BoothTypeOK, filesVars, callVars, VideoInv, CameraInv, BeforeRename,
          SessionOf, serverVars
    <2>8. JobsInv(v)'
      <3>1. upl'[v] = UploadResting
        BY <2>1 DEF BoothTypeOK, UploadPlaces
      <3> QED
        BY <2>1, <3>1, RowsAreNotNoRow
        DEF VideoInv, JobsInv, RepairInv, ProcessInv, UploadInv, CleanupInv
    <2>9. FilesInv(v)'
      BY <2>1
      DEF BoothTypeOK, UploadPlaces, filesVars, callVars, VideoInv, serverVars,
          FilesInv
    <2> QED
      BY <2>4, <2>5, <2>6, <2>7, <2>8, <2>9, Assembled DEF Proceeds
  <1>4. CASE UploadMarks(v)
    <2> USE <1>4 DEF UploadMarks
    <2>1. /\ row[v] \in LocalVideo /\ copy \in LocalVideo
          /\ copy \in Held(v) /\ RowFits(v, copy)
      BY UploadCopy
    <2>2. marked \in LocalVideo
      BY <2>1 DEF LocalVideo, CaptureStates, ProcessingStates, UploadStates
    <2>3. RowFits(v, marked)
      BY <2>1, <2>2 DEF RowFits, RowShape, HasItsFiles, LocalVideo
    <2>4. Writes(v, marked)
      BY <1>2, <2>1, <2>2, <2>3 DEF BoothTypeOK, UploadPlaces, LocalVideo
    <2>5. BoothTypeOK'
      <3>1. row' \in [Videos -> LocalVideo \cup {NoRow}]
        BY <2>1, <2>2 DEF BoothTypeOK
      <3>2. upl' \in [Videos -> UploadPlaces]
        BY <2>1, <2>2 DEF BoothTypeOK, UploadPlaces
      <3> QED
        BY <3>1, <3>2 DEF BoothTypeOK, filesVars, tokensVars, callVars
    <2>6. OthersRest(v)
      BY DEF OthersRest, PhoneRests, BoothTypeOK, filesVars
    <2>7. CameraInv(v)'
      BY <2>1
      DEF BoothTypeOK, filesVars, callVars, VideoInv, CameraInv, BeforeRename,
          SessionOf, serverVars
    <2>8. JobsInv(v)'
      <3>1. upl'[v].pc = "opening" /\ upl'[v].copy = copy
        BY <2>1 DEF BoothTypeOK, UploadPlaces
      <3> QED
        BY <2>1, <3>1, RowsAreNotNoRow
        DEF VideoInv, JobsInv, RepairInv, ProcessInv, UploadInv, CleanupInv
    <2>9. FilesInv(v)'
      BY <2>1
      DEF BoothTypeOK, UploadPlaces, filesVars, callVars, VideoInv, serverVars,
          FilesInv
    <2> QED
      BY <2>4, <2>5, <2>6, <2>7, <2>8, <2>9, Assembled DEF Proceeds
  <1>5. CASE UploadSaves(v)
    <2> USE <1>5 DEF UploadSaves
    <2>1. /\ row[v] \in LocalVideo /\ copy \in LocalVideo
          /\ copy \in Held(v) /\ RowFits(v, copy)
      BY UploadCopy
    <2>2. uploaded \in LocalVideo
      BY <2>1 DEF LocalVideo, CaptureStates, ProcessingStates, UploadStates
    <2>3. RowFits(v, uploaded)
      BY <2>1, <2>2, AnswerIsTrue
      DEF RowFits, RowShape, LocalVideo, VideoInv, JobsInv, UploadInv
    <2>4. Writes(v, uploaded)
      BY <1>2, <2>1, <2>2, <2>3 DEF BoothTypeOK, UploadPlaces, LocalVideo
    <2>5. BoothTypeOK'
      <3>1. row' \in [Videos -> LocalVideo \cup {NoRow}]
        BY <2>1, <2>2 DEF BoothTypeOK
      <3>2. upl' \in [Videos -> UploadPlaces]
        BY <2>1, <2>2 DEF BoothTypeOK, UploadPlaces
      <3> QED
        BY <3>1, <3>2 DEF BoothTypeOK, filesVars, tokensVars, callVars
    <2>6. OthersRest(v)
      BY DEF OthersRest, PhoneRests, BoothTypeOK, filesVars
    <2>7. CameraInv(v)'
      BY <2>1
      DEF BoothTypeOK, filesVars, callVars, VideoInv, CameraInv, BeforeRename,
          SessionOf, serverVars
    <2>8. JobsInv(v)'
      <3>1. upl'[v].pc = "succeeded" /\ upl'[v].copy = copy
        BY <2>1 DEF BoothTypeOK, UploadPlaces
      <3> QED
        BY <2>1, <3>1, RowsAreNotNoRow
        DEF VideoInv, JobsInv, RepairInv, ProcessInv, UploadInv, CleanupInv
    <2>9. FilesInv(v)'
      BY <2>1
      DEF BoothTypeOK, UploadPlaces, filesVars, callVars, VideoInv, serverVars,
          FilesInv
    <2> QED
      BY <2>4, <2>5, <2>6, <2>7, <2>8, <2>9, Assembled DEF Proceeds
  <1>6. CASE UploadNotes(v)
    <2> USE <1>6 DEF UploadNotes
    <2>1. /\ row[v] \in LocalVideo /\ copy \in LocalVideo
          /\ copy \in Held(v) /\ RowFits(v, copy)
      BY UploadCopy
    <2>2. copy \in LocalVideo
      BY <2>1
    <2>3. RowFits(v, copy)
      BY <2>1
    <2>4. Writes(v, copy)
      BY <1>2, <2>1, <2>2, <2>3 DEF BoothTypeOK, UploadPlaces, LocalVideo
    <2>5. BoothTypeOK'
      <3>1. row' \in [Videos -> LocalVideo \cup {NoRow}]
        BY <2>1, <2>2 DEF BoothTypeOK
      <3>2. upl' \in [Videos -> UploadPlaces]
        BY <2>1, <2>2 DEF BoothTypeOK, UploadPlaces
      <3> QED
        BY <3>1, <3>2 DEF BoothTypeOK, filesVars, tokensVars, callVars
    <2>6. OthersRest(v)
      BY DEF OthersRest, PhoneRests, BoothTypeOK, filesVars
    <2>7. CameraInv(v)'
      BY <2>1
      DEF BoothTypeOK, filesVars, callVars, VideoInv, CameraInv, BeforeRename,
          SessionOf, serverVars
    <2>8. JobsInv(v)'
      <3>1. upl'[v] \in {UploadResting, UploadEnqueued}
        BY <2>1 DEF BoothTypeOK, UploadPlaces
      <3> QED
        BY <2>1, <3>1, RowsAreNotNoRow
        DEF VideoInv, JobsInv, RepairInv, ProcessInv, UploadInv, CleanupInv
    <2>9. FilesInv(v)'
      BY <2>1
      DEF BoothTypeOK, UploadPlaces, filesVars, callVars, VideoInv, serverVars,
          FilesInv
    <2> QED
      BY <2>4, <2>5, <2>6, <2>7, <2>8, <2>9, Assembled DEF Proceeds
  <1> QED
    BY <1>3, <1>4, <1>5, <1>6

\* reserve_tokens and claim: only a video without a token asks, and then the
\* phone has no token of Pools left that it could be given.
LEMMA ReserveKeeps ==
    ASSUME BoothInv, NEW v \in Videos, UploadReserves(v)
    PROVE  /\ BoothTypeOK' /\ OthersRest(v) /\ VideoInv(v)'
           /\ \A w \in Videos : PoolsRest(w)
  <1> DEFINE copy == upl[v].copy
             new == CHOOSE t \in NewTokens : TRUE
             available == shelf \cup {new}
  <1> USE DEF BoothInv
  <1>1. /\ row[v] \in LocalVideo /\ copy \in LocalVideo
        /\ copy \in Held(v) /\ RowFits(v, copy)
        /\ copy.final /\ copy.token = NoToken /\ row[v] # NoRow
    BY UploadCopy, RowsAreNotNoRow
    DEF UploadReserves, VideoInv, JobsInv, UploadInv
  <1>2. new \in Tokens \ PoolTokens
    BY DEF UploadReserves, NewTokens, PoolTokens
  <1>3. shelf \cap PoolTokens = {}
    BY <1>1 DEF VideoInv, TokensInv
  <1>4. PICK t \in available :
            /\ shelf' = available \ {t}
            /\ assigned' = [assigned EXCEPT ![t] = v]
            /\ row' = [row EXCEPT ![v] = [copy EXCEPT !.token = t]]
            /\ upl' = [upl EXCEPT ![v].pc = "marking", ![v].copy.token = t]
    BY DEF UploadReserves, Claims, SetRow
  <1>5. t \in Tokens \ PoolTokens /\ t # NoToken
    <2>1. shelf \subseteq Tokens
      BY DEF BoothTypeOK
    <2>2. NoToken \notin Tokens
      BY CaptureAssumption DEF CaptureAssumption
    <2> HIDE DEF new
    <2> QED
      BY <1>2, <1>3, <2>1, <2>2
  <1> DEFINE claimed == [copy EXCEPT !.token = t]
  <1>6. claimed \in LocalVideo /\ claimed.token = t
    BY <1>1, <1>5 DEF LocalVideo
  <1>7. /\ upl' = [upl EXCEPT ![v] = [upl[v] EXCEPT !.pc = "marking",
                                                     !.copy = claimed]]
        /\ upl'[v].pc = "marking" /\ upl'[v].copy = claimed
        /\ row'[v] = claimed
    BY <1>4 DEF BoothTypeOK, UploadPlaces
  <1>8. /\ UNCHANGED <<filesVars, app, capt, repair, proc, cleaner, callVars>>
        /\ ServerRests(v)
    BY CallsRest DEF UploadReserves
  <1> HIDE DEF claimed
  <1>9. BoothTypeOK'
    <2>1. row' \in [Videos -> LocalVideo \cup {NoRow}]
      BY <1>4, <1>6 DEF BoothTypeOK, claimed
    <2>2. upl' \in [Videos -> UploadPlaces]
      BY <1>6, <1>7 DEF BoothTypeOK, UploadPlaces
    <2>3. shelf' \subseteq Tokens
      BY <1>2, <1>4 DEF BoothTypeOK
    <2>4. assigned' \in [Tokens -> Videos \cup {NoVideo}]
      BY <1>4 DEF BoothTypeOK
    <2> QED
      BY <1>8, <2>1, <2>2, <2>3, <2>4 DEF BoothTypeOK, filesVars, callVars
  <1>10. OthersRest(v)
    BY <1>4, <1>8 DEF OthersRest, PhoneRests, BoothTypeOK, filesVars
  <1>11. ASSUME NEW w \in Videos
         PROVE  PoolsRest(w)
    <2>1. shelf' \cap PoolTokens = {}
      BY <1>2, <1>3, <1>4
    <2>2. ASSUME NEW p \in PoolTokens, assigned'[p] = w
          PROVE  assigned[p] = w
      BY <1>4, <1>5, <2>2, CaptureAssumption
      DEF BoothTypeOK, CaptureAssumption, PoolTokens
    <2> QED
      BY <2>1, <2>2 DEF PoolsRest
  <1>12. Held(v)' \subseteq Held(v) \cup {claimed}
    BY <1>7, <1>8 DEF Held, BoothTypeOK
  <1>13. RowFits(v, claimed)
    BY <1>1, <1>6 DEF RowFits, RowShape, HasItsFiles, LocalVideo, claimed
  <1>14. CameraInv(v)'
    BY <1>8 DEF VideoInv, CameraInv, BeforeRename, SessionOf, ServerRests,
                filesVars
  <1>15. JobsInv(v)'
    BY <1>1, <1>5, <1>6, <1>7, <1>8, RowsAreNotNoRow
    DEF VideoInv, JobsInv, RepairInv, ProcessInv, UploadInv, CleanupInv,
        claimed, LocalVideo
  <1>16. HeldInv(v)'
    BY <1>8, <1>12, <1>13
    DEF VideoInv, HeldInv, RowFits, HasItsFiles, ServerRests, filesVars
  <1>17. FilesInv(v)'
    BY <1>8 DEF VideoInv, FilesInv, ServerRests, filesVars
  <1>18. SessionInv(v)'
    BY <1>8 DEF VideoInv, SessionInv, SessionOf, ServerRests, filesVars
  <1>19. TokensInv(v)'
    <2>1. ASSUME NEW p \in PoolTokens
          PROVE  assigned'[p] # v
      <3>1. p # NoToken
        BY CaptureAssumption DEF CaptureAssumption, PoolTokens
      <3> QED
        BY <1>1, <1>11, <3>1 DEF VideoInv, TokensInv, PoolsRest
    <2> QED
      BY <1>3, <1>11, <2>1 DEF TokensInv, PoolsRest, PoolTokens
  <1>20. row'[v] # NoRow
    BY <1>6, <1>7, RowsAreNotNoRow
  <1> QED
    BY <1>9, <1>10, <1>11, <1>14, <1>15, <1>16, <1>17, <1>18, <1>19, <1>20
    DEF VideoInv

-----------------------------------------------------------------------------
(***************************************************************************)
(* The server's side of a call.                                            *)
(***************************************************************************)
LEMMA SessionsDiffer ==
    /\ \A v \in Videos : SessionOf(v) \in Server!Sessions
    /\ \A v, w \in Videos : SessionOf(v) = SessionOf(w) => v = w
  BY BoothAssumption DEF BoothAssumption, SessionOf, Server!Sessions

\* The rows of sessions and videos are records.
LEMMA ServerRows ==
    ASSUME U!UploadsInv
    PROVE  /\ session \in [Server!Sessions -> U!SessionRow]
           /\ video \in [Videos -> U!VideoRow]
           /\ DOMAIN videoFile = Videos
  BY DEF U!UploadsInv, U!TypeOK, U!Sessions, Server!Sessions

\* Parts, expirations and callbacks leave what the booth relies on.
LEMMA PartRests ==
    ASSUME BoothInv, U!UploadsInv, NEW v \in Videos, NEW n, NEW b,
           CallPart(SessionOf(v), n, b), NEW w \in Videos
    PROVE  ServerRests(w)
  BY ServerRows, SessionsDiffer
  DEF CallPart, Server!StoreUploadPart, Server!PutsPart, Server!Active,
      Server!ActiveStatuses, ServerRests, serverVars, U!SessionRow,
      U!VideoRow

\* Callbacks, expirations and the end of an event leave what the booth relies
\* on.
LEMMA ServerStepRests ==
    ASSUME BoothInv, U!UploadsInv, ServerStep, NEW w \in Videos
    PROVE  ServerRests(w)
  <1>1. CASE \E h \in hooks : Server!RunHooks(h)
    BY <1>1 DEF Server!RunHooks, Server!rows, ServerRests
  <1>2. ASSUME NEW v \in Videos, Server!Lapse(SessionOf(v))
        PROVE  ServerRests(w)
    BY <1>2, ServerRows, SessionsDiffer
    DEF Server!Lapse, Server!files, ServerRests, U!SessionRow
  <1>3. ASSUME NEW v \in Videos, Server!CleanupExpired(SessionOf(v))
        PROVE  ServerRests(w)
    BY <1>3, ServerRows, SessionsDiffer
    DEF Server!CleanupExpired, Server!IsExpired, Server!CloseSession,
        Server!Active, Server!ActiveStatuses, Server!files, ServerRests,
        U!SessionRow, U!VideoRow
  <1>4. CASE \E e \in Events : Server!DestroyEvent(e)
    BY <1>4 DEF Server!DestroyEvent, Server!files, ServerRests
  <1> QED
    BY <1>1, <1>2, <1>3, <1>4 DEF ServerStep

\* What the worker asks for is a request the server may be sent.
LEMMA RequestIsSent ==
    ASSUME BoothInv, NEW v \in Videos, upl[v].pc = "opening",
           final[v] # NoFile
    PROVE  /\ CurrentRequest(v) \in Requests
           /\ upl[v].copy.token \in Tokens
           /\ final[v] \in {Cut, Whole}
           /\ CurrentRequest(v).operator = Owner
           /\ CurrentRequest(v).key = KeyOf[v]
           /\ CurrentRequest(v).video = v
           /\ CurrentRequest(v).token = upl[v].copy.token
           /\ CurrentRequest(v).size = SizeOf[final[v]]
  <1>1. upl[v].copy \in LocalVideo /\ upl[v].copy.token # NoToken
    BY UploadCopy DEF BoothInv, VideoInv, JobsInv, UploadInv
  <1>2. upl[v].copy.token \in Tokens
    BY <1>1 DEF LocalVideo
  <1>3. final[v] \in {Cut, Whole}
    BY DEF BoothInv, BoothTypeOK
  <1> QED
    BY <1>2, <1>3, BoothAssumption
    DEF BoothAssumption, CurrentRequest, RequestFor

\* POST /uploads/ opens the one session of the video, as it is recorded.
LEMMA CreateOpens ==
    ASSUME BoothInv, U!UploadsInv, NEW v \in Videos, upl[v].pc = "opening",
           final[v] # NoFile, Server!CreateUploadSession(CurrentRequest(v))
    PROVE  /\ session[SessionOf(v)].status = "NONE"
           /\ session'[SessionOf(v)].status = "CREATED"
           /\ session'[SessionOf(v)].req = CurrentRequest(v)
           /\ ~video[v].stored /\ ~video'[v].stored
           /\ \A w \in Videos \ {v} : ServerRests(w)
  <1> DEFINE r == CurrentRequest(v)
  <1> USE DEF Server!CreateUploadSession
  <1>1. /\ r.operator = Owner /\ r.key = KeyOf[v] /\ r.video = v
        /\ <<r.operator, r.key>> = SessionOf(v)
    BY RequestIsSent DEF SessionOf
  <1> HIDE DEF r
  <1>2. session[SessionOf(v)].status = "NONE"
    BY <1>1 DEF r
  <1>3. /\ session'[SessionOf(v)].status = "CREATED"
        /\ session'[SessionOf(v)].req = r
    BY <1>1, SessionsDiffer DEF r
  <1>4. ~video[v].stored
    BY <1>2 DEF BoothInv, VideoInv, SessionInv
  <1>5. ASSUME NEW w \in Videos
        PROVE  video'[w].stored = video[w].stored
    <2>1. \/ video' = video
          \/ video' = [video EXCEPT ![v] = [status |-> "PENDING_UPLOAD",
                                            req |-> r, stored |-> FALSE]]
      BY <1>1 DEF r
    <2> QED
      BY <1>4, <2>1, ServerRows DEF U!VideoRow
  <1>6. ASSUME NEW w \in Videos \ {v}
        PROVE  ServerRests(w)
    <2>1. SessionOf(w) \in Server!Sessions /\ SessionOf(w) # SessionOf(v)
      BY SessionsDiffer
    <2>2. \/ session'[SessionOf(w)] = session[SessionOf(w)]
          \/ /\ session'[SessionOf(w)] =
                    [session[SessionOf(w)] EXCEPT !.status = "EXPIRED"]
             /\ Server!Active(SessionOf(w))
      BY <1>1, <2>1 DEF r
    <2>3. videoFile' = videoFile
      BY DEF Server!files
    <2> QED
      BY <1>5, <2>1, <2>2, <2>3, ServerRows
      DEF ServerRests, Server!Active, Server!ActiveStatuses, U!SessionRow
  <1> QED
    BY <1>2, <1>3, <1>4, <1>5, <1>6 DEF r

\* complete: the video is stored, as its session declared it.
LEMMA CompleteStores ==
    ASSUME BoothInv, U!UploadsInv, NEW v \in Videos,
           Server!CompleteUploadSession(SessionOf(v))
    PROVE  /\ session[SessionOf(v)].status # "NONE"
           /\ ~video[v].stored
           /\ session'[SessionOf(v)].status = "COMPLETED"
           /\ session'[SessionOf(v)].req = session[SessionOf(v)].req
           /\ video'[v].stored
           /\ videoFile'[v] = session[SessionOf(v)].req.sha
           /\ \A w \in Videos \ {v} : ServerRests(w)
  <1> DEFINE s == SessionOf(v)
  <1> USE DEF Server!CompleteUploadSession
  <1>1. session[s].status \in {"CREATED", "RECEIVING", "VERIFYING"}
    BY DEF Server!ComposeAttempt, Server!Active, Server!ActiveStatuses
  <1>2. session[s].req.video = v
    BY <1>1, SessionRequest
  <1>3. ~video[v].stored
    BY <1>1 DEF BoothInv, VideoInv, SessionInv
  <1>4. /\ session' = [session EXCEPT ![s].status = "COMPLETED"]
        /\ video' = [video EXCEPT ![v].status = "UPLOADED",
                                  ![v].stored = TRUE]
        /\ videoFile' = [videoFile EXCEPT ![v] = session[s].req.sha]
    BY <1>2 DEF Server!DigestMatches
  <1>5. s \in Server!Sessions
    BY SessionsDiffer
  <1> HIDE DEF s
  <1>6. /\ session'[s].status = "COMPLETED"
        /\ session'[s].req = session[s].req
    BY <1>4, <1>5, ServerRows DEF U!SessionRow
  <1>7. video'[v].stored /\ videoFile'[v] = session[s].req.sha
    BY <1>4, ServerRows DEF U!VideoRow
  <1>8. ASSUME NEW w \in Videos \ {v}
        PROVE  ServerRests(w)
    BY <1>4, <1>5, SessionsDiffer, ServerRows DEF ServerRests, s
  <1> QED
    BY <1>1, <1>3, <1>6, <1>7, <1>8 DEF s

\* A repeated complete only answers.
LEMMA CompleteAgainRests ==
    ASSUME NEW v \in Videos, Server!CompleteAgain(SessionOf(v)),
           NEW w \in Videos
    PROVE  ServerRests(w)
  BY DEF Server!CompleteAgain, Server!rows, Server!files, ServerRests

-----------------------------------------------------------------------------
(***************************************************************************)
(* The steps of the upload worker that call the server.                    *)
(***************************************************************************)
\* What the call does to the video, whatever the worker does then.
CallKeeps(v) ==
    \/ ServerRests(v)
    \/ /\ upl[v].pc = "opening"
       /\ final[v] # NoFile
       /\ Server!CreateUploadSession(CurrentRequest(v))
    \/ Server!CompleteUploadSession(SessionOf(v))

\* A call keeps the invariant of its video, wherever the worker goes.
LEMMA CallKeepsVideo ==
    ASSUME BoothInv, U!UploadsInv, NEW v \in Videos, CallKeeps(v),
           NEW u \in UploadPlaces, upl' = [upl EXCEPT ![v] = u],
           UNCHANGED phoneVars, known' \in [Videos -> BOOLEAN],
           row[v] # NoRow, u.copy \in {row[v], upl[v].copy, NoRow},
           UploadInv(v)'
    PROVE  BoothTypeOK' /\ OthersRest(v) /\ PoolsRest(v) /\ VideoInv(v)'
  <1> USE DEF BoothInv
  <1>1. /\ BoothTypeOK' /\ OthersRest(v) /\ PoolsRest(v) /\ JobsInv(v)'
        /\ Held(v)' \subseteq Held(v)
        /\ ServerRests(v) => VideoInv(v)'
    BY UploadMoves
  <1>2. /\ UNCHANGED <<row, staging, original, final, capt, repair, proc,
                       app, assigned, shelf>>
    BY DEF phoneVars, filesVars, tokensVars
  <1>3. CASE ServerRests(v)
    BY <1>1, <1>3
  <1>4. CASE /\ upl[v].pc = "opening"
             /\ final[v] # NoFile
             /\ Server!CreateUploadSession(CurrentRequest(v))
    <2>1. /\ session[SessionOf(v)].status = "NONE"
          /\ session'[SessionOf(v)].status = "CREATED"
          /\ session'[SessionOf(v)].req = CurrentRequest(v)
          /\ ~video[v].stored /\ ~video'[v].stored
      BY <1>4, CreateOpens
    <2>2. /\ upl[v].copy.token \in Tokens /\ final[v] \in {Cut, Whole}
          /\ CurrentRequest(v).token = upl[v].copy.token
      BY <1>4, RequestIsSent
    <2>3. upl[v].copy \in Held(v)
      BY <1>4, UploadCopy
    <2>4. CameraInv(v)'
      BY <1>2, <1>4 DEF VideoInv, CameraInv, BeforeRename
    <2>5. HeldInv(v)'
      BY <1>1, <1>2, <2>1 DEF VideoInv, HeldInv, HasItsFiles
    <2>6. FilesInv(v)'
      BY <1>2, <2>1 DEF VideoInv, FilesInv
    <2>7. SessionInv(v)'
      <3>1. final[v] = original[v]
        BY <1>4, <2>1 DEF VideoInv, FilesInv
      <3>2. session'[SessionOf(v)].req =
                RequestFor(v, upl[v].copy.token, final[v])
        BY <2>1 DEF CurrentRequest
      <3> QED
        BY <1>2, <2>1, <2>2, <3>1, <3>2
        DEF SessionInv, SessionOf, RequestFor
    <2>8. TokensInv(v)'
      BY <1>1, <1>2, <2>1, <2>2, <2>3
      DEF VideoInv, TokensInv, SessionOf, PoolTokens
    <2> QED
      BY <1>1, <1>2, <2>4, <2>5, <2>6, <2>7, <2>8 DEF VideoInv
  <1>5. CASE Server!CompleteUploadSession(SessionOf(v))
    <2>1. /\ session[SessionOf(v)].status # "NONE"
          /\ ~video[v].stored
          /\ session'[SessionOf(v)].status = "COMPLETED"
          /\ session'[SessionOf(v)].req = session[SessionOf(v)].req
          /\ video'[v].stored
          /\ videoFile'[v] = session[SessionOf(v)].req.sha
      BY <1>5, CompleteStores
    <2>2. CameraInv(v)'
      BY <1>2, <2>1 DEF VideoInv, CameraInv, BeforeRename
    <2>3. HeldInv(v)'
      BY <1>1, <2>1 DEF VideoInv, HeldInv
    <2>4. FilesInv(v)'
      BY <2>1 DEF FilesInv
    <2>5. SessionInv(v)'
      <3>1. PICK t \in Tokens, c \in {Cut, Whole} :
                /\ session[SessionOf(v)].req = RequestFor(v, t, c)
                /\ session[SessionOf(v)].req.sha = ShaOf[c]
                /\ {original[v], final[v]} \subseteq {NoFile, c}
        BY <2>1, SessionRequest
      <3> QED
        BY <1>2, <2>1, <3>1 DEF SessionInv, SessionOf, RequestFor
    <2>6. TokensInv(v)'
      BY <1>1, <1>2, <2>1 DEF VideoInv, TokensInv, SessionOf, PoolTokens
    <2> QED
      BY <1>1, <1>2, <2>2, <2>3, <2>4, <2>5, <2>6 DEF VideoInv
  <1> QED
    BY <1>3, <1>4, <1>5 DEF CallKeeps

\* What a call of the worker is: nothing new, a session, a part, or the end.
LEMMA CallsKeep ==
    ASSUME BoothInv, U!UploadsInv, NEW v \in Videos,
           \/ UNCHANGED serverVars
           \/ /\ upl[v].pc = "opening" /\ final[v] # NoFile
              /\ CallCreate(CurrentRequest(v))
           \/ \E n, b : CallPart(SessionOf(v), n, b)
           \/ CallComplete(SessionOf(v))
    PROVE  CallKeeps(v) /\ \A w \in Videos \ {v} : ServerRests(w)
  <1>1. CASE UNCHANGED serverVars
    BY <1>1 DEF serverVars, ServerRests, CallKeeps
  <1>2. CASE /\ upl[v].pc = "opening" /\ final[v] # NoFile
             /\ Server!CreateUploadSession(CurrentRequest(v))
    BY <1>2, CreateOpens DEF CallKeeps
  <1>3. CASE \E n, b : CallPart(SessionOf(v), n, b)
    BY <1>3, PartRests DEF CallKeeps
  <1>4. CASE Server!CompleteUploadSession(SessionOf(v))
    BY <1>4, CompleteStores DEF CallKeeps
  <1>5. CASE Server!CompleteAgain(SessionOf(v))
    BY <1>5, CompleteAgainRests DEF CallKeeps
  <1> QED
    BY <1>1, <1>2, <1>3, <1>4, <1>5 DEF CallCreate, CallComplete

\* The parts that are missing are parts of some upload.
LEMMA MissingAreParts ==
    ASSUME BoothInv, NEW v \in Videos, upl[v].pc = "opening",
           final[v] # NoFile, NEW received
    PROVE  MissingParts(v, received) \subseteq Server!AllPartNumbers
  <1>1. /\ CurrentRequest(v) \in Requests
        /\ CurrentRequest(v).size = SizeOf[final[v]]
    BY RequestIsSent
  <1>2. PartNumbers(SizeOf[final[v]]) = Server!PartNumbers(SizeOf[final[v]])
    BY DEF PartNumbers, PartCount, PartSizeOf, Least, Server!PartNumbers,
           Server!PartCount, Server!PartSizeOf, Server!Least
  <1>3. Server!PartNumbers(CurrentRequest(v).size)
            \subseteq Server!AllPartNumbers
    BY <1>1 DEF Server!AllPartNumbers
  <1> QED
    BY <1>1, <1>2, <1>3 DEF MissingParts

\* A step of the worker writes the three fields of its place.
LEMMA UploadRecord ==
    ASSUME NEW u \in UploadPlaces, NEW pc, NEW todo
    PROVE  /\ [u EXCEPT !.pc = pc] = [pc |-> pc, copy |-> u.copy,
                                      todo |-> u.todo]
           /\ [u EXCEPT !.todo = todo] = [pc |-> u.pc, copy |-> u.copy,
                                          todo |-> todo]
  <1>1. [u EXCEPT !.pc = pc] = [pc |-> pc, copy |-> u.copy,
                                todo |-> u.todo]
    BY DEF UploadPlaces
  <1>2. [u EXCEPT !.todo = todo] = [pc |-> u.pc, copy |-> u.copy,
                                    todo |-> todo]
    BY DEF UploadPlaces
  <1> QED
    BY <1>1, <1>2

\* The same for the step that writes two of the three fields.
LEMMA UploadSends ==
    ASSUME NEW u \in UploadPlaces, NEW todo
    PROVE  [u EXCEPT !.pc = "sending", !.todo = todo] =
               [pc |-> "sending", copy |-> u.copy, todo |-> todo]
  <1>1. [u EXCEPT !.pc = "sending"] = [pc |-> "sending", copy |-> u.copy,
                                       todo |-> u.todo]
    BY UploadRecord
  <1>2. [u EXCEPT !.pc = "sending", !.todo = todo] =
            [[u EXCEPT !.pc = "sending"] EXCEPT !.todo = todo]
    OBVIOUS
  <1>3. [[pc |-> "sending", copy |-> u.copy, todo |-> u.todo]
            EXCEPT !.todo = todo] =
                [pc |-> "sending", copy |-> u.copy, todo |-> todo]
    OBVIOUS
  <1> QED
    BY <1>1, <1>2, <1>3

\* The worker goes on with the row it read, or notes a retry in the row as
\* it is, while its call keeps the video.
LEMMA CallMoves ==
    ASSUME BoothInv, U!UploadsInv, NEW v \in Videos, CallKeeps(v),
           row[v] # NoRow, upl[v].copy \in LocalVideo,
           UNCHANGED phoneVars, known' \in [Videos -> BOOLEAN],
           NEW pc, NEW copy, NEW todo \in SUBSET Server!AllPartNumbers,
           upl' = [upl EXCEPT ![v] = [pc |-> pc, copy |-> copy,
                                      todo |-> todo]],
           \/ /\ pc \in {"sending", "waiting"}
              /\ copy = upl[v].copy
              /\ upl[v].pc \in {"opening", "sending"}
           \/ pc = "retrying" /\ copy = row[v]
    PROVE  BoothTypeOK' /\ OthersRest(v) /\ PoolsRest(v) /\ VideoInv(v)'
  <1> USE DEF BoothInv
  <1> DEFINE u == [pc |-> pc, copy |-> copy, todo |-> todo]
  <1>1. row[v] \in LocalVideo
    BY DEF BoothTypeOK
  <1>2. pc \in {"sending", "waiting", "retrying"} /\ copy \in LocalVideo
    BY <1>1
  <1>3. u \in UploadPlaces /\ u.copy \in {row[v], upl[v].copy}
    BY <1>2 DEF UploadPlaces
  <1>4. upl'[v].pc = pc /\ upl'[v].copy = copy
    BY DEF BoothTypeOK
  <1>5. UploadInv(v)
    BY DEF VideoInv, JobsInv
  <1>6. UploadInv(v)'
    BY <1>2, <1>4, <1>5, RowsAreNotNoRow DEF UploadInv
  <1>7. upl' = [upl EXCEPT ![v] = u]
    OBVIOUS
  <1> HIDE DEF u
  <1> QED
    BY <1>3, <1>6, <1>7, CallKeepsVideo

\* The four steps of the worker that call the server.
LEMMA UploadCalls ==
    ASSUME BoothInv, U!UploadsInv, NEW v \in Videos,
           \/ UploadOpens(v) \/ UploadSendsPart(v)
           \/ UploadCompletes(v) \/ UploadInterrupted(v)
    PROVE  /\ BoothTypeOK' /\ OthersRest(v) /\ PoolsRest(v) /\ VideoInv(v)'
           /\ \A w \in Videos \ {v} : ServerRests(w)
  <1>1. /\ row[v] # NoRow
        /\ upl[v].copy \in LocalVideo
        /\ upl[v] \in UploadPlaces
    BY UploadCopy, RowsAreNotNoRow
    DEF UploadOpens, UploadSendsPart, UploadCompletes, UploadInterrupted,
        BoothTypeOK, BoothInv
  <1>2. upl[v].todo \in SUBSET Server!AllPartNumbers
    BY <1>1 DEF UploadPlaces
  <1>3. UNCHANGED phoneVars /\ known' \in [Videos -> BOOLEAN]
    BY DEF UploadOpens, UploadSendsPart, UploadCompletes, UploadInterrupted,
           BoothTypeOK, BoothInv
  <1>4. CASE UploadOpens(v)
    <2> DEFINE todo == MissingParts(v, Server!Received(SessionOf(v)))
    <2>1. CallKeeps(v) /\ \A w \in Videos \ {v} : ServerRests(w)
      BY <1>4, CallsKeep DEF UploadOpens
    <2>2. todo \in SUBSET Server!AllPartNumbers
      BY <1>4, MissingAreParts DEF UploadOpens
    <2>3. upl[v].pc = "opening"
      BY <1>4 DEF UploadOpens
    <2>4. upl' = [upl EXCEPT ![v] = [upl[v] EXCEPT !.pc = "sending",
                                                   !.todo = todo]]
      BY <1>4 DEF UploadOpens, BoothTypeOK, BoothInv
    <2> HIDE DEF todo
    <2>5. upl' = [upl EXCEPT ![v] = [pc |-> "sending", copy |-> upl[v].copy,
                                     todo |-> todo]]
      <3>1. \A u \in UploadPlaces :
                [u EXCEPT !.pc = "sending", !.todo = todo] =
                    [pc |-> "sending", copy |-> u.copy, todo |-> todo]
        BY UploadSends
      <3> QED
        BY <1>1, <2>3, <2>4, <3>1
    <2>6. BoothTypeOK' /\ OthersRest(v) /\ PoolsRest(v) /\ VideoInv(v)'
      BY <1>1, <1>3, <2>1, <2>2, <2>3, <2>5, CallMoves
    <2> QED
      BY <2>1, <2>6
  <1>5. CASE UploadSendsPart(v)
    <2> DEFINE todo == upl[v].todo \ {NextPart(v)}
    <2>1. CallKeeps(v) /\ \A w \in Videos \ {v} : ServerRests(w)
      BY <1>5, CallsKeep DEF UploadSendsPart
    <2>2. todo \in SUBSET Server!AllPartNumbers
      BY <1>2
    <2>3. upl[v].pc = "sending"
      BY <1>5 DEF UploadSendsPart
    <2>4. upl' = [upl EXCEPT ![v] = [upl[v] EXCEPT !.todo = todo]]
      BY <1>5 DEF UploadSendsPart, BoothTypeOK, BoothInv
    <2> HIDE DEF todo
    <2>5. upl' = [upl EXCEPT ![v] = [pc |-> "sending", copy |-> upl[v].copy,
                                     todo |-> todo]]
      <3>1. \A u \in UploadPlaces :
                [u EXCEPT !.todo = todo] =
                    [pc |-> u.pc, copy |-> u.copy, todo |-> todo]
        BY UploadRecord
      <3> QED
        BY <1>1, <2>3, <2>4, <3>1
    <2>6. BoothTypeOK' /\ OthersRest(v) /\ PoolsRest(v) /\ VideoInv(v)'
      BY <1>1, <1>3, <2>1, <2>2, <2>3, <2>5, CallMoves
    <2> QED
      BY <2>1, <2>6
  <1>6. CASE UploadCompletes(v)
    <2>1. CallKeeps(v) /\ \A w \in Videos \ {v} : ServerRests(w)
      BY <1>6, CallsKeep DEF UploadCompletes
    <2>2. upl[v].pc = "sending"
      BY <1>6 DEF UploadCompletes
    <2>3. upl' = [upl EXCEPT ![v] = [upl[v] EXCEPT !.pc = "waiting"]]
      BY <1>6 DEF UploadCompletes, UplTo, BoothTypeOK, BoothInv
    <2>4. upl' = [upl EXCEPT ![v] = [pc |-> "waiting", copy |-> upl[v].copy,
                                     todo |-> upl[v].todo]]
      BY <1>1, <2>3, UploadRecord
    <2>5. BoothTypeOK' /\ OthersRest(v) /\ PoolsRest(v) /\ VideoInv(v)'
      BY <1>1, <1>2, <1>3, <2>1, <2>2, <2>4, CallMoves
    <2> QED
      BY <2>1, <2>5
  <1>7. CASE UploadInterrupted(v)
    <2>1. CallKeeps(v) /\ \A w \in Videos \ {v} : ServerRests(w)
      BY <1>7, CallsKeep DEF UploadInterrupted, CurrentCall
    <2>2. upl' = [upl EXCEPT ![v] = [pc |-> "retrying", copy |-> row[v],
                                     todo |-> {}]]
      BY <1>7 DEF UploadInterrupted, UplThrows
    <2>3. {} \in SUBSET Server!AllPartNumbers
      OBVIOUS
    <2>4. BoothTypeOK' /\ OthersRest(v) /\ PoolsRest(v) /\ VideoInv(v)'
      BY <1>1, <1>3, <2>1, <2>2, <2>3, CallMoves
    <2> QED
      BY <2>1, <2>4
  <1> QED
    BY <1>4, <1>5, <1>6, <1>7

\* Every step of the upload worker keeps the invariant.
LEMMA UploadStepKeepsInv ==
    ASSUME BoothInv, U!UploadsInv, NEW v \in Videos, UploadStep(v)
    PROVE  BoothInv'
  <1>1. app' = app
    BY DEF UploadStep, UploadReads, UploadMissesFile, UploadReserves,
           UploadMarks, UploadOpens, UploadSendsPart, UploadCompletes,
           UploadSaves, UploadSucceeds, UploadInterrupted, UploadRefused,
           UploadNotes, phoneVars
  <1>2. CASE UploadReserves(v)
    BY <1>1, <1>2, ReserveKeeps, CallsRest, OneVideoMoves
    DEF UploadReserves
  <1>3. CASE \/ UploadReads(v) \/ UploadSucceeds(v) \/ UploadRefused(v)
             \/ UploadMissesFile(v) \/ UploadMarks(v) \/ UploadSaves(v)
             \/ UploadNotes(v)
    <2>1. BoothTypeOK' /\ OthersRest(v) /\ VideoInv(v)'
      BY <1>3, UploadWaits, UploadWrites
    <2>2. UNCHANGED callVars /\ UNCHANGED tokensVars
      BY <1>3
      DEF UploadReads, UploadSucceeds, UploadRefused, UploadMissesFile,
          UploadMarks, UploadSaves, UploadNotes, phoneVars
    <2> QED
      BY <1>1, <2>1, <2>2, CallsRest, TokensRest, OneVideoMoves
  <1>4. CASE \/ UploadOpens(v) \/ UploadSendsPart(v) \/ UploadCompletes(v)
             \/ UploadInterrupted(v)
    <2>1. /\ BoothTypeOK' /\ OthersRest(v) /\ VideoInv(v)'
          /\ \A w \in Videos \ {v} : ServerRests(w)
      BY <1>4, UploadCalls
    <2>2. UNCHANGED tokensVars
      BY <1>4
      DEF UploadOpens, UploadSendsPart, UploadCompletes, UploadInterrupted,
          phoneVars
    <2> QED
      BY <1>1, <2>1, <2>2, TokensRest, OneVideoMoves
  <1> QED
    BY <1>2, <1>3, <1>4 DEF UploadStep

\* So does every step the server takes on its own.
LEMMA ServerStepKeepsInv ==
    ASSUME BoothInv, U!UploadsInv, ServerStep
    PROVE  BoothInv'
  <1> USE DEF BoothInv
  <1>1. UNCHANGED <<captureVars, known>>
    BY DEF ServerStep
  <1>2. BoothTypeOK'
    BY <1>1 DEF BoothTypeOK, captureVars, tokensVars, filesVars, jobsVars
  <1>3. ASSUME NEW v \in Videos
        PROVE  VideoInv(v)'
    <2>1. PhoneRests(v) /\ PoolsRest(v) /\ app' = app
      BY <1>1 DEF PhoneRests, PoolsRest, captureVars, tokensVars, filesVars,
                  jobsVars
    <2> QED
      BY <2>1, ServerStepRests, RestingVideo
  <1> QED
    BY <1>2, <1>3

-----------------------------------------------------------------------------
(***************************************************************************)
(* The booth only calls operations of Uploads, with the arguments their    *)
(* requests may have.                                                      *)
(***************************************************************************)
ServerOperation ==
    \/ \E r \in Requests : Server!CreateUploadSession(r)
    \/ \E s \in Server!Sessions, n \in Server!AllPartNumbers, b \in Bodies :
          Server!StoreUploadPart(s, n, b)
    \/ \E s \in Server!Sessions :
          \/ Server!CompleteUploadSession(s)
          \/ Server!CompleteAgain(s)
          \/ Server!Lapse(s)
          \/ Server!CleanupExpired(s)
    \/ \E h \in hooks : Server!RunHooks(h)
    \/ \E e \in Events : Server!DestroyEvent(e)

\* The part the worker sends is a part of its session, of the right size.
LEMMA PartIsSent ==
    ASSUME BoothInv, U!UploadsInv, NEW v \in Videos, final[v] # NoFile,
           NEW n, Server!StoreUploadPart(SessionOf(v), n, Body(v, n))
    PROVE  n \in Server!AllPartNumbers /\ Body(v, n) \in Bodies
  <1> DEFINE s == SessionOf(v)
  <1>1. /\ session[s].status \in {"CREATED", "RECEIVING", "VERIFYING"}
        /\ n \in Server!PartNumbers(session[s].req.size)
    BY DEF Server!StoreUploadPart, Server!PutsPart, Server!Active,
           Server!ActiveStatuses
  <1>2. ~video[v].stored
    BY <1>1 DEF BoothInv, VideoInv, SessionInv
  <1>3. PICK c \in {Cut, Whole} :
            session[s].req.size = SizeOf[c] /\ final[v] = c
    BY <1>1, <1>2, SessionRequest
  <1>4. Server!PartNumbers(SizeOf[c]) = PartNumbers(SizeOf[c])
    BY DEF PartNumbers, PartCount, PartSizeOf, Least, Server!PartNumbers,
           Server!PartCount, Server!PartSizeOf, Server!Least
  <1>5. Body(v, n) \in Bodies
    BY <1>1, <1>3, <1>4, BoothAssumption DEF BoothAssumption, Body
  <1>6. session[s].req \in Requests
    BY <1>1, SessionsDiffer
    DEF U!UploadsInv, U!RowsHaveRequests, U!Sessions, Server!Sessions
  <1> QED
    BY <1>1, <1>5, <1>6 DEF Server!AllPartNumbers

\* A call is an operation of the server, or one that was made before.
LEMMA WorkerOperates ==
    ASSUME BoothInv, U!UploadsInv, NEW v \in Videos,
           \/ /\ upl[v].pc = "opening" /\ final[v] # NoFile
              /\ CallCreate(CurrentRequest(v))
           \/ /\ final[v] # NoFile
              /\ CallPart(SessionOf(v), NextPart(v), Body(v, NextPart(v)))
           \/ CallComplete(SessionOf(v))
    PROVE  ServerOperation \/ UNCHANGED serverVars
  <1>1. SessionOf(v) \in Server!Sessions
    BY SessionsDiffer
  <1>2. CASE /\ upl[v].pc = "opening" /\ final[v] # NoFile
             /\ CallCreate(CurrentRequest(v))
    BY <1>2, RequestIsSent DEF CallCreate, ServerOperation
  <1>3. CASE /\ final[v] # NoFile
             /\ CallPart(SessionOf(v), NextPart(v), Body(v, NextPart(v)))
    <2> DEFINE n == NextPart(v)
    <2>1. CASE Server!StoreUploadPart(SessionOf(v), n, Body(v, n))
      <3>1. n \in Server!AllPartNumbers /\ Body(v, n) \in Bodies
        BY <1>3, <2>1, PartIsSent
      <3> QED
        BY <1>1, <2>1, <3>1 DEF ServerOperation
    <2> QED
      BY <1>3, <2>1 DEF CallPart
  <1>4. CASE CallComplete(SessionOf(v))
    BY <1>1, <1>4 DEF CallComplete, ServerOperation
  <1> QED
    BY <1>2, <1>3, <1>4

\* A step of the booth is an operation of the server, or none.
LEMMA BoothOperates ==
    ASSUME BoothInv, U!UploadsInv, Next
    PROVE  ServerOperation \/ UNCHANGED serverVars
  <1>1. CASE CaptureNext /\ UNCHANGED callVars
    BY <1>1 DEF callVars
  <1>2. CASE ServerStep
    BY <1>2, SessionsDiffer DEF ServerStep, ServerOperation
  <1>3. ASSUME NEW v \in Videos, UploadStep(v)
        PROVE  ServerOperation \/ UNCHANGED serverVars
    <2>1. CASE \/ UploadReads(v) \/ UploadMissesFile(v) \/ UploadReserves(v)
               \/ UploadMarks(v) \/ UploadSaves(v) \/ UploadSucceeds(v)
               \/ UploadRefused(v) \/ UploadNotes(v)
      BY <2>1 DEF UploadReads, UploadMissesFile, UploadReserves, UploadMarks,
                  UploadSaves, UploadSucceeds, UploadRefused, UploadNotes,
                  callVars
    <2>2. CASE UploadOpens(v)
      BY <2>2, WorkerOperates DEF UploadOpens
    <2>3. CASE UploadSendsPart(v)
      BY <2>3, WorkerOperates DEF UploadSendsPart
    <2>4. CASE UploadCompletes(v)
      BY <2>4, WorkerOperates DEF UploadCompletes
    <2>5. CASE UploadInterrupted(v)
      BY <2>5, WorkerOperates DEF UploadInterrupted, CurrentCall
    <2> QED
      BY <1>3, <2>1, <2>2, <2>3, <2>4, <2>5 DEF UploadStep
  <1> QED
    BY <1>1, <1>2, <1>3 DEF Next

-----------------------------------------------------------------------------
(***************************************************************************)
(* UploadsProofs extends Uploads, so its operations are the ones the booth *)
(* calls: a step of the server is a step of the Uploads that UploadsProofs *)
(* speaks of.                                                              *)
(***************************************************************************)
LEMMA SameNumbers ==
    /\ Server!Sessions = U!Sessions
    /\ Server!AllPartNumbers = U!AllPartNumbers
    /\ \A n : Server!PartNumbers(n) = U!PartNumbers(n)
    /\ \A n, size : /\ Server!PartOffset(n, size) = U!PartOffset(n, size)
                    /\ Server!ExpectedPartSize(n, size) =
                           U!ExpectedPartSize(n, size)
  BY DEF Server!Sessions, U!Sessions, Server!AllPartNumbers,
         U!AllPartNumbers, Server!PartNumbers, U!PartNumbers,
         Server!PartCount, U!PartCount, Server!PartSizeOf, U!PartSizeOf,
         Server!Least, U!Least, Server!PartOffset, U!PartOffset,
         Server!ExpectedPartSize, U!ExpectedPartSize

\* What is said of sessions and parts is the same in both instances.
LEMMA SameSessions ==
    /\ \A s : Server!Active(s) = U!Active(s)
    /\ \A v : Server!SessionsOf(v) = U!SessionsOf(v)
    /\ \A s : Server!Received(s) = U!Received(s)
  BY SameNumbers
  DEF Server!Active, U!Active, Server!ActiveStatuses, U!ActiveStatuses,
      Server!SessionsOf, U!SessionsOf, Server!Received, U!Received

\* The two sums, which the prover sees as two operators.
LEMMA SameSums ==
    /\ \A o : Server!UsedBytes(o) = U!UsedBytes(o)
    /\ \A s : Server!PartsComplete(s) = U!PartsComplete(s)
  <1>1. ASSUME NEW o
        PROVE  Server!UsedBytes(o) = U!UsedBytes(o)
    BY DEF Server!UsedBytes, U!UsedBytes, Server!MapThenSumSet,
           U!MapThenSumSet, Server!MapThenFoldSet, U!MapThenFoldSet
  <1>2. ASSUME NEW s
        PROVE  Server!PartsComplete(s) = U!PartsComplete(s)
    <2>1. /\ Server!Received(s) = U!Received(s)
          /\ Server!PartNumbers(session[s].req.size) =
                 U!PartNumbers(session[s].req.size)
      BY SameNumbers, SameSessions
    <2> QED
      BY <2>1
      DEF Server!PartsComplete, U!PartsComplete, Server!MapThenSumSet,
          U!MapThenSumSet, Server!MapThenFoldSet, U!MapThenFoldSet
  <1> QED
    BY <1>1, <1>2

\* Both instances mean the same by each operation.
LEMMA SameCreate ==
    ASSUME NEW r, Server!CreateUploadSession(r)
    PROVE  U!CreateUploadSession(r)
  <1>1. Server!TokenAccepts(r) = U!TokenAccepts(r)
    BY DEF Server!TokenAccepts, U!TokenAccepts
  <1>2. Server!VideoAccepts(r) = U!VideoAccepts(r)
    BY DEF Server!VideoAccepts, U!VideoAccepts, Server!SameVideo, U!SameVideo
  <1>3. Server!NoLiveSession(r.video) = U!NoLiveSession(r.video)
    BY SameSessions DEF Server!NoLiveSession, U!NoLiveSession
  <1>4. Server!FitsQuota(r) = U!FitsQuota(r)
    BY SameSums DEF Server!FitsQuota, U!FitsQuota
  <1> QED
    BY <1>1, <1>2, <1>3, <1>4, SameNumbers, SameSessions
    DEF Server!CreateUploadSession, U!CreateUploadSession, Server!files,
        U!files

\* The same for a part.
LEMMA SameStore ==
    ASSUME NEW s, NEW n, NEW b, Server!StoreUploadPart(s, n, b)
    PROVE  U!StoreUploadPart(s, n, b)
  BY SameNumbers, SameSessions
  DEF Server!StoreUploadPart, U!StoreUploadPart, Server!PutsPart, U!PutsPart,
      Server!PartInPlace, U!PartInPlace, Server!PartRow, U!PartRow

\* The same for a completion.
LEMMA SameComplete ==
    ASSUME NEW s, Server!CompleteUploadSession(s)
    PROVE  U!CompleteUploadSession(s)
  BY SameNumbers, SameSessions, SameSums
  DEF Server!CompleteUploadSession, U!CompleteUploadSession,
      Server!ComposeAttempt, U!ComposeAttempt, Server!PartFilesPresent,
      U!PartFilesPresent,
      Server!DigestMatches, U!DigestMatches, Server!Composed, U!Composed,
      Server!HasMp4Head, U!HasMp4Head, Server!OnCommit, U!OnCommit

\* The same for repeated completions and expirations.
LEMMA SameRest ==
    /\ \A s : Server!CompleteAgain(s) => U!CompleteAgain(s)
    /\ \A s : Server!Lapse(s) => U!Lapse(s)
    /\ \A s : Server!CleanupExpired(s) => U!CleanupExpired(s)
  BY SameSessions
  DEF Server!CompleteAgain, U!CompleteAgain, Server!Lapse, U!Lapse,
      Server!CleanupExpired, U!CleanupExpired, Server!IsExpired, U!IsExpired,
      Server!CloseSession, U!CloseSession, Server!OnCommit, U!OnCommit,
      Server!rows, U!rows, Server!files, U!files

\* The same for the end of an event.
LEMMA SameDestroy ==
    ASSUME NEW e, Server!DestroyEvent(e)
    PROVE  U!DestroyEvent(e)
  BY DEF Server!DestroyEvent, U!DestroyEvent, Server!files, U!files

\* The same for the callbacks of a commit.
LEMMA SameHooks ==
    ASSUME NEW h, Server!RunHooks(h)
    PROVE  U!RunHooks(h)
  BY SameNumbers
  DEF Server!RunHooks, U!RunHooks, Server!DeletePartFiles, U!DeletePartFiles,
      Server!Prefixes, U!Prefixes, Server!rows, U!rows

\* The booth's operations are steps of the server and of UploadsProofs.
LEMMA OperationsAreSteps ==
    ASSUME ServerOperation
    PROVE  Server!Next /\ U!Next
  <1>1. CASE \E r \in Requests : Server!CreateUploadSession(r)
    BY <1>1, SameCreate DEF Server!Next, U!Next
  <1>2. CASE \E s \in Server!Sessions, n \in Server!AllPartNumbers,
                b \in Bodies : Server!StoreUploadPart(s, n, b)
    BY <1>2, SameNumbers, SameStore
    DEF Server!Next, U!Next, Server!SessionStep, U!SessionStep,
        Server!StorePartStep, U!StorePartStep
  <1>3. CASE \E s \in Server!Sessions : \/ Server!CompleteUploadSession(s)
                                        \/ Server!CompleteAgain(s)
                                        \/ Server!Lapse(s)
                                        \/ Server!CleanupExpired(s)
    BY <1>3, SameNumbers, SameComplete, SameRest
    DEF Server!Next, U!Next, Server!SessionStep, U!SessionStep,
        Server!CompleteStep, U!CompleteStep
  <1>4. CASE \E h \in hooks : Server!RunHooks(h)
    BY <1>4, SameHooks DEF Server!Next, U!Next
  <1>5. CASE \E e \in Events : Server!DestroyEvent(e)
    BY <1>5, SameDestroy DEF Server!Next, U!Next
  <1> QED
    BY <1>1, <1>2, <1>3, <1>4, <1>5 DEF ServerOperation

-----------------------------------------------------------------------------
(***************************************************************************)
(* The invariant.                                                          *)
(***************************************************************************)
LEMMA BoothInvInit == Init => BoothInv
  <1> SUFFICES ASSUME Init PROVE BoothInv
    OBVIOUS
  <1> USE DEF Init, CaptureInit
  <1>1. BoothTypeOK
    <2>1. /\ repair \in [Videos -> RepairPlaces]
          /\ proc \in [Videos -> ProcessPlaces]
          /\ cleaner \in [Videos -> CleanupPlaces]
      BY DEF RepairPlaces, ProcessPlaces, CleanupPlaces, Resting
    <2>2. upl \in [Videos -> UploadPlaces]
      BY DEF UploadPlaces, UploadResting
    <2>3. shelf \subseteq Tokens
      BY CaptureAssumption DEF CaptureAssumption
    <2> QED
      BY <2>1, <2>2, <2>3 DEF BoothTypeOK
  <1>2. ASSUME NEW v \in Videos
        PROVE  VideoInv(v)
    <2>1. /\ session[SessionOf(v)].status = "NONE"
          /\ ~video[v].stored
      BY SessionsDiffer DEF Server!Init
    <2>2. Held(v) = {}
      BY DEF Held, Resting, UploadResting
    <2>3. Untouched(v) /\ CameraInv(v) /\ FilesInv(v)
      BY <2>1, CaptureAssumption
      DEF CaptureAssumption, Untouched, CameraInv, BeforeRename, FilesInv,
          Resting, UploadResting
    <2>4. JobsInv(v)
      BY DEF JobsInv, RepairInv, ProcessInv, UploadInv, CleanupInv, Resting,
             UploadResting
    <2>5. HeldInv(v)
      BY <2>2 DEF HeldInv
    <2>6. SessionInv(v)
      BY <2>1 DEF SessionInv
    <2>7. TokensInv(v)
      BY <2>2, CaptureAssumption DEF CaptureAssumption, TokensInv, PoolTokens
    <2> QED
      BY <2>3, <2>4, <2>5, <2>6, <2>7 DEF VideoInv
  <1> QED
    BY <1>1, <1>2 DEF BoothInv

\* A step that changes nothing keeps the invariant.
LEMMA StutterKeepsInv ==
    ASSUME BoothInv, UNCHANGED vars
    PROVE  BoothInv'
  <1> USE DEF vars, captureVars, serverVars, tokensVars, filesVars, jobsVars
  <1>1. BoothTypeOK'
    BY DEF BoothInv, BoothTypeOK
  <1>2. ASSUME NEW v \in Videos
        PROVE  VideoInv(v)'
    <2>1. PhoneRests(v) /\ PoolsRest(v) /\ app' = app
      BY DEF PhoneRests, PoolsRest
    <2>2. ServerRests(v)
      BY DEF ServerRests
    <2> QED
      BY <2>1, <2>2, RestingVideo DEF BoothInv
  <1> QED
    BY <1>1, <1>2 DEF BoothInv

\* The invariant is inductive, relative to the one of Uploads.
LEMMA BoothInvStep == BoothInv /\ U!UploadsInv /\ [Next]_vars => BoothInv'
  <1> SUFFICES ASSUME BoothInv, U!UploadsInv, [Next]_vars
               PROVE  BoothInv'
    OBVIOUS
  <1>1. CASE CaptureNext /\ UNCHANGED callVars
    BY <1>1, CaptureKeepsInv
  <1>2. CASE \E v \in Videos : UploadStep(v)
    BY <1>2, UploadStepKeepsInv
  <1>3. CASE ServerStep
    BY <1>3, ServerStepKeepsInv
  <1>4. CASE UNCHANGED vars
    BY <1>4, StutterKeepsInv
  <1> QED
    BY <1>1, <1>2, <1>3, <1>4 DEF Next

\* The invariant of Uploads holds when the booth begins.
LEMMA UploadsInvHolds == Init => U!UploadsInv
  <1>1. U!Init => U!UploadsInv
    BY U!UploadsInvInit, UploadsConstants
  <1>2. Server!Init => U!Init
    BY SameNumbers DEF Server!Init, U!Init
  <1> QED
    BY <1>1, <1>2 DEF Init

\* The invariant of Uploads is kept, since the booth operates the server.
LEMMA UploadsInvKept ==
    BoothInv /\ U!UploadsInv /\ [Next]_vars => U!UploadsInv'
  <1>1. U!UploadsInv /\ [U!Next]_(U!vars) => U!UploadsInv'
    BY U!UploadsInvStep, UploadsConstants
  <1>2. UNCHANGED serverVars => UNCHANGED U!vars
    BY DEF serverVars, U!vars, U!rows, U!files
  <1>3. UNCHANGED vars => UNCHANGED serverVars
    BY DEF vars
  <1> QED
    BY <1>1, <1>2, <1>3, BoothOperates, OperationsAreSteps

\* BoothInv holds of every behaviour of the booth, and so does the invariant
\* of Uploads, which its proof needs.
THEOREM BoothSafe == Spec => [](BoothInv /\ U!UploadsInv)
  <1>1. Init => BoothInv /\ U!UploadsInv
    BY BoothInvInit, UploadsInvHolds
  <1>2. /\ BoothInv /\ U!UploadsInv /\ [Next]_vars
        => BoothInv' /\ U!UploadsInv'
    BY BoothInvStep, UploadsInvKept
  <1> QED
    BY <1>1, <1>2, PTL DEF Spec

-----------------------------------------------------------------------------
(***************************************************************************)
(* What the invariant says of the booth.                                   *)
(***************************************************************************)
\* Rows, workers and what they have read keep their shape.
THEOREM BoothTyped == Spec => []BoothTypeOK
  <1>1. BoothInv => BoothTypeOK
    BY DEF BoothInv
  <1> QED
    BY <1>1, BoothSafe, PTL

\* A row that says UPLOADED is true: the server stores the video, whichever
\* worker wrote the row last and whatever it had read.
THEOREM UploadedIsStored == Spec => []UploadedRowsAreTrue
  <1>1. ASSUME BoothInv
        PROVE  UploadedRowsAreTrue
    <2>1. ASSUME NEW v \in Videos, row[v] # NoRow, row[v].upload = "UPLOADED"
          PROVE  video[v].stored
      BY <1>1, <2>1, HeldRows DEF BoothInv, VideoInv, HeldInv
    <2> QED
      BY <2>1 DEF UploadedRowsAreTrue
  <1> QED
    BY <1>1, BoothSafe, PTL

\* While the server lacks a video, the files its row points to are there.
THEOREM RowsPointToFiles == Spec => []RowsHaveTheirFiles
  <1>1. ASSUME BoothInv
        PROVE  RowsHaveTheirFiles
    <2>1. ASSUME NEW v \in Videos, row[v] # NoRow, ~video[v].stored
          PROVE  HasItsFiles(v, row[v])
      BY <1>1, <2>1, HeldRows DEF BoothInv, VideoInv, HeldInv
    <2> QED
      BY <2>1 DEF RowsHaveTheirFiles, HasItsFiles
  <1> QED
    BY <1>1, BoothSafe, PTL

\* A recording the server lacks is failed, or one of the three queries of
\* the next start finds it.
THEOREM NothingIsForgotten == Spec => []RecordingsAreRemembered
  <1>1. ASSUME BoothInv
        PROVE  RecordingsAreRemembered
    <2>1. SUFFICES ASSUME NEW v \in Videos, OnPhone[v] # NoFile,
                          ~video[v].stored
                   PROVE  \/ v \in Interrupted \cup PendingProcessing
                                       \cup PendingUploads
                          \/ row[v] # NoRow /\ Failed(row[v])
      BY DEF RecordingsAreRemembered
    <2>2. row[v] # NoRow
      <3>1. row[v] = NoRow => Copies(v) = {NoFile}
        BY <1>1 DEF BoothInv, VideoInv, Untouched, Copies
      <3>2. Copies(v) = {NoFile} => OnPhone[v] = NoFile
        BY CaptureAssumption DEF CaptureAssumption, OnPhone
      <3> QED
        BY <2>1, <3>1, <3>2
    <2>3. row[v] \in LocalVideo /\ row[v].upload # "UPLOADED"
      BY <1>1, <2>1, <2>2, HeldRows
      DEF BoothInv, BoothTypeOK, VideoInv, HeldInv
    <2>4. /\ row[v].capture \in {"RECORDING", "SAVING", "SAVED", "FAILED"}
          /\ row[v].processing \in {"PENDING", "PROCESSING", "COMPLETED",
                                    "FAILED"}
          /\ row[v].upload \in {"PENDING", "UPLOADING", "FAILED"}
      BY <2>3 DEF LocalVideo, CaptureStates, ProcessingStates, UploadStates
    <2> QED
      BY <2>2, <2>4
      DEF Interrupted, PendingProcessing, PendingUploads, Failed
  <1> QED
    BY <1>1, BoothSafe, PTL

\* The token a guest was shown leads to the video that was recorded with it.
THEOREM QrCodesLead == Spec => []QrCodesLeadToTheirVideo
  <1>1. ASSUME BoothInv, U!UploadsInv
        PROVE  QrCodesLeadToTheirVideo
    <2>1. SUFFICES ASSUME NEW v \in Videos, NEW t \in UNION Pools,
                          assigned[t] = v, video[v].stored
                   PROVE  video[v].req.token = t
      BY DEF QrCodesLeadToTheirVideo
    <2>2. session[SessionOf(v)].status # "NONE"
      BY <1>1, <2>1 DEF BoothInv, VideoInv, SessionInv
    <2>3. session[SessionOf(v)].req.token = t
      BY <1>1, <2>1, <2>2 DEF BoothInv, VideoInv, TokensInv, PoolTokens
    <2>4. session[SessionOf(v)].req.video = v
      BY <1>1, <2>2, SessionRequest
    <2>5. video[v].req.token = session[SessionOf(v)].req.token
      BY <1>1, <2>2, <2>4, SessionsDiffer
      DEF U!UploadsInv, U!RowsHaveRequests, U!SameVideo, U!Sessions,
          Server!Sessions
    <2> QED
      BY <2>3, <2>5
  <1> QED
    BY <1>1, BoothSafe, PTL

-----------------------------------------------------------------------------
(***************************************************************************)
(* The booth implements the server's specification: everything that        *)
(* UploadsProofs proves of the server holds while booths call it.          *)
(***************************************************************************)
THEOREM BoothCallsUploads == Spec => Server!Spec
  <1>1. Init => Server!Init
    BY DEF Init
  <1>2. BoothInv /\ U!UploadsInv /\ [Next]_vars => [Server!Next]_(Server!vars)
    <2>1. UNCHANGED serverVars => UNCHANGED Server!vars
      BY DEF serverVars, Server!vars, Server!rows, Server!files
    <2>2. UNCHANGED vars => UNCHANGED serverVars
      BY DEF vars
    <2> QED
      BY <2>1, <2>2, BoothOperates, OperationsAreSteps
  <1> QED
    BY <1>1, <1>2, BoothSafe, PTL DEF Spec, Server!Spec

-----------------------------------------------------------------------------
(***************************************************************************)
(* The booth implements Custody.                                           *)
(***************************************************************************)
\* What the phone has of one video.
Kept(v) == IF Whole \in Copies(v) THEN Whole
           ELSE IF Cut \in Copies(v) THEN Cut ELSE NoFile
Stored(v) == IF video[v].stored THEN ContentOf(videoFile[v]) ELSE NoFile

\* A digest tells what was recorded.
LEMMA DigestsDiffer == \A c \in {Cut, Whole} : ContentOf(ShaOf[c]) = c
  BY BoothAssumption DEF BoothAssumption, ContentOf

\* What the phone has is its files.
LEMMA SameFilesKeep ==
    ASSUME UNCHANGED filesVars
    PROVE  OnPhone' = OnPhone
  BY DEF filesVars, OnPhone, Copies

\* What the cloud has is what the server stores.
LEMMA SameServerStores ==
    ASSUME \A w \in Videos : Stored(w)' = Stored(w)
    PROVE  InCloud' = InCloud
  BY DEF InCloud, Stored

\* A server that rests stores what it stored.
LEMMA RestStores ==
    ASSUME NEW w \in Videos, ServerRests(w)
    PROVE  Stored(w)' = Stored(w)
  BY DEF ServerRests, Stored

\* The files of one video change.
LEMMA OneVideoChanges ==
    ASSUME NEW v \in Videos,
           \A w \in Videos \ {v} : /\ staging'[w] = staging[w]
                                   /\ original'[w] = original[w]
                                   /\ final'[w] = final[w]
    PROVE  OnPhone' = [OnPhone EXCEPT ![v] = Kept(v)']
  BY DEF OnPhone, Kept, Copies

\* Before the rename the server has nothing, and the phone the staging file.
LEMMA BeforeRenameKept ==
    ASSUME BoothInv, NEW v \in Videos, BeforeRename(v)
    PROVE  /\ original[v] = NoFile /\ final[v] = NoFile
           /\ ~video[v].stored
           /\ OnPhone[v] = staging[v]
           /\ InCloud[v] = NoFile
  <1>1. /\ original[v] = NoFile /\ final[v] = NoFile
        /\ session[SessionOf(v)].status = "NONE"
    BY DEF BoothInv, VideoInv, CameraInv
  <1>2. ~video[v].stored
    BY <1>1 DEF BoothInv, VideoInv, SessionInv
  <1>3. staging[v] \in {NoFile, Cut, Whole}
    BY DEF BoothInv, BoothTypeOK
  <1> QED
    BY <1>1, <1>2, <1>3, CaptureAssumption
    DEF CaptureAssumption, OnPhone, Copies, InCloud

\* Once a session exists, the phone holds what it declares, if anything.
LEMMA SessionKept ==
    ASSUME BoothInv, NEW v \in Videos, session[SessionOf(v)].status # "NONE"
    PROVE  \E c \in {Cut, Whole} :
              /\ session[SessionOf(v)].req.sha = ShaOf[c]
              /\ staging[v] = NoFile
              /\ {original[v], final[v]} \subseteq {NoFile, c}
              /\ ~video[v].stored => OnPhone[v] = c /\ InCloud[v] = NoFile
              /\ video[v].stored => InCloud[v] = c
  <1>1. PICK c \in {Cut, Whole} :
            /\ session[SessionOf(v)].req.sha = ShaOf[c]
            /\ {original[v], final[v]} \subseteq {NoFile, c}
            /\ ~video[v].stored => final[v] = c
            /\ video[v].stored => videoFile[v] = ShaOf[c]
    BY SessionRequest
  <1>2. staging[v] = NoFile
    BY DEF BoothInv, VideoInv, CameraInv, BeforeRename
  <1>3. ~video[v].stored => OnPhone[v] = c /\ InCloud[v] = NoFile
    BY <1>1, <1>2, CaptureAssumption
    DEF CaptureAssumption, OnPhone, Copies, InCloud
  <1>4. video[v].stored => InCloud[v] = c
    BY <1>1, DigestsDiffer DEF InCloud
  <1> QED
    BY <1>1, <1>2, <1>3, <1>4

\* Recording begins or ends: the camera writes the staging file.
LEMMA CameraRecords ==
    ASSUME BoothInv, NEW v \in Videos, NEW c \in {NoFile, Cut, Whole},
           \/ capt[v] = "countdown" /\ c # Whole
           \/ capt[v] = "recording" /\ c = Whole,
           staging' = [staging EXCEPT ![v] = c],
           UNCHANGED <<original, final>>, InCloud' = InCloud
    PROVE  [Promise!Next]_(Promise!vars)
  <1>1. BeforeRename(v)
    BY DEF BeforeRename
  <1>2. /\ staging[v] \in {NoFile, Cut}
        /\ capt[v] = "countdown" => staging[v] = NoFile
    BY DEF BoothInv, BoothTypeOK, VideoInv, CameraInv
  <1>3. OnPhone[v] = staging[v] /\ InCloud[v] = NoFile
    BY <1>1, BeforeRenameKept
  <1>4. OnPhone' = [OnPhone EXCEPT ![v] = Kept(v)']
    BY OneVideoChanges DEF BoothInv, BoothTypeOK
  <1>5. Kept(v)' = c
    <2>1. Copies(v)' = {c, NoFile}
      BY <1>1, BeforeRenameKept DEF Copies, BoothInv, BoothTypeOK
    <2> QED
      BY <2>1, CaptureAssumption DEF CaptureAssumption, Kept
  <1>6. CASE c = NoFile
    <2>1. OnPhone' = OnPhone
      BY <1>2, <1>3, <1>4, <1>5, <1>6, CaptureAssumption
      DEF CaptureAssumption, OnPhone
    <2> QED
      BY <2>1 DEF Promise!vars
  <1>7. CASE c # NoFile
    <2>1. Promise!Record(v, c)
      BY <1>2, <1>3, <1>4, <1>5, <1>7, CaptureAssumption
      DEF CaptureAssumption, Promise!Record
    <2>2. c \in {Cut, Whole}
      BY <1>7
    <2> QED
      BY <2>1, <2>2 DEF Promise!Next
  <1> QED
    BY <1>6, <1>7

\* A rename or a copy changes names, not what there is.
LEMMA RenameKeepsCopies ==
    ASSUME BoothInv, NEW v \in Videos, BeforeRename(v), RenameStaging(v),
           UNCHANGED final
    PROVE  OnPhone' = OnPhone
  <1>1. OnPhone' = [OnPhone EXCEPT ![v] = Kept(v)']
    BY OneVideoChanges DEF RenameStaging, BoothInv, BoothTypeOK
  <1>2. Copies(v)' = Copies(v)
    BY BeforeRenameKept DEF RenameStaging, Copies, BoothInv, BoothTypeOK
  <1>3. Kept(v)' = Kept(v)
    BY <1>2 DEF Kept
  <1> QED
    BY <1>1, <1>3 DEF OnPhone, Kept

\* Processing copies the original over the final file, which it equals.
LEMMA CopyKeeps ==
    ASSUME BoothInv, NEW v \in Videos, ProcessCopies(v)
    PROVE  OnPhone' = OnPhone
  <1>1. final[v] \in {NoFile, original[v]}
    <2>1. CASE ~video[v].stored
      BY <2>1 DEF BoothInv, VideoInv, FilesInv
    <2>2. CASE video[v].stored
      <3>1. session[SessionOf(v)].status # "NONE"
        BY <2>2 DEF BoothInv, VideoInv, SessionInv
      <3> QED
        BY <3>1, SessionKept DEF ProcessCopies
    <2> QED
      BY <2>1, <2>2
  <1>2. OnPhone' = [OnPhone EXCEPT ![v] = Kept(v)']
    BY OneVideoChanges DEF ProcessCopies, BoothInv, BoothTypeOK
  <1>3. Copies(v)' = {staging[v], original[v]}
    BY DEF ProcessCopies, Copies, BoothInv, BoothTypeOK
  <1>4. Kept(v)' = Kept(v)
    BY <1>1, <1>3, CaptureAssumption DEF CaptureAssumption, Kept, Copies
  <1> QED
    BY <1>2, <1>4 DEF OnPhone, Kept

\* Cleanup lets go of what the server stores.
LEMMA CleanupLetsGo ==
    ASSUME BoothInv, NEW v \in Videos, CleanupDeletes(v), InCloud' = InCloud
    PROVE  [Promise!Next]_(Promise!vars)
  <1>1. video[v].stored
    BY HeldRows
    DEF BoothInv, VideoInv, HeldInv, CleanupDeletes, CleanupCandidate
  <1>2. session[SessionOf(v)].status # "NONE"
    BY <1>1 DEF BoothInv, VideoInv, SessionInv
  <1>3. PICK c \in {Cut, Whole} :
            /\ staging[v] = NoFile
            /\ {original[v], final[v]} \subseteq {NoFile, c}
            /\ InCloud[v] = c
    BY <1>1, <1>2, SessionKept
  <1>4. OnPhone' = [OnPhone EXCEPT ![v] = Kept(v)']
    BY OneVideoChanges DEF CleanupDeletes, BoothInv, BoothTypeOK
  <1>5. Copies(v)' \subseteq Copies(v) \cup {NoFile}
    BY DEF CleanupDeletes, Copies, BoothInv, BoothTypeOK
  <1>6. Copies(v) \subseteq {NoFile, c}
    BY <1>3 DEF Copies
  <1>7. Kept(v)' \in {Kept(v), NoFile} /\ Kept(v) \in {NoFile, c}
    BY <1>5, <1>6, CaptureAssumption DEF CaptureAssumption, Kept
  <1>8. OnPhone[v] = Kept(v) /\ OnPhone = [OnPhone EXCEPT ![v] = Kept(v)]
    BY DEF OnPhone, Kept
  <1>9. CASE Kept(v)' = Kept(v)
    BY <1>4, <1>8, <1>9 DEF Promise!vars
  <1>10. CASE Kept(v)' = NoFile /\ Kept(v) = c
    <2>1. Promise!Release(v)
      BY <1>3, <1>4, <1>8, <1>10 DEF Promise!Release
    <2> QED
      BY <2>1 DEF Promise!Next
  <1> QED
    BY <1>7, <1>9, <1>10

\* Every step of the phone alone is a step of Custody, or none.
LEMMA CaptureKeepsCustody ==
    ASSUME BoothInv, CaptureNext, UNCHANGED callVars
    PROVE  [Promise!Next]_(Promise!vars)
  <1>1. InCloud' = InCloud
    BY DEF callVars, serverVars, InCloud
  <1>2. CASE UNCHANGED filesVars
    BY <1>1, <1>2, SameFilesKeep DEF Promise!vars
  <1>3. ASSUME NEW v \in Videos,
               \/ StartRecording(v) \/ FinishRecording(v)
               \/ LeaveScreen(v) /\ capt[v] = "recording"
        PROVE  [Promise!Next]_(Promise!vars)
    BY <1>1, <1>3, CameraRecords, CaptureAssumption
    DEF CaptureAssumption, StartRecording, FinishRecording, LeaveScreen
  <1>4. ASSUME NEW v \in Videos, CompleteMoves(v) \/ RepairMoves(v)
        PROVE  [Promise!Next]_(Promise!vars)
    <2>1. BeforeRename(v) /\ RenameStaging(v) /\ UNCHANGED final
      BY <1>4 DEF CompleteMoves, RepairMoves, BeforeRename
    <2>2. OnPhone' = OnPhone
      BY <2>1, RenameKeepsCopies
    <2> QED
      BY <1>1, <2>2 DEF Promise!vars
  <1>5. ASSUME NEW v \in Videos, ProcessCopies(v)
        PROVE  [Promise!Next]_(Promise!vars)
    BY <1>1, <1>5, CopyKeeps DEF Promise!vars
  <1>6. ASSUME NEW v \in Videos, CleanupDeletes(v)
        PROVE  [Promise!Next]_(Promise!vars)
    BY <1>1, <1>6, CleanupLetsGo
  <1>7. ASSUME NEW v \in Videos, CameraStep(v)
        PROVE  \/ UNCHANGED filesVars
               \/ StartRecording(v) \/ FinishRecording(v)
               \/ LeaveScreen(v) /\ capt[v] = "recording"
    BY <1>7 DEF CameraStep, Prepare, RecordingFails, LeaveScreen, filesVars
  <1>8. ASSUME NEW v \in Videos, CompleteStep(v) \/ RepairStep(v)
        PROVE  UNCHANGED filesVars \/ CompleteMoves(v) \/ RepairMoves(v)
    BY <1>8
    DEF CompleteStep, RepairStep, CompleteMarks, CompleteCannotMove,
        CompleteSaves, CompleteEnqueues, RepairMarks, RepairCannotMove,
        RepairSaves, RepairAdopts, RepairGivesUp, RepairEnqueues
  <1>9. ASSUME NEW v \in Videos, ProcessStep(v) \/ CleanupStep(v)
        PROVE  UNCHANGED filesVars \/ ProcessCopies(v) \/ CleanupDeletes(v)
    BY <1>9
    DEF ProcessStep, CleanupStep, ProcessReads, ProcessMarks,
        ProcessCannotCopy, ProcessSaves, ProcessEnqueues, ProcessSucceeds,
        ProcessFails, CleanupForgets
  <1>10. CASE StartStep \/ Crash \/ ReopenApp
    BY <1>2, <1>10
    DEF StartStep, FindInterrupted, EnqueuePendingProcessing,
        EnqueuePendingUploads, Crash, ReopenApp, Restarts
  <1> QED
    BY <1>2, <1>3, <1>4, <1>5, <1>6, <1>7, <1>8, <1>9, <1>10 DEF CaptureNext

\* A call delivers the video, or changes nothing of what is stored.
LEMMA CallKeepsCustody ==
    ASSUME BoothInv, U!UploadsInv, NEW v \in Videos, CallKeeps(v),
           \A w \in Videos \ {v} : ServerRests(w), UNCHANGED filesVars
    PROVE  [Promise!Next]_(Promise!vars)
  <1>1. OnPhone' = OnPhone
    BY SameFilesKeep
  <1>2. \A w \in Videos \ {v} : Stored(w)' = Stored(w)
    BY RestStores
  <1>3. CASE Stored(v)' = Stored(v)
    BY <1>1, <1>2, <1>3, SameServerStores DEF Promise!vars
  <1>4. CASE ServerRests(v)
    BY <1>3, <1>4, RestStores
  <1>5. CASE /\ upl[v].pc = "opening"
             /\ final[v] # NoFile
             /\ Server!CreateUploadSession(CurrentRequest(v))
    BY <1>3, <1>5, CreateOpens DEF Stored
  <1>6. CASE Server!CompleteUploadSession(SessionOf(v))
    <2>1. /\ session[SessionOf(v)].status # "NONE"
          /\ ~video[v].stored
          /\ video'[v].stored
          /\ videoFile'[v] = session[SessionOf(v)].req.sha
      BY <1>6, CompleteStores
    <2>2. PICK c \in {Cut, Whole} :
              /\ session[SessionOf(v)].req.sha = ShaOf[c]
              /\ OnPhone[v] = c /\ InCloud[v] = NoFile
      BY <2>1, SessionKept
    <2>3. Stored(v)' = c
      BY <2>1, <2>2, DigestsDiffer DEF Stored, ContentOf
    <2>4. InCloud' = [InCloud EXCEPT ![v] = c]
      BY <1>2, <2>3 DEF InCloud, Stored
    <2>5. Promise!Deliver(v)
      BY <1>1, <2>2, <2>4, CaptureAssumption
      DEF CaptureAssumption, Promise!Deliver
    <2> QED
      BY <2>5 DEF Promise!Next
  <1> QED
    BY <1>4, <1>5, <1>6 DEF CallKeeps

\* Every step of the booth is a step of Custody, or none.
LEMMA CustodyStep ==
    ASSUME BoothInv, U!UploadsInv, [Next]_vars
    PROVE  [Promise!Next]_(Promise!vars)
  <1>1. CASE CaptureNext /\ UNCHANGED callVars
    BY <1>1, CaptureKeepsCustody
  <1>2. ASSUME NEW v \in Videos, UploadStep(v)
        PROVE  [Promise!Next]_(Promise!vars)
    <2>1. UNCHANGED filesVars
      BY <1>2
      DEF UploadStep, UploadReads, UploadMissesFile, UploadReserves,
          UploadMarks, UploadOpens, UploadSendsPart, UploadCompletes,
          UploadSaves, UploadSucceeds, UploadInterrupted, UploadRefused,
          UploadNotes, phoneVars
    <2>2. CallKeeps(v) /\ \A w \in Videos \ {v} : ServerRests(w)
      <3>1. CASE \/ UploadReads(v) \/ UploadMissesFile(v)
                 \/ UploadReserves(v) \/ UploadMarks(v) \/ UploadSaves(v)
                 \/ UploadSucceeds(v) \/ UploadRefused(v) \/ UploadNotes(v)
        BY <3>1, CallsKeep
        DEF UploadReads, UploadMissesFile, UploadReserves, UploadMarks,
            UploadSaves, UploadSucceeds, UploadRefused, UploadNotes, callVars
      <3>2. CASE UploadOpens(v)
        BY <3>2, CallsKeep DEF UploadOpens
      <3>3. CASE UploadSendsPart(v)
        BY <3>3, CallsKeep DEF UploadSendsPart
      <3>4. CASE UploadCompletes(v)
        BY <3>4, CallsKeep DEF UploadCompletes
      <3>5. CASE UploadInterrupted(v)
        BY <3>5, CallsKeep DEF UploadInterrupted, CurrentCall
      <3> QED
        BY <1>2, <3>1, <3>2, <3>3, <3>4, <3>5 DEF UploadStep
    <2> QED
      BY <2>1, <2>2, CallKeepsCustody
  <1>3. CASE ServerStep
    <2>1. UNCHANGED filesVars
      BY <1>3 DEF ServerStep, captureVars
    <2>2. \A w \in Videos : Stored(w)' = Stored(w)
      BY <1>3, ServerStepRests, RestStores
    <2> QED
      BY <2>1, <2>2, SameFilesKeep, SameServerStores DEF Promise!vars
  <1>4. CASE UNCHANGED vars
    BY <1>4, SameFilesKeep
    DEF vars, captureVars, serverVars, InCloud, Promise!vars
  <1> QED
    BY <1>1, <1>2, <1>3, <1>4 DEF Next

\* The original is never lost, and not removed before the server has a final
\* file: every step of the booth is one of Custody, or changes nothing.
THEOREM BoothKeepsRecordings == Spec => KeepsRecordings
  <1>1. Init => Promise!Init
    BY CaptureAssumption
    DEF CaptureAssumption, Init, CaptureInit, Server!Init, Promise!Init,
        OnPhone, Copies, InCloud
  <1> QED
    BY <1>1, CustodyStep, BoothSafe, PTL DEF Spec, KeepsRecordings,
       Promise!Spec
=============================================================================
