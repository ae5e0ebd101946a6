------------------------------- MODULE Capture -------------------------------
(***************************************************************************)
(* The booth application: a video from the moment the operator presses     *)
(* record until its final file waits to be uploaded, and the removal of    *)
(* local files.  CaptureRepository.kt, CaptureViewModels.kt, the           *)
(* processing and cleanup workers of SyncRepository.kt, and onCreate of    *)
(* Cabina360Application.kt.                                                *)
(*                                                                         *)
(* Room runs each DAO call on its own: a worker reads a row, works, and    *)
(* writes a copy of what it read over whatever the row is by then.  A file *)
(* and a row are never changed together, and the process may die between   *)
(* any two steps; WorkManager then runs unfinished work again.             *)
(***************************************************************************)
EXTENDS Naturals, FiniteSets

CONSTANTS
    Videos, Tokens,
    Cut, Whole,     \* what a file may hold: a recording cut off, or all of it
    NoFile,         \* a file that is missing or empty
    NoRow, NoToken, NoVideo,
    Pools,          \* the tokens the phone may have when the model begins
    PhoneFaults     \* "leave": the screen is closed; "disk": a write fails

ASSUME CaptureAssumption ==
    /\ Cut # Whole
    /\ NoFile \notin {Cut, Whole}
    /\ NoToken \notin Tokens
    /\ NoVideo \notin Videos
    /\ Pools \subseteq SUBSET Tokens
    /\ PhoneFaults \subseteq {"leave", "disk"}

VARIABLES
    row,        \* LocalVideo rows, or NoRow
    shelf,      \* LocalReservedToken rows that are AVAILABLE
    assigned,   \* assignedVideoId of the rows that are ASSIGNED, or NoVideo
    staging,    \* {id}.recording.mp4
    original,   \* {id}_original.mp4
    final,      \* {id}_final.mp4
    app,        \* the process and how far its onCreate has come
    capt,       \* the coroutine of CaptureViewModel that handles a video
    repair,     \* reconcile: what it is about to do to a video it found
    proc,       \* work process-{id}: where it is, the row it read
    upl,        \* work upload-{id}: where it is, the row it read, parts to send
    cleaner     \* CleanupWorker: where it is, the row it selected

filesVars == <<staging, original, final>>
jobsVars == <<capt, repair, proc, upl, cleaner>>
tokensVars == <<shelf, assigned>>
captureVars == <<row, tokensVars, filesVars, app, jobsVars>>

CaptureStates == {"RECORDING", "SAVING", "SAVED", "FAILED"}
ProcessingStates == {"PENDING", "PROCESSING", "COMPLETED", "FAILED"}
UploadStates == {"PENDING", "UPLOADING", "UPLOADED", "FAILED"}

\* originalPath and finalPath are set or null, and so is uploadedAt.
LocalVideo ==
    [capture : CaptureStates, processing : ProcessingStates,
     upload : UploadStates, original : BOOLEAN, final : BOOLEAN,
     token : Tokens \cup {NoToken}, uploadedAt : BOOLEAN]

\* The row prepare writes; the other fields keep their default values.
RecordingRow(t) ==
    [capture |-> "RECORDING", processing |-> "PENDING", upload |-> "PENDING",
     original |-> FALSE, final |-> FALSE, token |-> t, uploadedAt |-> FALSE]

\* Mutation of SavedRow: the fresh row forgets the token.
SavedWithoutToken(old) ==
    [RecordingRow(NoToken) EXCEPT !.capture = "SAVED", !.original = TRUE]

\* The row complete writes: a fresh one that keeps only the token.
SavedRow(old) ==
    [RecordingRow(old.token) EXCEPT !.capture = "SAVED", !.original = TRUE]

Resting == [pc |-> "none", copy |-> NoRow]
Enqueued == [pc |-> "enqueued", copy |-> NoRow]
UploadResting == [pc |-> "none", copy |-> NoRow, todo |-> {}]
UploadEnqueued == [pc |-> "enqueued", copy |-> NoRow, todo |-> {}]

SetRow(v, r) == row' = [row EXCEPT ![v] = r]
GoTo(v, pc) == capt' = [capt EXCEPT ![v] = pc]

CaptureInit ==
    /\ row = [v \in Videos |-> NoRow]
    /\ shelf \in Pools
    /\ assigned = [t \in Tokens |-> NoVideo]
    /\ staging = [v \in Videos |-> NoFile]
    /\ original = [v \in Videos |-> NoFile]
    /\ final = [v \in Videos |-> NoFile]
    /\ app = "starting"
    /\ capt = [v \in Videos |-> "none"]
    /\ repair = [v \in Videos |-> Resting]
    /\ proc = [v \in Videos |-> Resting]
    /\ upl = [v \in Videos |-> UploadResting]
    /\ cleaner = [v \in Videos |-> Resting]

-----------------------------------------------------------------------------
(***************************************************************************)
(* SyncCoordinator: unique work with ExistingWorkPolicy.KEEP.              *)
(***************************************************************************)
EnqueueProcessing(S) ==
    proc' = [v \in Videos |->
        IF v \in S /\ proc[v].pc = "none" THEN Enqueued ELSE proc[v]]

\* Mutation of EnqueueUpload: the network the work asks for never comes.
EnqueueUnmet(S) == UNCHANGED upl

EnqueueUpload(S) ==
    upl' = [v \in Videos |->
        IF v \in S /\ upl[v].pc = "none" THEN UploadEnqueued ELSE upl[v]]

-----------------------------------------------------------------------------
(***************************************************************************)
(* Recording: CaptureViewModel, CameraX, and CaptureRepository.prepare.    *)
(***************************************************************************)
\* ReservedTokenDao.claim, from the AVAILABLE rows.
Claims(v, t, available) ==
    /\ shelf' = available \ {t}
    /\ assigned' = [assigned EXCEPT ![t] = v]

\* One capture at a time, and not before reconcile has read its list: the
\* operator needs seconds to reach the camera, the first query milliseconds.
Prepare(v) ==
    /\ app # "starting"
    /\ row[v] = NoRow
    /\ \A w \in Videos : capt[w] = "none"
    /\ \/ \E t \in shelf :
             /\ SetRow(v, RecordingRow(t))
             /\ Claims(v, t, shelf)
       \/ /\ shelf = {}
          /\ SetRow(v, RecordingRow(NoToken))
          /\ UNCHANGED tokensVars
    /\ GoTo(v, "countdown")
    /\ UNCHANGED <<filesVars, app, repair, proc, upl, cleaner>>

\* CameraX opens the file; its first bytes may come later.
StartRecording(v) ==
    /\ capt[v] = "countdown"
    /\ \E c \in {NoFile, Cut} : staging' = [staging EXCEPT ![v] = c]
    /\ GoTo(v, "recording")
    /\ UNCHANGED <<row, tokensVars, original, final, app, repair, proc, upl,
                   cleaner>>

\* VideoRecordEvent.Finalize without an error.
FinishRecording(v) ==
    /\ capt[v] = "recording"
    /\ staging' = [staging EXCEPT ![v] = Whole]
    /\ GoTo(v, "finalized")
    /\ UNCHANGED <<row, tokensVars, original, final, app, repair, proc, upl,
                   cleaner>>

\* Finalize with an error, then CaptureRepository.fail.
RecordingFails(v) ==
    /\ capt[v] = "recording"
    /\ SetRow(v, [row[v] EXCEPT !.capture = "FAILED"])
    /\ GoTo(v, "none")
    /\ UNCHANGED <<tokensVars, filesVars, app, repair, proc, upl, cleaner>>

\* viewModelScope is cancelled; a running recording is stopped, and its
\* Finalize event finds no scope to run complete in.
LeaveScreen(v) ==
    /\ "leave" \in PhoneFaults
    /\ capt[v] # "none"
    /\ staging' = IF capt[v] = "recording"
                    THEN [staging EXCEPT ![v] = Whole]
                    ELSE staging
    /\ GoTo(v, "none")
    /\ UNCHANGED <<row, tokensVars, original, final, app, repair, proc, upl,
                   cleaner>>

-----------------------------------------------------------------------------
(***************************************************************************)
(* CaptureRepository.complete, run by the view model or by reconcile: row  *)
(* SAVING, rename, row SAVED, work.                                        *)
(***************************************************************************)
\* Mutation of MarkSaving: the staging file is not looked for.
MarkSavingAnyway(v) == SetRow(v, [row[v] EXCEPT !.capture = "SAVING"])

MarkSaving(v) ==
    /\ staging[v] # NoFile
    /\ SetRow(v, [row[v] EXCEPT !.capture = "SAVING"])

\* Mutation of RenameStaging: the staging file is opened again by a name
\* that is gone, and an empty original replaces the recording.
RenameToEmpty(v) ==
    /\ original' = [original EXCEPT ![v] = NoFile]
    /\ staging' = [staging EXCEPT ![v] = NoFile]

\* AtomicCaptureFile.finalize.
RenameStaging(v) ==
    /\ original' = [original EXCEPT ![v] = staging[v]]
    /\ staging' = [staging EXCEPT ![v] = NoFile]

CompleteMarks(v) ==
    /\ capt[v] = "finalized"
    /\ MarkSaving(v)
    /\ GoTo(v, "moving")
    /\ UNCHANGED <<tokensVars, filesVars, app, repair, proc, upl, cleaner>>

CompleteMoves(v) ==
    /\ capt[v] = "moving"
    /\ RenameStaging(v)
    /\ GoTo(v, "moved")
    /\ UNCHANGED <<row, tokensVars, final, app, repair, proc, upl, cleaner>>

\* The rename fails: the view model shows the error, the row stays SAVING.
CompleteCannotMove(v) ==
    /\ "disk" \in PhoneFaults
    /\ capt[v] = "moving"
    /\ GoTo(v, "none")
    /\ UNCHANGED <<row, tokensVars, filesVars, app, repair, proc, upl, cleaner>>

CompleteSaves(v) ==
    /\ capt[v] = "moved"
    /\ SetRow(v, SavedRow(row[v]))
    /\ GoTo(v, "saved")
    /\ UNCHANGED <<tokensVars, filesVars, app, repair, proc, upl, cleaner>>

CompleteEnqueues(v) ==
    /\ capt[v] = "saved"
    /\ EnqueueProcessing({v})
    /\ GoTo(v, "none")
    /\ UNCHANGED <<row, tokensVars, filesVars, app, repair, upl, cleaner>>

-----------------------------------------------------------------------------
(***************************************************************************)
(* Start of the process: reconcile, then the two scans for pending work.   *)
(***************************************************************************)
\* VideoDao.interruptedCaptures.
Interrupted ==
    {v \in Videos :
        row[v] # NoRow /\ row[v].capture \in {"RECORDING", "SAVING"}}

FindInterrupted ==
    /\ app = "starting"
    /\ app' = "repairing"
    /\ repair' = [v \in Videos |->
           IF v \in Interrupted
             THEN [pc |-> "found", copy |-> row[v]]
             ELSE Resting]
    /\ UNCHANGED <<row, tokensVars, filesVars, capt, proc, upl, cleaner>>

RepairTo(v, pc) == repair' = [repair EXCEPT ![v].pc = pc]
RepairEnds(v) == repair' = [repair EXCEPT ![v] = Resting]

\* The staging file is there: complete it.
RepairMarks(v) ==
    /\ repair[v].pc = "found"
    /\ MarkSaving(v)
    /\ RepairTo(v, "moving")
    /\ UNCHANGED <<tokensVars, filesVars, app, capt, proc, upl, cleaner>>

RepairMoves(v) ==
    /\ repair[v].pc = "moving"
    /\ RenameStaging(v)
    /\ RepairTo(v, "moved")
    /\ UNCHANGED <<row, tokensVars, final, app, capt, proc, upl, cleaner>>

\* complete failed: reconcile writes what it read, as FAILED.
RepairCannotMove(v) ==
    /\ "disk" \in PhoneFaults
    /\ repair[v].pc = "moving"
    /\ SetRow(v, [repair[v].copy EXCEPT !.capture = "FAILED"])
    /\ RepairEnds(v)
    /\ UNCHANGED <<tokensVars, filesVars, app, capt, proc, upl, cleaner>>

RepairSaves(v) ==
    /\ repair[v].pc = "moved"
    /\ SetRow(v, SavedRow(row[v]))
    /\ RepairTo(v, "saved")
    /\ UNCHANGED <<tokensVars, filesVars, app, capt, proc, upl, cleaner>>

\* The file had been renamed before the row was written.
RepairAdopts(v) ==
    /\ repair[v].pc = "found"
    /\ staging[v] = NoFile
    /\ original[v] # NoFile
    /\ SetRow(v, [repair[v].copy EXCEPT
                    !.capture = "SAVED", !.original = TRUE,
                    !.processing = "PENDING", !.upload = "PENDING"])
    /\ RepairTo(v, "saved")
    /\ UNCHANGED <<tokensVars, filesVars, app, capt, proc, upl, cleaner>>

RepairGivesUp(v) ==
    /\ repair[v].pc = "found"
    /\ staging[v] = NoFile
    /\ original[v] = NoFile
    /\ SetRow(v, [repair[v].copy EXCEPT !.capture = "FAILED"])
    /\ RepairEnds(v)
    /\ UNCHANGED <<tokensVars, filesVars, app, capt, proc, upl, cleaner>>

RepairEnqueues(v) ==
    /\ repair[v].pc = "saved"
    /\ EnqueueProcessing({v})
    /\ RepairEnds(v)
    /\ UNCHANGED <<row, tokensVars, filesVars, app, capt, upl, cleaner>>

\* VideoDao.pendingProcessing.
PendingProcessing ==
    {v \in Videos :
        row[v] # NoRow /\ row[v].processing \in {"PENDING", "PROCESSING"}}

\* Mutation of PendingUploads: only uploads that were never begun.
UploadsNotBegun ==
    {v \in Videos : /\ row[v] # NoRow
                    /\ row[v].processing = "COMPLETED"
                    /\ row[v].upload = "PENDING"}

\* VideoDao.pendingUploads.
PendingUploads ==
    {v \in Videos : /\ row[v] # NoRow
                    /\ row[v].processing = "COMPLETED"
                    /\ row[v].upload \in {"PENDING", "UPLOADING", "FAILED"}}

EnqueuePendingProcessing ==
    /\ app = "repairing"
    /\ \A v \in Videos : repair[v].pc = "none"
    /\ app' = "enqueueing"
    /\ EnqueueProcessing(PendingProcessing)
    /\ UNCHANGED <<row, tokensVars, filesVars, capt, repair, upl, cleaner>>

EnqueuePendingUploads ==
    /\ app = "enqueueing"
    /\ app' = "running"
    /\ EnqueueUpload(PendingUploads)
    /\ UNCHANGED <<row, tokensVars, filesVars, capt, repair, proc, cleaner>>

-----------------------------------------------------------------------------
(***************************************************************************)
(* ProcessingWorker and SyncRepository.process.                            *)
(***************************************************************************)
ProcTo(v, pc) == proc' = [proc EXCEPT ![v].pc = pc]
ProcEnds(v) == proc' = [proc EXCEPT ![v] = Resting]

ProcessReads(v) ==
    LET found == row[v].original /\ original[v] # NoFile IN
    /\ proc[v].pc = "enqueued"
    /\ proc' = [proc EXCEPT ![v] =
           [pc |-> IF found THEN "marking" ELSE "failing", copy |-> row[v]]]
    /\ UNCHANGED <<row, tokensVars, filesVars, app, capt, repair, upl, cleaner>>

ProcessMarks(v) ==
    /\ proc[v].pc = "marking"
    /\ SetRow(v, [proc[v].copy EXCEPT !.processing = "PROCESSING"])
    /\ ProcTo(v, "copying")
    /\ UNCHANGED <<tokensVars, filesVars, app, capt, repair, upl, cleaner>>

\* The copy has a staging file of its own, which a later attempt truncates.
ProcessCopies(v) ==
    /\ proc[v].pc = "copying"
    /\ original[v] # NoFile
    /\ final' = [final EXCEPT ![v] = original[v]]
    /\ ProcTo(v, "copied")
    /\ UNCHANGED <<row, tokensVars, staging, original, app, capt, repair, upl,
                   cleaner>>

ProcessCannotCopy(v) ==
    /\ proc[v].pc = "copying"
    /\ "disk" \in PhoneFaults \/ original[v] = NoFile
    /\ ProcTo(v, "failing")
    /\ UNCHANGED <<row, tokensVars, filesVars, app, capt, repair, upl, cleaner>>

ProcessSaves(v) ==
    /\ proc[v].pc = "copied"
    /\ SetRow(v, [proc[v].copy EXCEPT
                    !.final = TRUE, !.processing = "COMPLETED",
                    !.upload = "PENDING"])
    /\ ProcTo(v, "saved")
    /\ UNCHANGED <<tokensVars, filesVars, app, capt, repair, upl, cleaner>>

ProcessEnqueues(v) ==
    /\ proc[v].pc = "saved"
    /\ EnqueueUpload({v})
    /\ ProcTo(v, "succeeded")
    /\ UNCHANGED <<row, tokensVars, filesVars, app, capt, repair, cleaner>>

ProcessSucceeds(v) ==
    /\ proc[v].pc = "succeeded"
    /\ ProcEnds(v)
    /\ UNCHANGED <<row, tokensVars, filesVars, app, capt, repair, upl, cleaner>>

\* SyncRepository.fail: over the row as it was read.
ProcessFails(v) ==
    /\ proc[v].pc = "failing"
    /\ SetRow(v, [proc[v].copy EXCEPT !.processing = "FAILED"])
    /\ ProcEnds(v)
    /\ UNCHANGED <<tokensVars, filesVars, app, capt, repair, upl, cleaner>>

-----------------------------------------------------------------------------
(***************************************************************************)
(* CleanupWorker and SyncRepository.cleanup, once the days the operator    *)
(* chose have passed.                                                      *)
(***************************************************************************)
\* Mutation of CleanupCandidate: an upload that was once begun is enough.
CleanupBegunUpload(v) ==
    /\ row[v] # NoRow
    /\ row[v].upload \in {"UPLOADING", "UPLOADED"}
    /\ row[v].original \/ row[v].final

\* VideoDao.cleanupCandidates.
CleanupCandidate(v) ==
    /\ row[v] # NoRow
    /\ row[v].upload = "UPLOADED"
    /\ row[v].uploadedAt
    /\ row[v].original \/ row[v].final

CleanupDeletes(v) ==
    /\ cleaner[v].pc = "none"
    /\ CleanupCandidate(v)
    /\ original' = IF row[v].original
                     THEN [original EXCEPT ![v] = NoFile] ELSE original
    /\ final' = IF row[v].final THEN [final EXCEPT ![v] = NoFile] ELSE final
    /\ cleaner' = [cleaner EXCEPT ![v] = [pc |-> "deleted", copy |-> row[v]]]
    /\ UNCHANGED <<row, tokensVars, staging, app, capt, repair, proc, upl>>

CleanupForgets(v) ==
    /\ cleaner[v].pc = "deleted"
    /\ SetRow(v, [cleaner[v].copy EXCEPT !.original = FALSE, !.final = FALSE])
    /\ cleaner' = [cleaner EXCEPT ![v] = Resting]
    /\ UNCHANGED <<tokensVars, filesVars, app, capt, repair, proc, upl>>

-----------------------------------------------------------------------------
(***************************************************************************)
(* The process dies, and is started again by the operator or by            *)
(* WorkManager, which keeps its requests and runs again what had not       *)
(* reported a result; everything else in memory is gone.                   *)
(***************************************************************************)
Rescheduled(job, waiting, resting) ==
    [v \in Videos |-> IF job[v].pc = "none" THEN resting ELSE waiting]

Restarts ==
    /\ app' = "starting"
    /\ capt' = [v \in Videos |-> "none"]
    /\ repair' = [v \in Videos |-> Resting]
    /\ cleaner' = [v \in Videos |-> Resting]
    /\ proc' = Rescheduled(proc, Enqueued, Resting)
    /\ upl' = Rescheduled(upl, UploadEnqueued, UploadResting)
    /\ UNCHANGED <<row, tokensVars, filesVars>>

NothingToDo ==
    /\ app = "running"
    /\ \A v \in Videos :
          /\ capt[v] = "none"
          /\ proc[v].pc = "none"
          /\ upl[v].pc = "none"
          /\ cleaner[v].pc = "none"

Crash ==
    /\ ~NothingToDo
    /\ Restarts

\* The operator closes the application for the day, and opens it again.
ReopenApp == NothingToDo /\ Restarts

CameraStep(v) ==
    \/ Prepare(v)
    \/ StartRecording(v)
    \/ FinishRecording(v)
    \/ RecordingFails(v)
    \/ LeaveScreen(v)

CompleteStep(v) ==
    \/ CompleteMarks(v)
    \/ CompleteMoves(v)
    \/ CompleteCannotMove(v)
    \/ CompleteSaves(v)
    \/ CompleteEnqueues(v)

RepairStep(v) ==
    \/ RepairMarks(v)
    \/ RepairMoves(v)
    \/ RepairCannotMove(v)
    \/ RepairSaves(v)
    \/ RepairAdopts(v)
    \/ RepairGivesUp(v)
    \/ RepairEnqueues(v)

StartStep ==
    \/ FindInterrupted
    \/ EnqueuePendingProcessing
    \/ EnqueuePendingUploads

ProcessStep(v) ==
    \/ ProcessReads(v)
    \/ ProcessMarks(v)
    \/ ProcessCopies(v)
    \/ ProcessCannotCopy(v)
    \/ ProcessSaves(v)
    \/ ProcessEnqueues(v)
    \/ ProcessSucceeds(v)
    \/ ProcessFails(v)

CleanupStep(v) ==
    \/ CleanupDeletes(v)
    \/ CleanupForgets(v)

CaptureNext ==
    \/ \E v \in Videos :
          \/ CameraStep(v)
          \/ CompleteStep(v)
          \/ RepairStep(v)
          \/ ProcessStep(v)
          \/ CleanupStep(v)
    \/ StartStep
    \/ Crash
    \/ ReopenApp
=============================================================================
