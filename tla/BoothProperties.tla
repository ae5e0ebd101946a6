--------------------------- MODULE BoothProperties ---------------------------
(***************************************************************************)
(* What the booth promises about its recordings.                           *)
(***************************************************************************)
EXTENDS Booth

\* Where the workers may be, and what they may have read.
RepairPlaces ==
    [pc : {"none", "found", "moving", "moved", "saved"},
     copy : LocalVideo \cup {NoRow}]
ProcessPlaces ==
    [pc : {"none", "enqueued", "marking", "copying", "copied", "saved",
           "succeeded", "failing"},
     copy : LocalVideo \cup {NoRow}]
UploadPlaces ==
    [pc : {"none", "enqueued", "missing", "reserving", "marking", "opening",
           "sending", "waiting", "succeeded", "retrying", "refused"},
     copy : LocalVideo \cup {NoRow}, todo : SUBSET Server!AllPartNumbers]
CleanupPlaces == [pc : {"none", "deleted"}, copy : LocalVideo \cup {NoRow}]

\* Rows, files, workers and calls have the shape the code gives them.
BoothTypeOK ==
    /\ row \in [Videos -> LocalVideo \cup {NoRow}]
    /\ shelf \subseteq Tokens
    /\ assigned \in [Tokens -> Videos \cup {NoVideo}]
    /\ staging \in [Videos -> {NoFile, Cut, Whole}]
    /\ original \in [Videos -> {NoFile, Cut, Whole}]
    /\ final \in [Videos -> {NoFile, Cut, Whole}]
    /\ app \in {"starting", "repairing", "enqueueing", "running"}
    /\ capt \in [Videos -> {"none", "countdown", "recording", "finalized",
                            "moving", "moved", "saved"}]
    /\ repair \in [Videos -> RepairPlaces]
    /\ proc \in [Videos -> ProcessPlaces]
    /\ upl \in [Videos -> UploadPlaces]
    /\ cleaner \in [Videos -> CleanupPlaces]
    /\ known \in [Videos -> BOOLEAN]

-----------------------------------------------------------------------------
(***************************************************************************)
(* Booth implements Custody.                                               *)
(***************************************************************************)
Copies(v) == {staging[v], original[v], final[v]}

OnPhone ==
    [v \in Videos |-> IF Whole \in Copies(v) THEN Whole
                      ELSE IF Cut \in Copies(v) THEN Cut ELSE NoFile]

ContentOf(sha) == CHOOSE c \in {Cut, Whole} : ShaOf[c] = sha
InCloud ==
    [v \in Videos |-> IF video[v].stored THEN ContentOf(videoFile[v])
                                         ELSE NoFile]

Promise == INSTANCE Custody WITH
    Nothing <- NoFile, phone <- OnPhone, cloud <- InCloud

\* docs/mvp-scope.md: the original recording is never lost, and not removed
\* before the server has a final file (line 65).  Through deaths of the
\* process, workers that write stale rows, delayed calls and sessions that
\* expire, a recording is on the phone until the server stores it whole.
KeepsRecordings == Promise!Spec

\* The row of an uploaded video, and of one whose local files are released,
\* tells the truth: the server stores what was recorded.
UploadedRowsAreTrue ==
    \A v \in Videos :
        row[v] # NoRow /\ row[v].upload = "UPLOADED" => video[v].stored

\* A row never points to a file that is gone while the server lacks the
\* video: whatever order stale rows are written in, the next worker finds
\* the original it needs, and a final file is a copy of the original.
RowsHaveTheirFiles ==
    \A v \in Videos : row[v] # NoRow /\ ~video[v].stored =>
        /\ row[v].original => original[v] # NoFile
        /\ row[v].final => final[v] = original[v]

\* A recording that is not stored by the server is never forgotten: its row
\* says that it failed, or the next start of the application takes it up.
\* The three queries a start makes cover every state that stale rows, deaths
\* of the process and refusals of the server can leave.
Failed(r) == r.capture = "FAILED" \/ r.processing = "FAILED"
RecordingsAreRemembered ==
    \A v \in Videos : OnPhone[v] # NoFile /\ ~video[v].stored =>
        \/ v \in Interrupted \cup PendingProcessing \cup PendingUploads
        \/ row[v] # NoRow /\ Failed(row[v])

\* The QR code shown after a recording is that of the token it was recorded
\* with, one of Pools.  Whatever happened to the row since, the guest who
\* scans it finds the video: the server has it under that token.
QrCodesLeadToTheirVideo ==
    \A v \in Videos, t \in UNION Pools :
        assigned[t] = v /\ video[v].stored => video[v].req.token = t

-----------------------------------------------------------------------------
(***************************************************************************)
(* The inductive invariant of the proofs in BoothProofs: what is true of a *)
(* video at every step, of its row and of every copy of it that a worker   *)
(* read and may still write.                                               *)
(***************************************************************************)
Held(v) == {row[v], repair[v].copy, proc[v].copy, upl[v].copy,
            cleaner[v].copy} \ {NoRow}

\* A video without a row has left no trace.
Untouched(v) ==
    /\ capt[v] = "none"
    /\ repair[v].pc = "none" /\ repair[v].copy = NoRow
    /\ proc[v].pc = "none" /\ proc[v].copy = NoRow
    /\ upl[v].pc = "none" /\ upl[v].copy = NoRow
    /\ cleaner[v].pc = "none" /\ cleaner[v].copy = NoRow
    /\ staging[v] = NoFile
    /\ original[v] = NoFile
    /\ final[v] = NoFile
    /\ session[SessionOf(v)].status = "NONE"

\* Before the rename only the staging file may exist.
BeforeRename(v) ==
    \/ capt[v] \in {"countdown", "recording", "finalized", "moving"}
    \/ repair[v].pc = "moving"
    \/ staging[v] # NoFile
CameraInv(v) ==
    /\ BeforeRename(v) =>
          /\ original[v] = NoFile
          /\ final[v] = NoFile
          /\ session[SessionOf(v)].status = "NONE"
    /\ capt[v] = "countdown" => staging[v] = NoFile
    /\ capt[v] = "recording" => staging[v] # Whole
    /\ capt[v] = "moving" \/ repair[v].pc = "moving" => staging[v] # NoFile
    /\ capt[v] # "none" => app # "starting" /\ repair[v].pc = "none"

\* What a worker read suits the place it has come to.
RepairInv(v) ==
    repair[v].pc # "none" =>
        /\ repair[v].copy # NoRow
        /\ repair[v].copy.capture \in {"RECORDING", "SAVING"}
ProcessInv(v) ==
    proc[v].pc \notin {"none", "enqueued"} =>
        /\ proc[v].copy # NoRow
        /\ proc[v].pc # "failing" => proc[v].copy.original
UploadInv(v) ==
    /\ upl[v].pc \notin {"none", "enqueued"} => upl[v].copy # NoRow
    /\ upl[v].pc \in {"reserving", "marking", "opening", "sending", "waiting",
                      "succeeded"} => upl[v].copy.final
    /\ upl[v].pc = "reserving" => upl[v].copy.token = NoToken
    /\ upl[v].pc \in {"marking", "opening", "sending", "waiting",
                      "succeeded"} => upl[v].copy.token # NoToken
CleanupInv(v) ==
    cleaner[v].pc # "none" =>
        /\ cleaner[v].copy # NoRow
        /\ cleaner[v].copy.upload = "UPLOADED"
JobsInv(v) == RepairInv(v) /\ ProcessInv(v) /\ UploadInv(v) /\ CleanupInv(v)

RowShape(r) ==
    /\ r.original => r.capture = "SAVED"
    /\ r.final => r.original
    /\ r.upload = "UPLOADED" /\ r.original => r.final
HasItsFiles(v, r) ==
    /\ r.original => original[v] # NoFile
    /\ r.final => final[v] = original[v]
HeldInv(v) ==
    \A r \in Held(v) :
        /\ RowShape(r)
        /\ IF video[v].stored THEN TRUE
           ELSE r.upload # "UPLOADED" /\ HasItsFiles(v, r)

FilesInv(v) ==
    ~video[v].stored =>
        /\ final[v] # NoFile => final[v] = original[v]
        /\ capt[v] = "moved" \/ repair[v].pc = "moved" => original[v] # NoFile
        /\ proc[v].pc = "copied" =>
              original[v] # NoFile /\ final[v] = original[v]

\* The one session of a video carries what the final file holds, and what
\* the server stores is what the phone recorded.
SessionInv(v) ==
    LET s == session[SessionOf(v)] IN
    /\ s.status # "NONE" =>
          \E t \in Tokens, c \in {Cut, Whole} :
              /\ s.req = RequestFor(v, t, c)
              /\ {original[v], final[v]} \subseteq {NoFile, c}
              /\ ~video[v].stored => final[v] = c
              /\ video[v].stored => videoFile[v] = ShaOf[c]
    /\ video[v].stored => s.status = "COMPLETED"

\* A token of Pools that was assigned to a video is never forgotten, and a
\* video is without a token only when the phone had none left.
PoolTokens == UNION Pools
TokensInv(v) ==
    /\ \A t \in PoolTokens : assigned[t] = v =>
          /\ row[v] # NoRow
          /\ \A r \in Held(v) : r.token = t
          /\ session[SessionOf(v)].status # "NONE" =>
                session[SessionOf(v)].req.token = t
    /\ \A r \in Held(v) : r.token = NoToken => shelf \cap PoolTokens = {}

VideoInv(v) ==
    /\ row[v] = NoRow => Untouched(v)
    /\ CameraInv(v)
    /\ JobsInv(v)
    /\ HeldInv(v)
    /\ FilesInv(v)
    /\ SessionInv(v)
    /\ TokensInv(v)

BoothInv == BoothTypeOK /\ \A v \in Videos : VideoInv(v)

-----------------------------------------------------------------------------
Recorded(v) == row[v] # NoRow /\ Whole \in Copies(v)

\* A token that was assigned to a video while it waited for its upload is
\* lost again under the stale row of a second processing: the server then
\* refuses to open the session with another token.
TokenLost(v) == \E t \in Tokens : assigned[t] = v /\ row[v].token # t

\* The server has no session for the video and will not open one: its event
\* is gone, or the plan has no room for it.
Declined(v) ==
    /\ session[SessionOf(v)].status = "NONE"
    /\ \E t \in Tokens \cap {row[v].token}, c \in {Cut, Whole} \cap {final[v]} :
          \/ EventOf[t] \notin openEvents
          \/ ~Server!FitsQuota(RequestFor(v, t, c))

\* docs/mvp-scope.md:24: WorkManager resumes the uploads.  While sessions do
\* not expire, a whole recording reaches the server, through deaths of the
\* process, lost calls and answers, and refusals that pass, unless the booth
\* shows it as failed, its token is lost, or the server declines it.
RecordingsArrive ==
    \A v \in Videos :
        Recorded(v) ~> \/ video[v].stored
                       \/ /\ row[v] # NoRow
                          /\ Failed(row[v]) \/ TokenLost(v) \/ Declined(v)

\* docs/android-sync.md:65: permanent errors, such as a subscription without
\* capacity, end in FAILED.
PermanentErrorsFail ==
    [][\A v \in Videos :
          upl[v].pc = "refused" /\ upl'[v].pc = "none"
              => row'[v].upload = "FAILED"]_vars

(***************************************************************************)
(* The process, its coroutines and WorkManager's work go on; it does not   *)
(* die again and again; the operator opens the application again and       *)
(* closes it at the end of the day; and the network fails some calls, and  *)
(* the account is refused some, but not for ever.                          *)
(***************************************************************************)
PhoneStep ==
    \/ StartStep
    \/ ReopenApp
    \/ \E v \in Videos : CompleteStep(v) \/ RepairStep(v) \/ ProcessStep(v)

CallAnswered(v) ==
    \/ UploadReserves(v)
    \/ UploadSendsPart(v)
    \/ UploadCompletes(v)

FairSpec ==
    /\ Spec
    /\ <>[][~Crash]_vars
    /\ WF_vars(PhoneStep /\ UNCHANGED callVars)
    /\ \A v \in Videos :
          /\ WF_vars(UploadStep(v))
          /\ SF_vars(UploadOpens(v))
          /\ SF_vars(CallAnswered(v))
=============================================================================
