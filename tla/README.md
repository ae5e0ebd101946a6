# Cabina 360: verification project

TLA+ models, TLC runs and TLAPS proofs for the Cabina 360 system: an Android
application that records videos at a booth, and a Django/Celery backend that
receives them in resumable uploads, prepares them with ffmpeg and shows them in a
public gallery. Paths below are relative to `src/`.

## 1. The system

| part | state | operations | talks to |
|---|---|---|---|
| uploads (`backend/apps/uploads`) | `UploadSession`, `UploadPart` rows; `Video` and `ReservedVideoToken` rows it shares; part files | create, store part, complete, abort; hourly cleanup; on_commit callbacks | storage, videos (status, message `prepare_public_video`), events (tokens), subscriptions (quota) |
| videos (`backend/apps/videos`) | `Video` rows, thumbnails, Celery messages | `prepare_public_video`, `enqueue_unprocessed_videos`, `delete_video` | storage, tokens, broker |
| storage (`backend/apps/storage`) | files below `MEDIA_ROOT` | `put_stream`, `compose`, `delete`, `delete_many` | uploads, videos |
| events (`backend/apps/events`) | `Event`, `ReservedVideoToken` rows | create with token pool, start, finish, destroy, PATCH; public views | subscriptions (monthly limit, retention) |
| public portal (`backend/apps/events/views.py`) | none that is read again | event page, video page, media with `Range` | videos, events |
| operators, subscriptions | devices, memberships, plans | register device, assign plan | the lock of the operator row, shared with events |
| accounts | refresh tokens (simplejwt) | login, refresh, logout | every request |
| capture (Android `data/capture`) | Room row of a video, staging and final file | prepare, complete, fail, reconcile | sync |
| sync (Android `data/sync`) | Room rows of videos and upload tasks, WorkManager jobs | process, upload, retry, cleanup | uploads API |
| session (Android `data/remote`, `data/security`) | stored tokens | authenticate, login, logout | accounts API |

Hard behaviours, and what makes the parts correct:

- **Database and files are two stores.** A transaction commits or rolls back; a
  file replaced inside it stays. A process may die between the two, and
  `transaction.on_commit` callbacks run after the commit or not at all. What must
  hold: a row with a `storage_key` has its declared file; a confirmed part is on disk.
- **Retries with new and old keys.** Clients repeat create, parts and complete, an
  expired session is replaced by one with another key. What must hold: one open
  session per video, a token for one video, the quota, and an acknowledgement only
  for what is stored.
- **At-least-once messages.** `acks_late`, `reject_on_worker_lost` and `autoretry_for`
  give duplicate and concurrent executions. What must hold: a `READY` video can be
  played, and an uploaded one does not wait for ever.
- **Stale reads.** `delete_video` and `prepare_public_video` use two transactions and
  go on with what the first one read.
- **Counting and then writing.** The monthly limit of events and the limit of devices
  are counted in one statement and used up in a later one; what holds them is the lock
  of the operator row. A PATCH of an event has no such lock: it saves every field of a
  row it read earlier.
- **Process death on the phone** between file and row, and WorkManager retries
  against a server that may already have done the work. Every worker writes back a
  whole row it read before it worked. What must hold: a recording is never lost, never
  forgotten, and leaves the phone only when the server has all of it.

`PROJECT.json` lists each hazard at its line with the properties that cover it.

## 2. Modules

| module | models |
|---|---|
| `PartLayout` | `expected_part_size` as operators: number, offset and size of parts |
| `Uploads` | `uploads/services.py` and `uploads/tasks.py` |
| `UploadsProperties` | their invariants, action and liveness properties, the refinement mapping |
| `VideoLibrary` | what uploads promise to a booth, with no sessions, parts or retries |
| `VideoPipeline` | extends `Uploads` with `videos/tasks.py`, `processing.py`, `videos/services.py` |
| `Portal` | the public views of `events/views.py`: what each answers, from the rows and files of `VideoPipeline` |
| `VideoPipelineProperties` | the properties of both |
| `Capture` | the Android application up to the upload: `CaptureRepository.kt`, `CaptureViewModels.kt`, the processing and cleanup workers of `SyncRepository.kt`, `Cabina360Application.kt` |
| `Booth` | composes `Capture` with `Uploads` (INSTANCE): the upload worker calls the server |
| `Custody` | what the booth promises: who has a recording |
| `BoothProperties` | the invariants, among them the inductive one, the liveness of uploads, and the mapping from Booth to Custody |
| `OperatorPlan` | `events/services.py` and the PATCH of an event, the registration of devices, `subscriptions` |
| `ByteRange` | `_video_bytes` of the portal: what a `Range` header is answered |
| `OperatorPlanProperties` | their properties, that of the portal through the condition under which an event is shown |
| `MCUploads`, `MCVideoPipeline`, `MCBooth`, `MCOperatorPlan` | constants of the TLC instances |
| `PartLayoutProofs`, `UploadsProofs`, `UploadsSizeProofs`, `UploadsRefinementProofs`, `VideoPipelineProofs`, `VideoWorkProofs`, `BoothProofs`, `OperatorPlanProofs` | theorems |

### Uploads

One action is one database transaction: `create_upload_session` holds the lock of the
operator row, the other operations hold the lock of the session and of its video
(`select_for_update`), so no two of them interleave on the same rows. What is *not* in
the transaction is separate:

- `StoreUploadPart` / `StorePartChecksumMismatch` / `StorePartRolledBack`: the same
  call when it commits, when `X-Part-SHA256` does not match, and when it dies after
  `os.replace`. The file changes in all three, the rows in the first only.
- `CompleteUploadSession`, `CompleteChecksumMismatch`, `CompleteInvalidContent`,
  `CompleteRolledBack`, `CompleteAgain`: likewise for `complete_upload_session`.
- `RunHooks`, `LoseHooks`: the callbacks of a committed transaction. `hooks` holds the
  callbacks that are due; a client gets its answer only after they ran.

`session[<<operator, key>>]` is the row found by its unique (operator, idempotency key).
`lapsed` says that `expires_at` has passed. A body is a size and a tag; the SHA-256 of a
part is its tag, that of a file the function from part numbers to tags. `reply` is the
last answer a client got from complete. `Mp4Heads` are first parts with `ftyp` at bytes
4 to 8. Mutations of definitions (`PartRowFromOne`, `TokenOfEvent`, ...) stand before the
definition they mutate; no action uses them.

Not in the model: progress counters (`received_bytes`), file names, MIME types and
durations, the answer to a creation whose key was used (no state changes), a missing
subscription (a refusal), and the order of the answer's fields.

### VideoPipeline

`job[w]` is the execution of worker `w` between the first and the last transaction of
`prepare_public_video`, with the row it read; `queue` and `retry` count the messages of a
video that are first deliveries and retries. `StartPreparation`, `SkipPreparation` and
`FinishPreparation` are its transactions, `ReadSource` and `WriteThumbnail` the file
accesses of `process_video_file`, `FailPreparation` the `except`, `FailTransaction` a last
transaction that is rolled back, `RetryPreparation` Celery's `autoretry_for`, `LoseWorker` a
dead worker whose message is redelivered, `ExceedTimeLimit` a killed execution whose
message is not. Celery and Redis are not part of the repository; their actions follow the
options at `videos/tasks.py:17-26` and are marked external. A thumbnail is named by the
content it was made from.

`delete_video` is `MarkForDeletion`, `RemoveFiles`, `FinishDeletion`; `AbandonDeletion` is a
death or a refused deletion, after any prefix of the keys that ends between the video, the
thumbnail and the parts. `marked` is a history variable.

Not in the model: a database failure in the *first* transaction of the task (it retries
with nothing changed), the twenty minutes after which a `PROCESSING` video is stale
(`EnqueueUnprocessedVideos` takes any subset), the batch size of 100.

### Portal

The views read and change nothing, so each is an operator: `PublicEvent` the videos on the
page of an event, `PublicVideo` the page behind a QR code, `PublicThumbnail` and `VideoBytes`
the file that is sent. `openEvents` of `Uploads` loses an event that is destroyed; `hidden` stands
for the other reasons not to show one, public access switched off and retention that has
passed, and is any set of events (`OperatorPlan` has the condition itself). The views do not
agree on what they look at: the page looks at the status of the token and at the event of
the token, the list at the event of the video, thumbnail and bytes at neither status.

Not in the model: the log of accesses (`PublicVideoAccess`), the fields of the answers and
the headers other than `Range`.

### Capture and Booth

Room runs each DAO call on its own, and files are not in its transactions. So an action
is one DAO write or one change of a file, and every coroutine and worker has a program
counter and the *copy* of the row it read: `capt[v]` (the view model), `repair[v]`
(`reconcile` at the start of the process), `proc[v]`, `upl[v]`, `cleaner[v]` (WorkManager).
A worker writes its copy with some fields changed over whatever the row is by then, as
`VideoDao.update` does. `staging`, `original` and `final` are the three files of a video.

`Crash` kills the process in any state, any number of times: coroutines vanish, the work
WorkManager has not seen the end of is enqueued again, `app` runs `onCreate` once more
(`FindInterrupted`, the repairs, the two scans). `PhoneFaults` adds the screen that is
left while recording and the writes that fail. `Pools` are the tokens the phone may hold
when the model begins.

A call of `UploadOpens`, `UploadSendsPart` or `UploadCompletes` takes the server's step
and the phone's in one: nothing else on the phone depends on the moment in between.
`UploadInterrupted` is the call whose answer does not come, with the server's step
(`CurrentCall`) or without it; `UploadRefused` is a 4xx. `known[v]` says that the
`uploadId` is saved. The server may let sessions lapse and clean them up (`MayExpire`), and an
event may be destroyed (an event is looked at only when a session is created, so the model
takes that step only while some video has none).

Refusals: `CreateRefused` is a key that came with another request (`KeyConflicts`), or a
first creation that fails the checks of `create_upload_session` (`Admitted`: event, token,
video, quota). `PartRefused` and `CompleteRefused` look at the session. What depends on the account
alone is not followed through its rows: with `MayRefuse` any call may be refused with 403 for
the membership, the reservation of a token with 403 for the subscription
(`events/views.py:56`) and a creation with 400 when there is none (`uploads/services.py:54`),
at any time and any number of times. After a refusal the row is what it was and the work has
ended (`UploadNotes`).

Merged steps: `Prepare` and `UploadReserves` claim a token and write the row at once; a
death between the two would only leave a token that no video uses. `Prepare` waits for the
first query of `reconcile`, because an operator needs seconds to reach the camera; no lock
in the code makes it wait, which is listed as a hazard. The cleanup of a day is any moment
after the upload. Not in the model: progress percentages, retry counters, thumbnails of the
phone, the choice of network for the upload, the videos of a logged-out operator.

### OperatorPlan

`CreateCounts` / `CreateCommits` and `RegisterCounts` / `RegisterCommits` are the two halves
of the transactions that count under `select_for_update` of the operator; `lock[o]` is that
lock, `job[r]` the request handler between the halves. `EditReads` and `EditSaves` are a
PATCH: the copy it saves, with every field, may be old. `start`, `finish`, `destroy` and
`assign` are one step each. `month` is the calendar month, in which events are counted, and
the retention of a finished event is one month after it.

Not in the model: the names, texts and settings of events and the version number of the
settings, since no property tells them apart; the Django admin, which edits plans and rows
at will, so the limits of a plan are constants here; the event states EXPIRED and
PENDING_DELETE, which no code writes. `Followed` is a bound: the events that are started,
edited, finished or destroyed once created.

## 3. Runs

| run | question | result |
|---|---|---|
| `uploads_faults` | two operators, seven possible creations, every fault: all safety properties, and `ImplementsLibrary` | holds (481 thousand states) |
| `uploads_mismatch` | does a failed verification end the session | **no** (finding) |
| `uploads_abort` | can an abort fail an uploaded video | **yes** (finding) |
| `pipeline_faults` | can a `READY` video always be played | holds (531 thousand states) |
| `pipeline_live` | is work ever lost, does every video settle, does every session end, do closed sessions free their parts | holds (92 thousand states) |
| `pipeline_delete` | do deletions spare the other video; does the gallery open what it lists | holds (1.16 million states) |
| `pipeline_deleted` | does a deleted video stay deleted | **no** (finding) |
| `pipeline_lost` | does a video settle when the broker is down | **no** (finding) |
| `booth` | does the booth keep, remember and rightly release its recordings (Booth implements Custody); does `BoothInv`, the inductive invariant of its proofs, hold | holds (709 thousand states) |
| `booth_live` | does every whole recording reach the server while sessions do not expire | holds, with the exceptions named below (449 thousand states) |
| `booth_refused` | do permanent errors of the upload end in FAILED | **no** (finding) |
| `operator` | limits, installations, stories of events, ranges | holds (734 thousand states) |

Deadlock is not checked: a system in which every video is uploaded and nobody calls has
nothing to do.

### Bounds

- `MCUploads`: 2 operators, 2 videos, 2 keys, 3 tokens, files of at most two parts.
  Two keys are what a replacement of an expired session needs; the second operator
  asks for the video and for the token of the first; a file has a full and a short part
  (`PartSize` 2, sizes 1 to 3); a short part may have the wrong bytes; one request does not fit
  the quota beside another one, one is no MP4. Nothing else bounds the module.
- `MCVideoPipeline`: `OneVideoTwice` is one video with two keys, two workers and
  duplicate messages; `TwoVideos` is two videos with a key each and deletions.
  `MaxRetries` is 1 (3 in the code: a second retry repeats the first), `MaxLosses` is 1
  worker death, `MaxDeletions` 1 deletion at a time (any number one after another),
  `MaxMessages` bounds only what `EnqueueUnprocessedVideos` adds: it waits while a video
  has 2 messages or executions. A file has one part here; `TwoPartsTwice`, for the run
  with liveness properties, has two, of which the second may arrive with the wrong bytes.
  What several parts do to the safety properties is the matter of `MCUploads`. Of the faults of uploads, `pipeline_faults` has the broker
  that loses messages and `pipeline_delete` the disk that refuses deletions; files left by
  a crash before a commit are those `uploads_faults` explores.
- Symmetry: the two workers and the two keys of `OneVideoTwice`, and the exchange of
  the two videos of `TwoVideos`, are used in runs without liveness properties.
- `MCBooth`: one video, since the workers of different videos share no row and no file; a
  whole recording has two parts and a cut one has one, so an interrupted recording that
  was repaired differs from a whole one in digest, size and number of parts. Two tokens: the
  one in the pool and the one reserved later. Deaths of the process are not bounded.
  `booth` and `booth_live` have refusals by the account (`MayRefuse`) and a plan with room for the
  whole recording; `booth_refused` has no refusal by the account and a plan without room for it
  (`FullQuota`). `booth_live` has no fault of screen or disk, and no expiry (section 4).
- `MCOperatorPlan`: two operators who compete for the same installations, two requests
  at a time, two plans with limits 1 and 2, so that the second request is at the limit of
  one and below that of the other, and one month that ends (`LastMonth`). One of the
  two events is `Followed`; the other is only counted. Ranges are checked for files of up to
  a few bytes and starts and ends on both sides of the size: the arithmetic has no other
  boundary.
- Symmetry: operators' requests and installations are interchangeable in `operator`, which
  has no liveness property.

`RecordingsArrive` says that a whole recording is stored by the server in the end, unless its
row is FAILED, its token was lost (`TokenLost`, below), or the server has no session for it and
will not open one because the event is gone or the plan is full (`Declined`). In the last case
the code leaves the row as if the upload went on (finding 5). A refusal by the account
is no exception, because it may pass: the next start of the application sends the video again.

### Fairness

`FairPipelineSpec`: time passes (`Lapse`), Beat runs the cleanup every hour
(`base.py:147-152`), callbacks run in the thread that committed, and each worker goes on as
long as it can do something. No client is assumed to do anything, and nothing is assumed of
`EnqueueUnprocessedVideos`, since no schedule runs it. `FairSpec` of
`BoothProperties`: the process and WorkManager go on (weak fairness of their
steps), the process does not die for ever (`<>[][~Crash]_vars`), the operator opens the
application again, and neither the network loses every call nor the account is refused
every call (strong fairness of `UploadOpens` and of the answered calls: WorkManager retries
with backoff and without a limit, `UploadWorker` returns `retry` for every exception that is
not a refusal, and a start of the application sends a refused video again). Nothing is assumed of the
camera or of the operator's choice to record.

## 4. Findings

1. **A failed verification leaves the session open** (`uploads/services.py:252`). FAILED
   and CORRUPT are saved and rolled back by the exception that follows; wrong parts are
   "in place" and cannot be replaced, so the video waits for the expiry of the session.
2. **Aborting an old session fails an uploaded video** (`uploads/services.py:316`).
3. **A deleted video comes back** (`uploads/services.py:206`): its sessions stay open and
   parts and completions write the status of the video unconditionally.
4. **Lost messages stay lost** (`config/settings/base.py:163`): the schedule of the recovery
   task stands in `LOGGING`.

5. **A refused recording is not shown as failed** (`SyncRepository.kt:230`). On a permanent error
   the work ends, but only `retryCount` and `lastError` of the row change, so the video is shown
   as being uploaded; `docs/android-sync.md:65` says that such errors end in FAILED. Every start
   of the application sends the video again (`RecordingsAreRemembered`).

Three more places where code and documents disagree are described here, without a run
of their own:

- **An expired session is final for the phone** (`uploads/services.py:33`). The idempotency key of
  a video never changes (`android:{id}`), a creation with it returns the session it opened,
  expired or not, and the phone asks for it by its saved id. The next part is refused, and
  every later start of the application repeats this. `docs/mvp-scope.md:24` says "Al recuperar
  la conexión, WorkManager reanuda las subidas sin duplicarlas." `RecordingsArrive` is therefore
  checked with `MayExpire = FALSE`; with `TRUE` the same run refutes it.
- **A token may be lost under a stale row.** After a death of the process, a second
  execution of the processing worker may write the row it read over one that meanwhile has
  a token. The next upload reserves another one, and the server refuses the creation with
  the same key and another token. `TokenLost` is the exception in `RecordingsArrive`.
- **A stale PATCH brings an event back** (`events/serializers.py:115`): it saves every field of the
  row it read. `OnlyEditsGoBack` says that nothing else does; `docs/architecture.md:95` lists
  the states as a one-way chain.

## 5. Proofs

For every value of the constants that satisfies `UploadsAssumption` and
`PartSizeAssumption`, and for any number of operators, videos, keys and parts:

- `PartsTile`: the parts of `expected_part_size` cover a file without gap or overlap.
- `UploadsTyped`, `OneSessionPerVideo`, `StoredIsVerified`, `CompletedIsTrue`,
  `TokensStayBound` follow from the inductive invariant `UploadsInv`. Alone none of them
  is inductive: that a completion cannot replace a stored file needs to know that an
  open session and its video agree on the declared digest (`RowsHaveRequests`), and
  that an answer is true needs to know that callbacks belong to completed sessions
  (`AnswersFollowCommits`).
- `ConfirmedOnDisk` needs `PartsInv` beside it: rows are those of `expected_part_size`, and
  callbacks only delete parts of sessions that are closed.
- `ClosedSessionsStay`, `ConfirmedPartsStay`: action properties, from the same invariants.
- `UploadingIsHeld`: inductive relative to `UploadsInv`, by the kinds of steps a
  session can take (`SessionStepKinds`). It says that an open session holds every video shown
  as uploading, so an abort or the cleanup still ends that status; not that the session can
  finish, which finding 1 and a lapsed session with a part missing refute.
- `UploadsImplementLibrary`: `Spec => ImplementsLibrary`. Every step of uploads publishes one
  video, acknowledges one, or is invisible to the library.

About the operators' plans, for any number of operators, requests, events, installations
and months, from `PlanAssumption`:

- `RangeServesRequest`: for every size and header, an answer 206 is a range within the file, begins where the request
  says and is as long as it may be; 416 is only for a start outside the file.
- `PlanInv` is inductive: the type invariant with the agreement of locks and jobs, the
  stories of events, and what a request in its second half may rely on (`CreationsFit`,
  `RegistrationsFit`: what was counted is still true, because only the holder of the
  lock adds rows of that operator; `EditsKnowTheirEvent`: a copy is of the row it will be
  saved over). The limits alone are not inductive: between counting and writing they hold
  whether or not anybody else writes.
- `EventLimitHolds`, `DeviceLimitHolds`, `InstallationKeepsOperator`, `StoriesAreWhole`,
  `OnlyPatchGoesBack`, `PublicRangesAreServed` and `TypeCorrect` follow from it. Counting uses
  the facts about cardinalities of `FiniteSetTheorems`.

About tasks and deletions, from `UploadsAssumption` and `PipelineAssumption`:

- `PipelineInv` is inductive. `UploadsInv` alone does not survive a deletion, which removes
  the file of a stored video, so what it says of files is said of videos that were never
  marked for deletion (`VideoPlays`, `SessionOnDisk`), and what it says of rows is kept for all
  (`LinkedRows`). An execution writes READY from what it read two transactions earlier:
  `WorkIsLinked` says that a video with an execution exists and that a stored one stays
  stored. A deletion and an execution write the row and token of one video
  (`OtherVideoKept`), because tokens bind one video.
- `PipelineTyped`, `ReadyIsPlayable` and `DeletionSpares` follow from it, with every fault.
- `WorkSurvives` proves `WorkIsNeverLost` under `NothingIsDropped` (no refused message, no
  rolled back last transaction, no time limit; workers may die and analyses may fail). The
  property is not inductive: a failed execution counts as work in it but may send nothing
  more. It has written FAILED by then, so `WorkInv` holds without counting it.

- `GalleryAgrees`: `GalleryOpensWhatItLists`, from `PipelineInv` and `PortalInv`. The views look
  at the row, the token and the event separately; what makes them agree is that the last
  transaction of a preparation writes video and token together, and that no later step
  takes one of the two back alone.

About sums, from `UploadsAssumption` alone, in `UploadsSizeProofs`:

- The theory of `MapThenSumSet`: a sum over a finite set exists, any element may come first,
  one more element adds its size. These facts would be inductions over the set. The
  provers cannot use an induction theorem, whose hypothesis is an operator, so each proof
  takes a smallest counterexample among the parts of the set (`SmallestPart`: the strict
  subsets of a finite set are well founded) and contradicts it.
- `QuotaHolds`: `QuotaInv` adds to `QuotaRespected` that there are finitely many rows and that
  uploads alone delete none. Only a creation changes the sum, by the size that it has
  compared with what is left, under the lock of the operator.
- `ConfirmedCompose`: the sizes of `expected_part_size` add up to the declared size
  (`PartsAddUp`, from `PartsTile`), so with `PartsInv` a session that has every part confirmed
  passes the checks of `complete_upload_session` and finds its files.

About the booth, from `BoothAssumption`, `CaptureAssumption` and `ServerAssumption` (the
assumptions of `Uploads` for the server's instance), for any number of videos, tokens and
parts and any number of deaths of the process:

- `BoothSafe`: `BoothInv` is inductive, together with `UploadsInv` of the server, which is not
  proved again: every step of the booth that touches the server is a step of `Uploads`
  or none. None of the four properties is inductive alone, because a worker writes a row
  it read long before. `BoothInv` therefore speaks, for each video, of `Held(v)`, its row *and
  every copy of it a worker may still write*: each of them points only to files that are
  there and says UPLOADED only when the server stores the video (`HeldInv`), and has
  the token of `Pools` that was assigned (`TokensInv`). `JobsInv` says what a worker's place
  implies of its copy, `CameraInv` that nothing was copied or uploaded before the rename of the
  recording, `FilesInv` that the final file is a copy of the original, `SessionInv` that the one
  session of a video asks for what the final file holds.
- `BoothTyped`, `UploadedIsStored`, `RowsPointToFiles`, `NothingIsForgotten`, `QrCodesLead` follow
  from it.
- `BoothCallsUploads`: `Spec => Server!Spec`, so whatever is proved of the server holds while
  booths call it.
- `BoothKeepsRecordings`: `Spec => KeepsRecordings`. Every step of the booth is a step of
  `Custody` (a recording is made, stored or released) or is invisible to it.

Every invariant, action property and refinement that a passing run checks is stated by a
theorem. Only model-checked: liveness under fairness, which is out of the prover's reach
(`SessionsSettle`, `ClosedSessionsFreeTheirParts`, `UploadedVideosSettle`, `RecordingsArrive`).

## 6. Not modelled

- *Accounts, session and network tokens*: token rotation belongs to simplejwt and OkHttp; a
  call that fails for its token is, for a recording, a call without an answer.
- *User interface, deployment, admin, error formatting, logging, e-mail*: no state that
  another part relies on, except what the admin edits by hand.
- *`LocalStorage`*: temporary file, fsync and rename below `put_stream` and `compose` are taken
  as one replacement of a file, which is what `os.replace` gives.
- *Row locks one by one*: a deadlock between operator and session rows is aborted by
  PostgreSQL and is then a failed transaction, which the model has.
- *Quota after deletions*: `QuotaRespected` and `QuotaHolds` are about `Uploads` without
  `delete_video`; a deleted video no longer counts, and is not counted when it is taken up again.

## 7. Plan

1. *done* - `PartLayout`, `Uploads`, `VideoLibrary` with proofs; `VideoPipeline`.
2. *done* - `OperatorPlan` and `ByteRange`, with proofs.
3. *done* - `Capture`, `Booth` and `Custody`, model-checked.
4. *done* - `VideoPipeline`: its safety properties proved.
5. *done* - the inductive invariant of `Booth` and its step to `Custody`; `Portal`; the quota
   and the sums of parts.
6. `delete_video` beside creations (the quota of a deleted video that is taken up again).
7. `LocalStorage` shown to implement the atomic replacement used by `Uploads`, and the tokens
   of a session.
