# Houston: a TLA+ model

Houston is a Django and Celery back end (`src/apps/api`) with a React client
(`src/apps/web`).  Staff of an establishment report *observations*; an AI provider turns
each of them into *signals*; signals are worked off by *executions* of action plans.
Around that core are chat, comments, notifications, analytics and points.

This directory holds TLA+ modules for the core, the TLC runs that check them and proofs
that TLAPS checks.  Everything is translated from the source; documents and tests are
used only as a second opinion (section 6).

1. The parts of the system
2. Modules and how they correspond to the code
3. Runs, bounds and fairness
4. What is proved
5. What is only model-checked, and what is left out
6. Where the documents and the code disagree
7. Plan

To check it all by hand: `tlc -config <file>.cfg <module>.tla` for each run of the table
in section 3, and `tlapm <module>.tla` for each module whose name ends in `Proofs`.

---------------------------------------------------------------------------------------

## 1. The parts of the system

All back-end state is in PostgreSQL (READ COMMITTED), except files (private object
storage), task messages (RabbitMQ), and caches and channel layers (Redis).  Web
processes, Celery workers and Celery beat run concurrently, each in as many copies as
are deployed.  They meet in rows, which some lock (`select_for_update`) and some only
read, in messages that are acknowledged *before* the task runs
(`CELERY_TASK_ACKS_LATE` is false), and in callbacks registered with `on_commit`, which
are lost when the process dies first.

`PROJECT.json` names the sources of every component.  In short:

| component | state | operations | what is hard, and what must hold |
|---|---|---|---|
| **Observation pipeline** | `ObservationProcessing` row, queue | submit, publish, claim, call the provider, apply, retry, recovery sweep | claims from duplicate messages, two-transaction work around an external call, lost messages; output applied once, every submission settles |
| **Signals and linked executions** | `Signal`, pin, `SignalResolutionRequest`, `ActionPlanExecution.source_signal`, photos | apply output, pin, interesting, cancel, resolve, request/approve/close, qualify and merge, create/start/finish/validate/reopen/cancel execution | two state machines that drive each other; a signal in progress has work and a resolved one has none, closed stays closed |
| **Photo uploads and submission** | `TemporaryUpload`, files, `ObservationMedia`, `client_submission_id` | upload, delete, expire, cleanup, submit and repeat, delete media | no upload is locked when it is judged, storage is in no transaction; linked photos exist, repetitions agree |
| **Planning submissions and outbox** | `ActionPlanPlanningSubmission`, `ActionPlanPlanningOutboxEntry` with attempts and lease, notifications | submit and repeat, delete the plan, claim a batch, deliver, save the outcome | overlapping repetitions, leases shorter than a batch, rows saved unfenced; each id is carried out once, each effect settles |
| **Schedules** | `ActionPlanSchedule`, executions by owner and occurrence date, the template's status | create, edit, toggle, cancel an occurrence, start, delete the template, horizon extension | the schedule is read without a lock and acted on later, by beat and by requests at once; occurrences follow the schedule and what people canceled or started is left alone |
| **Analytics classification** | `SignalPatternAssignment`, `SignalPattern` and its aliases, sightings | request, claim, call the provider, finalize, retry, sweep, correct, rename, merge | a second pipeline with claims of its own, on signals that change and patterns that are merged; newer content wins, an owner's word stays, every signal settles |
| **Chat attachments** | `ChatUpload`, `ChatMessage`, `ChatMessageAttachment`, files | reserve, put, complete, thumbnail, send and repeat, cleanup, purge, delete the conversation | files outside every transaction, a cleanup that lists without a lock, repetitions that overlap; files of a message stay, all others go |
| Routing and aggregation | active signals by aggregation key | resolve a route, find a signal to join | two pipelines create the same signal; one active signal per key |
| Templates | `ActionPlan`, tasks | create, edit, delete (the deletion with its schedules is in the row above) | deletion against schedules and scheduled executions |
| Execution tasks and updates | tasks, version, history | versioned edit, complete a task | an edit on a stale version is refused |
| Feeds, calendars | none | queries with cursors | read only |
| Other parts of chat | conversations, participants, read cursors | create, join, leave, mute, hand a message over | history cutoff, access after departure |
| Comments, discussion | comments, attachments | post, reserve/complete an upload, purge | upload against purge |
| Notifications, push | notification rows, delivery leases | schedule, deliver, retry, read | at-least-once delivery, never to a revoked device |
| Realtime, websocket tickets | tickets in Redis, subscriptions | issue, redeem, broadcast | single use; subscription after loss of access |
| AI provider, transcription | none | external calls | any outcome at any time |
| Analytics reports | none | statistics | pure reads |
| Gamification | ledger | award, revoke | idempotency keys |
| Accounts, deletion | users, sessions, deletion | sign up, delete | deletion against everything the account owns |
| Establishments, invitations | memberships, invitations | invite, accept, revoke, resend | accept against revoke |
| Platform, organizations | onboarding rows | administration | one operator |
| Permissions | none | predicates | pure |
| Demo data, core helpers, client | – | – | fixtures, formatting, user interface |

How the modelled parts interact:

    client --photos--> uploads --(submit)--> observation --(queue)--> pipeline
                          ^                                              |
                   cleanup (beat)                              apply_pipeline_output
                          |                                              v
                       media <---- last active signal closes ---- signals <--> executions

The row of an observation is written by its submission (with its photos:
`PhotoSubmission`) and handed to the queue after the commit (`ObservationPipeline`);
`apply_pipeline_output`, the end of the pipeline, is where signals start
(`SignalExecution.ApplyPipelineOutput`); closing the last signal of an observation, or
joining its candidate to another signal, deletes its media
(`PhotoSubmission.DeleteMedia`).  `SignalExecution.media` and `PhotoSubmission.media`
are two views of the same rows: the first knows which observation has photos and why
they go, the second knows which files there are.  What `apply_pipeline_output` and
`qualify_signal_routing` write into a signal is what `PatternClassification` classifies:
its `ContentChanges` stands for both, and for their publish after the commit.  A planning
submission (`PlanningOutbox`) may create a schedule, whose life after that is
`ScheduleMaterialization`.  `ChatAttachments` shares no rows with the others.

---------------------------------------------------------------------------------------

## 2. Modules and how they correspond to the code

`PROJECT.json` maps each definition to the lines it stands for.  Definitions keep the
names of the source where there is one.  Operators named `X_Something` are variants of
`X` as a plausible fault would leave it; no specification uses them, and each is there
so that some property can be seen to fail with it.

### ObservationOutcome, ObservationPipeline, MCObservationPipeline

`ObservationOutcome` is what submitting promises: pending, then applied once for good or
abandoned for good.

`ObservationPipeline` is the machinery:

| variable | code |
|---|---|
| `processing` | the `ObservationProcessing` row: status, `attempt_count`, and the ages of `processing_started_at` and `published_at`; `next_retry_at` as ticks left |
| `broker` | `process_observation_task` messages waiting for an observation |
| `api` | the request between its commit, its publish and the stamp of `published_at` |
| `worker` | a Celery process in `run_observation_pipeline`: between receive, claim, provider call, second transaction, and the publish of a retry |
| `sweep` | a run of `recover_observation_processing_batch`: which phase, which row, at which of its steps, and what it has enqueued |
| `applied` | history: how many committed transactions applied the output |

A transaction is one action; what runs between two transactions is split.  So the
claim (`Begin`) and the application (`Apply`) are two actions with the provider between
them, the sweep reads a row (`SweepFetch`) and recovers it under the lock
(`SweepRecover`) in two, and a publish and its stamp are two.  `Apply` may commit and
still take the `except` branch, because an `on_commit` callback can raise there.  Every
process can die at every step (`ApiDie`, `WorkerDie`, `SweepDie`), a message can be lost
or delivered twice, and a publish without its confirm leaves a message or none.

Time: `Tick` ages every timestamp and kills the task that reaches its hard time limit.
Ages stop at `StuckThreshold + 1`, where no comparison changes any more.  Delayed
delivery (`countdown`) is not modelled: a message may be received at any time, which
only adds behaviours.

`SpecFresh` is `Spec` restricted by `FreshRecovery`: a sweep that gets the lock of a row
finds it as stuck as it was when it was read.  The code does not guarantee this
(section 6); `Spec` is the code.

### SignalLifecycle, SignalExecution, MCSignalExecution

`SignalLifecycle` lists the moves the status of a signal may make.  `SignalExecution` has
one action per command of `signals/services.py`, `resolution_request_services.py` and of
the executions in `action_plans/services.py` that can touch a signal.  A command is one
action because each is one transaction that locks the signal row (or all signals created
from the same observation) before it reads the status it decides on; what reads before
the lock are the view of `unpin_signal` and the first look of
`qualify_signal_routing`, and the model lets both act on anything a stale read could have
returned (`Unpin` has no condition on the status; `Merge` and `CreateExecution` may merge
any two active signals, also those with different aggregation keys).

Actions include the calls that follow: `Close` is the terminal transition with the pin,
the pending request and, for the last active signal of an observation, its photos;
`ResolveSignal` cancels the executions; `CancelExecution`, `MarkDone` and
`ValidateExecution` end in `SyncSignal`, which may reopen or resolve the signal;
`CreateExecution` includes the qualification, and the merge it may lead to.

`SpecCareful` adds three habits no code enforces (section 6): running work is merged only
onto a signal in progress, the signal merged away is not the last active one of its
observation, and the AI lists the candidates that create signals before those that join.

### PhotoLifecycle, PhotoSubmission, MCPhotoSubmission

`PhotoLifecycle`: a photo waits, is attached and readable, and once gone stays gone.

`PhotoSubmission` models the storage as a set (`stored`) beside the rows.
`delete_temporary_upload` runs without a transaction, hence three actions (`DeleteRead`,
`DeleteErase`, `DeleteSave`), and may die between them.  `cleanup_expired_uploads` is one
transaction around many files: files go one by one (`CleanupErase`), rows together
(`CleanupCommit`) or not at all (`CleanupAbort`); rows it has updated are locked
(`Unlocked`).  `submit_observation` looks up the key (`CheckKey`), reads the uploads
(`ReadUploads`), then inserts and links everything (`SaveObservation`) or meets a unique
column (`SaveConflicts`); under READ COMMITTED others commit in between.  A repetition is
another request with the same key.  Media deleted by a committed transaction go to
`doomed`, and are erased later or, when the process dies, never.

`SpecCareful` is what the client and a healthy system add: a running submission is alone
with its key and its photos, none of them expires or is deleted meanwhile, and photos are
removed only when no submission of them is still to come.

### PlanningOutcome, PlanningOutbox, MCPlanningOutbox

`PlanningOutcome`: under one id one request is carried out, before its plan is deleted if at
all; every other request is told of it or refused, answers are final, and only what was
carried out is told to people.

`PlanningOutbox` models how:

| variable | code |
|---|---|
| `submission` | the `ActionPlanPlanningSubmission` rows by their unique key (establishment, member, `submission_id`): the request that inserted each |
| `request` | where a request stands in `submit_action_plan_planning`, or its answer |
| `outbox` | the outbox rows: status, attempts, and whether `available_at` or `lease_expires_at` has passed |
| `told`, `void` | the notices sent, and the entries whose recipient is not to be told |
| `worker` | a run of `process_action_plan_planning_outbox_batch`: what is left of its batch, the entry at hand, and whether carrying it out succeeded |
| `deleted` | keys whose plan was deleted, and the submissions and entries with it |

A submission is one transaction, but split at the places where it meets others: the
`Lookup` without a lock, the `Insert` that waits for an uncommitted one of the same key
(`KeyLocked`), and the `Commit`, which is the first moment others see anything.  A unique
violation (`InsertRaced`) rolls a savepoint back and answers from the other row.  The
direct creation of a plan with its planning takes the same steps, except that no deletion
can meet it.

`Claim` is one transaction; which rows it gets is open, because rows locked by another
claim are skipped.  Carrying an entry out (`Deliver`, `DeliveryFails`) and saving it
(`Finalize`) are separate, and between them the lease may lapse (`TimePasses`), another
worker claim and save the row, or the plan be deleted: `Finalize` writes whatever it
finds, `FinalizeRemoved` is the error of a row that is gone, which ends the batch.

Time is not counted.  The lease of 120 seconds covers a batch of 50 entries in a task that
may run an hour, so a lapse at any moment is what the code allows.

### OccurrenceLifecycle, ScheduleMaterialization, MCScheduleMaterialization

`OccurrenceLifecycle`: the execution of a date is planned, moved, withdrawn and planned
again as the schedule changes, until it starts; then it keeps its time and only people
decide on it, for good when they complete or cancel it.  It is abstract in that anything
may happen to all executions in one step.  Its `stage` is status and origin of an execution
(`StageOf`): `withdrawn` is canceled by the schedule, `canceled` by a person.

| variable | code |
|---|---|
| `now` | the local time of the establishment, in ticks, `DayLength` of them to a date |
| `schedule` | the `ActionPlanSchedule` row: active, inactive or deleted with its template; the dates its weekdays select; the window (`start_at`); the assignee |
| `executions` | the rows by date and owner, which the unique constraint makes a function: status, window, and whether a person or the schedule canceled it |
| `command` | a request that edits or deactivates the schedule (from its own page or from the catalog): the copy it works on, the fields it will save, the executions as it read them |
| `materializer` | a run of materialization, by beat, a feed or the calendar: the dates left and the copy of the schedule it works with |

The schedule is read without a lock, by commands (`FetchEdit`) as by runs (`List`, and
`Look` where the code reads it again for each date; the calendar does not).  Executions
are read (`SaveEdit`, `Look`) before they are saved whole (`CommitEdit`, `Reactivate`), so
whatever changes in between is overwritten.  `CommitEdit` includes the sync of the
executions, the promotion of what is due, and the materialization the edit ends with; an
insertion that meets the unique key falls back to the row it met (`Materialized`).

That is `Spec`.  Two restrictions say which order of events buys what: under `SpecInTurn`
a command, a run or a deletion starts only while no other is under way, while people, the
clock and the promotion go on; `SpecCareful` adds that nobody changes the executions a
command has read before it commits, as if it had locked them.

### SignalClassification, PatternClassification, MCPatternClassification

`SignalClassification`: what a signal says is asked about while nobody has answered for it,
and answered once, for what was asked; an owner may answer at any time, and that stays
until the signal says something newer; a signal is always on a pattern in use, and the
merge of a pattern takes all its signals along.  Claims, runs, messages, attempts and
sightings are stutters of it.

| variable | code |
|---|---|
| `content` | the `content_signature` of a signal, which a candidate that joins it or a qualification changes |
| `assignment` | the `SignalPatternAssignment` row: status, attempt, pattern and its source (classifier or owner), the contents it was assigned for and claimed for, error, and whether the attempt is stale or the retry due (`ripe`) |
| `pattern` | the `OperationalPattern` rows: active or merged and into which, with the semantic label and the name that is shown |
| `sightings` | the `PatternEstablishmentSighting` rows: pattern and establishment |
| `run` | a classification: a Celery task, or a command that classifies in its own process (`Directs`) |
| `merge` | an owner's merge, between the unlocked list of the signals of its source and the transaction that moves them |
| `waiting`, `unsent`, `unconfirmed` | messages in the broker, publications registered with `on_commit`, publications whose `published_at` is not yet stamped |

A run is split where it holds no lock: the unlocked read of the signal (`loaded`), the
claim under the lock of the row, the call of the provider, the answer that is not yet
written (`resolved`), and the write, which checks the attempt again, and after a unique
violation reads the alias without a lock (`writing`).  A failed
call is recorded (`failed`) and published again (`retrying`).  Corrections by owners (`Move`,
`SplitToNew`, `CommitMerge`) write rows and sightings at once and make the attempt under
way obsolete.  `SpecCareful` is `Spec`
when three accidents the code leaves to luck do not happen: a signal changes between a
run's read and its claim (`ReadsAreFresh`), a signal goes back to what it said before
(`EditsAreNew`), a pattern is merged away between its unlocked read and the write of it
(`AliasesStay`).

### ChatConversation, ChatAttachments, MCChatAttachments

`ChatConversation`: a message shows exactly the files of one request and no file of another
message, until it goes, old or with the conversation; a repetition is told of its message,
and no request is refused whose message is there with its files.  Its `shown` are the
attached files that the storage has, so a file that is erased under its attachment is a
step `ChatConversation` does not take; `spent` are uploads that were sent or given up.

`ChatAttachments` has the locks, the storage and the tasks.  
The messages of one member in one conversation, with the files that go with them.

| variable | code |
|---|---|
| `upload` | the `ChatUpload` rows: status, whether `thumbnail_storage_key` is set, whether `expires_at` has passed (`late`) |
| `attached` | the `ChatMessageAttachment` rows, at most one to an upload: the key of its message |
| `message` | the `ChatMessage` rows by `client_message_id`: sent, past its retention, removed |
| `open` | the `ChatConversation` row is there |
| `request` | where a call of `create_message` stands, or its answer; repetitions are requests with the same key |
| `stored`, `url` | files in the storage; uploads with a presigned URL that still works |
| `task` | the thumbnail of an upload: queued, original read, thumbnail stored and not yet named in the row |
| `sweep`, `purge`, `closing` | runs of `cleanup_expired_chat_uploads`, of `purge_chat_messages`, of `hard_delete_conversations`, and the files each has listed |
| `doomed` | files an `on_commit` callback is still to delete |

`create_message` is split where others can come between: the first look for the key
(`Check`), the lock of the uploads with the second look (`LockUploads`), and the
insertion, links and commit (`SaveMessage`), or the unique key met (`SaveMeetsMessage`).
While a request is `locked` it holds the rows of its uploads (`Held`): the cleanup skips
them, whoever else writes them waits.  Any request may fail and be repeated (`Fail`).

A cleanup claims an upload in a transaction (`SweepClaim`, which judges it again under the
lock, so the unlocked list needs no action), erases its files without one (`SweepErase`,
or `SweepFails` after any of them), and deletes the row if it is still expired
(`SweepDelete`).  The purge runs in autocommit, so each of its statements is an action and
it may die between them (`PurgeDies`).  A deletion is one transaction, with its list of
files read earlier (`CloseList`) than the rows go (`CloseCommit`).

The storage is that of production: the client puts content straight into S3 with a URL
that outlives the row (`Put` asks only for the URL).  With the file system the server
checks the row first, which only removes behaviours.

`undisturbed` is a history variable that no action reads.  It is true as long as no file arrived
while its upload was being removed, every thumbnail stored was named in its row, every
purge went on to the uploads of the messages it deleted, and every callback erased its
file; `FilesHaveOwners` speaks of such behaviours (section 6 says what happens in the
others).

---------------------------------------------------------------------------------------

## 3. Runs, bounds and fairness

| run | specification | properties | states |
|---|---|---|---|
| `pipeline_fresh` | `SpecFresh` | AtMostOnceApplied, LiveClaimsAreExclusive, OutcomeSpec | 430 000 |
| `pipeline_settles` | `FairSpec` | TypeOK, AppliedWithinBudget, EverySubmissionSettles | 155 000 |
| `pipeline_applied_twice` | `Spec` | AtMostOnceApplied is violated | |
| `signal_lifecycle` | `Spec` | PinsLimited, PendingOnlyWhileOpen, InProgressHasWork, ResolvedHasNoWork, WorkDecides, LifecycleSpec | 79 000 |
| `signal_careful` | `SpecCareful` | BlockingHoldsSignal, PhotosKeptWhileActive, PhotosGoWithLastSignal | 20 000 |
| `photo_races` | `FairSpec` | ObservationWhole, ExpiredOrphansGo | 252 000 |
| `photo_careful` | `SpecCareful` | LinkedMediaIsStored, RepeatsAgree, ConflictTold, PhotoSpec | 16 000 |
| `planning_settles` | `FairSpec` | OutcomeSpec, RepeatsReplayed, ProcessedMeansTold, EntriesSettle | 672 000 |
| `schedule_follows` | `FairSpec` | FollowsSchedule, CanceledByPersonStays, OccurrenceSpec, OccurrencesAppear | 126 000 |
| `pattern_classified` | `FairSpec` | AssignedToActive, SightedWhereAssigned, OwnerCorrectionKept, ClassificationSpec, RepeatsWithinBudget, Settles | 208 000 |
| `pattern_merged_label` | `Spec` | MergedLabelFollowed is violated | |
| `chat_sent` | `FairSpec` | AttachmentsStored, FilesHaveOwners, ConversationSpec, RepeatsAnswered, ExpiredUploadsGo | 615 000 |

What the properties say is in a comment above each of them.  `TypeOK` is checked in
`pipeline_settles`, where it says that the attempts stay within their budget; in the other
modules it is proved.

**Bounds.**

- *Pipeline*: one observation, because nothing in the code relates two of them except
  the worker they wait for; two workers, so that one can dispossess another; one sweep,
  which the workers' own recovery (`Begin`) can race; `MaxAttempts` 3, the code's value;
  thresholds of two ticks, enough for an age below, at and above each of them; two
  messages in the broker, enough for a duplicate.  `pipeline_settles` uses one worker:
  symmetry would be unsound there, and one worker is the harder case for being served; its two
  invariants are theorems for any number of workers (section 4).
- *Signals*: observation `o1` may become two signals, `o2` one; two executions; a pin
  limit of one (the code's is larger, and every property is about being at the limit,
  which one pin reaches).  `Interchangeable` permutes only what the constants cannot
  tell apart.
- *Photos*: two uploads, two keys; `first` submits both photos, `again` repeats it,
  `other` has the same key and no photos, `rival` another key and one of the photos.
  `photo_races` leaves `again` out to fit all interleavings of the other three.
- *Planning*: three requests with one id (two alike, one with other items), because ids
  do not meet; two entries of the request that is repeated, enough for a batch that ends
  before its second entry, and both with one notice, as several executions of one
  submission have; two workers, so that one can lose a lease to the other; `MaxAttempts` 2
  (the code's is 8) and `BatchSize` 2 (50): both limits are reached.
- *Schedules*: two dates of two ticks, so that an occurrence can be past, due or still to
  come, and a window can move across the present; a horizon of one date, which
  the second date enters later.  One owner, command and run, because they go in turn and a
  second one could only follow.
- *Patterns*: one signal, as signals meet only in the patterns they share; two contents
  (an edit), two patterns and two labels (a merge, a rename, a label taken by another);
  one task and one direct classification, so that two runs overlap; one owner;
  `MaxProviderCalls` 2 (the code's is 4) is reached, within `MaxAttempts` 6 and
  `MaxMessages` 1.  A second message would be received by a run that is refused or starts
  over, which the direct classification does as well.
- *Chat*: one upload, as uploads meet only in a request that names several; two keys, so
  that another message can want the upload; four requests: two alike (`first`, `again`),
  one of the same key without the file (`bare`), one of the other key with it (`other`);
  one cleanup (a second finds the row claimed, or claims it again as the next night's run
  does).  Files (an original and a thumbnail), tasks, one purge and one deletion.

`CHECK_DEADLOCK FALSE` is said for `SignalExecution` and `PlanningOutbox`: there the system
does stop, when every signal is closed and every execution has been used, and when every
request is answered, the plan deleted and nobody left to be told; and for
`ScheduleMaterialization` and `PatternClassification`, whose instances end at their last
tick and at their last content; and for `ChatAttachments`, which ends with the
conversation.

**Fairness.**  `ObservationPipeline!Fairness`: processes may die and messages be lost or
refused any number of times but not forever (`<>[][Orderly]_vars`: otherwise no retry
could help); time passes; beat keeps starting sweeps and a sweep does its steps; a worker
with an empty hand takes a message that waits, weakly fair.  `Begin` is strongly fair
because `Tick` may kill a task before it gets the first row lock: a task cannot lose that
race at every delivery.  Nothing is assumed of the provider (a call may never return, the
time limit then ends it) nor of users.

`PhotoSubmission!Fairness`: beat keeps starting the cleanup, a cleanup that runs
continues, and from some time on it does not abort.  The cleanup is one transaction for
all expired uploads, so a storage that fails for a single one of them forever keeps all of
their rows validated; the last assumption is therefore needed, not a convenience.

`PlanningOutbox!Fairness`: beat starts a batch every minute, so some worker claims when
there is something to claim; a batch that runs goes on; leases and waits end; batches do
not die forever.  The last is needed: a claimed row whose lease lapsed is claimed again
whatever its attempts, so an entry that killed each worker it is given to would never
settle.  Nothing is assumed of deliveries, which may fail every time.

`ScheduleMaterialization!Fairness`: beat runs every day (strongly, as people may keep the
schedule busy in between), a run that began goes on and is not killed forever, a
command that began ends, if only by its time limit.  Nothing is assumed of people nor of
the clock.

`PatternClassification!Fairness`: delays and confirmations age; beat's sweep publishes
whatever stays due; the broker does not lose every message and not every task is
killed between its receipt and its claim (strong, as a loss or a kill takes the step
away); a run that is not killed goes on.  Nothing is assumed of the provider, which may
fail or answer with any label, nor of owners.

`ChatAttachments!Fairness`: beat starts the cleanup every night and the storage does not
fail forever, so what is claimed again and again is erased and deleted in the end (strong,
as `SweepFails` takes the steps away and a request may hold the row for a while); a
request that holds rows ends.  Nothing is assumed of the purge, the thumbnail tasks, URLs
or users.

---------------------------------------------------------------------------------------

## 4. What is proved

For every value of the constants that satisfies the named assumptions
(`PipelineAssumption`, `SignalAssumption`, `SubmissionAssumption`, `PlanningAssumption`,
`ScheduleAssumption`, `PatternAssumption`, `ChatAssumption`), TLAPS checks:

**ObservationPipelineProofs** (`Spec`)
- `TypeCorrect`: `TypeOK`.  Not inductive alone: that `attempts` stays within
  `0..MaxAttempts` needs `OpenRowsHaveBudget` (a row that can be claimed has an attempt
  left, which `RecoverRow` and `RetryRow` see to), and that a step writes a row of an
  observation needs that a busy process has one.  Together they are `TypeInv`.
- `BudgetCorrect`: `AppliedWithinBudget`.  Applications alone could run ahead of attempts,
  so the invariant counts the workers that may still apply:
  `applied[o] + Cardinality(Holders(o)) <= attempts` (`BudgetInv`).

**ObservationOutcomeProofs** (`SpecFresh`)
- `ClaimsExclusive`, `AppliedAtMostOnce`, `PipelineImplementsOutcome`.  A claiming worker
  is younger than its time limit and its row not older than it (`Owns`), so by
  `StuckThreshold >= TimeLimit` its row is not stuck; nobody else reopens it, so the
  worker is `Alone` (`ClaimInv`), so the first application is the only one
  (`SettledInv`); and every step changes the outcome of at most one observation, along an
  action of `ObservationOutcome`.

**SignalExecutionProofs**
- `Spec`: `TypeCorrect` (with `RowsLinked`: an execution that exists has a signal),
  `InProgressCorrect` and `ResolvedCorrect` (one induction, as each action that ends work
  is judged by both), `ImplementsLifecycle` and `WorkDecidesCorrect` (from these
  invariants: that no execution of a resolved signal is under validation is what makes
  the reopening branch of `reopen_action_plan_execution` unreachable),
  `PendingCorrect`, `PinsCorrect`.
- Of the three habits of `SpecCareful` each theorem assumes the one it needs:
  `BlockingHolds` that running work is merged only onto a signal in progress
  (`SpecWorkHeld`), `PhotosKept` that creating candidates come first
  (`SpecCreatingFirst`), `PhotosGo` that merges spare the last active signal
  (`SpecLastSpared`).  `CarefulIsMore`: the run's specification implies each of these.

**PhotoSubmissionProofs**
- `Spec`: `TypeCorrect`, `WholeCorrect`.
- `SpecFreshPhotos` (no photo expires while a submission of it runs, nor is it being deleted
  by its author while one is still to come; submissions may race for keys and photos): `LinkedStored` and
  `ImplementsPhotoLifecycle`, from an invariant that photos of such a submission are spared
  and stored, what the cleanup holds is expired, and what is attached is stored, unexpired
  and not being deleted.
- `SpecKeptPhotos` (an observation keeps its photos while submissions of its key are to
  come): `ConflictCorrect`, as an accepted request has the photos of its observation.
- `SpecOneAtATime` (besides, submissions of one key or photo do not overlap; photos expire and
  are deleted at any time): `RepeatsCorrect`, as a running request has its key to itself, and a
  refused one has other photos, or names one that waits no more.
- `CarefulIsMore`: `SpecCareful`, which the run checks, implies the three.

**PlanningOutboxProofs** (`Spec`)
- `TypeCorrect`.
- `OneCreation` and `RepetitionsAnswered`, from `OnceInv`: the row of an id is that of a
  request that was carried out (`RowOfCreated`); what was carried out has its row until
  the plan is deleted (`CreatedHasRow`), which is why a commit never follows another one;
  and a request between insert and commit is alone with its key (`InsertedAlone`).
- `ProcessedTold`, from `ToldInv`: a worker that is going to save an entry as processed
  has carried it out (`DoneBeforeSaved`), and what is done stays done, whatever happens to
  the lease and the row in between.
- `ImplementsOutcome`, from `OnceInv` with what ties notices to creations: entries exist, and
  are in a worker's batch, only for what was carried out (`EntriesPlanned`), and the row of
  an id goes with its plan (`RowHasPlan`).

**ScheduleMaterializationProofs**
- `Spec`: `TypeCorrect`.
- `SpecInTurn`: `Follows`, from `InTurnInv`: whoever works is alone (`Alone`), so the copy it
  works on is still the schedule, and what it read of executions that have not started
  differs from what they are only where people or the clock moved them on (`Knows`).
- `SpecHeld`: `CancellationsStay`, `StartedWorkStays` (`StartedWorkKept`) and
  `ImplementsOccurrence`.  Commands, runs and deletions overlap as they like; but what a
  command has read of the executions, and the one execution a run is about to bring back, are
  held until they are saved (`RowsHeld`, `RunHeld`), as row locks would see to.
  `HeldInv`: what a command read is what the executions are (`RowsCurrent`), and what a run
  brings back the schedule canceled (`Reacting`).  From it, no step touches a person's
  cancellation and only people touch work that started (`HeldStep`); and sync, deactivation
  and materialization, also composed in one edit, take an execution that has not started
  only where the schedule may take it (`Disposed`, `DisposedTwice`).  `CarefulIsHeld`:
  `SpecCareful` implies `SpecHeld`, because turns between runs hold the second lock.

**PatternClassificationProofs**
- `Spec`: `TypeCorrect` (with `Named`: what a write or a merge under way names are patterns);
  `RepeatsBounded`, from `PendingKnown`; `AssignmentsSighted`, which is inductive by itself
  once it is known where the ends of a sighting come from (`SightingEnds`).
- `Spec`: `WritersCorrect` (who writes an alias holds the current attempt and is alone with it,
  `Writers`) and `AnswersAreClaimed` (an answer is for the content its row was claimed for).
- `SpecInOrder` (`ReadsAreFresh` and `EditsAreNew`; patterns may be merged at any moment):
  `NewerContentKept` and `CorrectionsKept`, from `OrderInv`: with `Writers`, no run has read
  anything but what the signal says (`ReadsCurrent`), and no row is ahead of its signal
  (`RowsInOrder`).  Every step leaves a row as it is, failed, claimed, succeeded or
  corrected (`RowStep`), and each of these is judged once.
- `SpecAliasesStay` (only `AliasesStay`): `AssignmentsActive`, from `OnActive`: an alias about
  to be written is an active pattern.
- `SpecCareful`, which implies both (`CarefulIsMore`): `ImplementsClassification`, from
  `OrderInv` and `OnActive`.  Of each signal a run does one of five things (`RowRefines`,
  `RunRefines`): a claim is `Ask`, because what was read is what the signal says; a
  success is `Answer`, because whoever writes holds the claim; moves, splits and merges are
  `Move` and `Merge` of exactly the signals that are on the pattern (`OwnerRefines`).

**ChatAttachmentsProofs** (`Spec`)
- `TypeCorrect`.
- `AttachmentsCorrect`, `MessageCorrect` and `RepeatsCorrect`, from `Inv`: only linked uploads
  are attached (`Links`); what is validated or linked has its file (`Ready`); what a request
  has locked stays validated and is no other request's (`Locks`); a conversation that is gone
  has no messages (`Closed`); and what a cleanup or a callback is about to erase belongs to an
  upload that can never be attached again, because it is expired or removed (`Sweeps`,
  `Doom`, and `Purges` and `Closings` for what is still to become `doomed`).  That is why the
  files may be listed so long before they are erased.
- `ImplementsConversation`, from `Inv` and `LinksInv` (files are attached to messages that
  are there, and what a purge has listed is old as long as the conversation is open): the
  shown files of a message change only when it goes, so erasing a file or saving its
  thumbnail is a stutter; `SaveMessage` is `Send`; and the look that follows the lock of
  the uploads turns what would be a refusal into `Repeat`.
- `FilesCorrect`, from `OwnInv`: in addition, while nothing disturbed a removal, the files a
  removal has listed are all its upload has (`SweepsHold`, `PurgeHolds`, `ClosingHolds`,
  which need that the URL and the task are over, `Holdings`), so what a removed row leaves
  is in somebody's list (`Owned`).

---------------------------------------------------------------------------------------

## 5. What is only model-checked, and what is left out

Only model-checked: liveness (`EverySubmissionSettles`, `ExpiredOrphansGo`,
`EntriesSettle`, `OccurrencesAppear`, `Settles`, `ExpiredUploadsGo`), as liveness
under fairness and ENABLED are out of the prover's reach.  No module uses recursion.

Left out of the modelled components:

- who may do what (the models let anybody run any command, which only adds behaviours),
  the journal, notifications, points, and the wording of everything;
- executions without a signal, tasks and plans.  The linked executions modelled belong to
  plans made for one execution, so the deletion of a template never removes them;
- what a candidate contains, and which active signal it joins: any active signal may be
  joined, so `ApplyPipelineOutput` is an over-approximation;
- the locks themselves.  That a command is one action is justified by its locks, but
  whether two commands can wait for each other is not expressible then (a hazard without a
  property in `PROJECT.json`, and the next module of the plan);
- for a submission: text, origin and context, which the client does not change between
  repetitions; normalisation and previews of a photo; a crash inside the creation of an
  upload (files without a row), and the unlinked uploads of a deleted account;
- in `CleanupErase` a file and its row lock are one step.  Between them only a submission
  that does not lock could act, and it may act right after as well;
- for a planning submission: who may plan, and the executions and schedules it creates,
  which commit with it or not at all; a planner who has left the establishment makes every
  notification of the submission fail until it is given up, which is one of the outcomes
  of `DeliveryFails`;
- files that `ForgetDoomed` leaves: nothing in the code collects them;
- for a schedule: its creation (it commits with its executions or not at all), visibility,
  teams as assignees, and the tasks of its executions;
- for patterns: reports that a pattern is wrong, the journal of patterns, other
  organizations, and the text the provider is asked about;
- for chat: participants and groups, replies, mentions, acknowledgements and the handoff of
  a message to an observation, read cursors, the websocket, the batches of the purge, and
  the deletion of an account (`chat/account_deletion.py`), which removes messages and
  uploads of its memberships in one transaction, as `CloseCommit` does for a conversation.
  The attachments of comments (`comments/upload_services.py`) are built alike and are not
  modelled.

A detail that shows only with overlapping requests: when a repetition overlaps the first
request, and that commits between the repetition's lookup of the key and its read of the
uploads, the repetition finds them linked and is answered 404 although the observation
exists.  `SubmittedAlone` excludes it by keeping the keys of running requests apart.

---------------------------------------------------------------------------------------

## 6. Where the documents and the code disagree

Each is the subject of a run that ends in a counterexample; `PROJECT.json` quotes the
lines.

- `pipeline_applied_twice`: the sweep judges the age of a row it read without a lock and
  looks only at the status once it has the lock.  When the row was recovered and claimed
  again in between, its live worker is dispossessed and the output applied twice.
- `pattern_merged_label`: an answer with the label of a merged pattern should lead to the
  pattern it was merged into.  Following the alias locks rows, but no transaction is open
  around the resolution, so it raises, and the classification fails until its budget is
  spent.

Met on the way, without a run of their own:

- Merging away the last active signal of an observation leaves its photos with nothing
  left to delete them: the merge looks only at signals, and the link it keeps
  (`MERGED_FROM`) is followed by no deletion.  `signal_careful` excludes such merges, and
  `PhotosGoWithLastSignal` fails without that (`src/docs/product/data_inventory.md:74`
  says photos go with the last active signal created from their observation).
- Merging a signal in progress into an open one leaves running executions on a signal that is
  not in progress; `SpecCareful` of `SignalExecution` excludes it.
- Whether the photos of a new signal survive depends on the order of the candidates in the
  AI output (`signals/services.py:356` and `:722`): one that joins another signal deletes
  the media before a later one creates a signal.  `SpecCareful` excludes it as well.
- A deletion or cleanup that overlaps a submission, or died before it, leaves the
  observation with a photo whose files are gone (`uploads/services.py:97`,
  `observations/services.py:157`); once the photos of an observation were deleted, the
  repetition of its submission is refused as a conflict (`observations/services.py:46`).
  `SpecCareful` of `PhotoSubmission` excludes both.
- A run of materialization works with a copy of the schedule: when an edit or a deactivation
  commits meanwhile, it creates executions on dates the schedule no longer has
  (`FollowsSchedule` fails under `Spec`, hence `SpecInTurn`).  Two edits of different
  fields that overlap leave executions with the window of neither.
- An execution the schedule canceled is not brought back when its *old* start has passed,
  even if the new one has not; and a change of owner creates an occurrence that has already
  started again for the new owner, at once in progress.
- An edit that takes a date away saves what it concluded from the execution as it read it
  (`schedule_services.py:725`).  A person's cancellation in between becomes one of the
  schedule, which a later edit may undo: `CanceledByPersonStays` fails under `SpecInTurn`,
  hence `SpecCareful`.
- A run of beat ends at the first schedule that is deleted under it, and the schedules after it
  wait for the next day.
- A classification that read the signal before an edit, and claims after an owner has
  corrected the edited signal, overwrites the correction: `OwnerCorrectionKept` fails under `Spec`,
  though the tests of corrections (`analytics/tests/test_owner_corrections.py`) say they
  are kept.  `ReadsAreFresh` excludes it.
- A signal that returns to an earlier content while a newer one is being classified finds a row
  already assigned for it, so nothing ends the newer attempt and the sweep publishes it again and
  again; `EditsAreNew` excludes it.
- The alias read after a unique violation is not locked (`analytics/services.py:2678`): a merge
  that commits before the write leaves the signal on a merged pattern, and `full_clean`
  then refuses every later claim of it; `AliasesStay` excludes it.
- A publication of a changed signal that is lost after its row has succeeded is not found by
  the sweep, which looks at rows that have not; the next edit repairs it.
- `processed` is not final for an outbox entry: a worker that lost its lease and failed
  saves `failed` over it, and the entry is carried out again.  The notification is not
  repeated, as its key exists; the broadcast is.
- The idempotency key of a planning notification has no execution in it
  (`planning_services.py:300`), so a recipient of several executions of one submission
  is told of the first one that is delivered.
- A purge of chat that is killed between its two deletions leaves uploads that are linked
  and attached to nothing.  The purge finds uploads by their messages and the cleanup leaves
  out linked ones, so they and their files stay until the conversation goes.
- Content put with a URL that still works, or a thumbnail stored, after its upload was removed
  is a file no row names, and nothing collects it.
- `complete_chat_upload` saves `EXPIRED` for a late reservation and then raises, which rolls
  it back (`chat/upload_services.py:223`): only the cleanup ever expires an upload.

---------------------------------------------------------------------------------------

## 7. Plan

Done, in this order: ObservationPipeline with ObservationOutcome; SignalExecution with
SignalLifecycle; PhotoSubmission with PhotoLifecycle; PlanningOutbox with PlanningOutcome;
ScheduleMaterialization with OccurrenceLifecycle; PatternClassification with
SignalClassification; ChatAttachments with ChatConversation; the proofs about each.

Next, by how much of the system's promise they carry:

1. **SignalAggregation** (`apply_pipeline_output`, `routing_resolver.py`): two pipelines
   that create or join under one aggregation key, as a refinement of
   `ApplyPipelineOutput`.
2. **RowLocks**: the order in which `pin_signal`, the terminal transitions and the
   execution commands lock rows, with the move of executions by a merge between the read
   of `source_signal_id` and the locks.  Property: no cycle of waiting transactions, or the
   interleaving that makes one.
3. **PushDelivery** (notifications): leases and retries; **WsTicket** (realtime): single use;
   **PointsLedger** (gamification): idempotency; **Invitation** (establishments); the
   attachments of comments.
4. A composition of PhotoSubmission and SignalExecution on their shared media, in which
   `DeleteMedia` happens exactly when `SignalExecution` says so.

Runs that make the same point give way, or become one, when a new component needs theirs.
