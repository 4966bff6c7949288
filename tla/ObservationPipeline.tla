------------------------ MODULE ObservationPipeline ------------------------
(***************************************************************************)
(* How a submitted observation becomes signals: the ObservationProcessing  *)
(* row, the broker that carries its task, the Celery workers that run it,  *)
(* and the periodic sweep that republishes what was lost and reopens what  *)
(* is stuck.  A worker claims the row in one transaction, calls the AI     *)
(* provider outside any transaction, and applies the output in a second    *)
(* one; every other process may run between the two.                       *)
(*                                                                         *)
(* Time is relative: a timestamp column is kept as its age in ticks, which *)
(* stops growing once no comparison in the code can tell it from an older  *)
(* one, and next_retry_at as the ticks that remain.  Never is SQL NULL.    *)
(***************************************************************************)
EXTENDS Integers, FiniteSets

CONSTANTS
    Observations,
    Workers,          \* Celery worker processes of the ai_interactive queue
    Sweeps,           \* concurrent runs of the recovery task
    NoObservation,
    MaxAttempts,      \* _MAX_OBSERVATION_PIPELINE_ATTEMPTS
    TimeLimit,        \* hard time limit of process_observation_task
    StuckThreshold,   \* HOUSTON_OBSERVATION_PROCESSING_STUCK_WARNING_SECONDS
    RetryDelay,       \* _OBSERVATION_PIPELINE_RETRY_DELAY_SECONDS
    MaxMessages       \* bound: messages the broker holds for one observation

(* settings.py takes the maximum of the configured threshold and the hard  *)
(* time limit, so the threshold is never the smaller one.                  *)
ASSUME PipelineAssumption ==
    /\ NoObservation \notin Observations
    /\ MaxAttempts \in Nat \ {0}
    /\ TimeLimit \in Nat \ {0}
    /\ StuckThreshold \in Nat
    /\ StuckThreshold >= TimeLimit
    /\ RetryDelay \in Nat
    /\ MaxMessages \in Nat \ {0}
    /\ IsFiniteSet(Workers)

VARIABLES
    processing,   \* the ObservationProcessing row of each observation
    broker,       \* how many process_observation_task messages wait for it
    api,          \* where the request that submitted it stands
    worker,       \* what each worker process is doing
    sweep,        \* what each recovery run is doing
    applied       \* how many committed transactions applied its AI output

vars == <<processing, broker, api, worker, sweep, applied>>

Never == -1
Statuses == {"absent", "queued", "processing", "retrying", "processed", "failed"}
Terminal == {"processed", "failed"}
AgeCap   == StuckThreshold + 1
Age      == {Never} \cup 0..AgeCap

Rows == [status : Statuses, attempts : 0..MaxAttempts, started : Age,
         published : Age, retryIn : 0..RetryDelay]

ApiSteps    == {"none", "publishing", "stamping", "done"}
ClaimSteps  == {"calling", "applying", "failing", "retrying"}
WorkerSteps == {"idle", "received", "publishing", "stamping"} \cup ClaimSteps
SweepPhases == {"idle", "stuck", "queued", "retrying"}
SweepSteps  == {"pick", "recover", "recheck", "publish", "stamp"}

WorkerStates == [pc : WorkerSteps, obs : Observations \cup {NoObservation},
                 age : 0..TimeLimit]
SweepStates  == [phase : SweepPhases, step : SweepSteps,
                 todo : SUBSET Observations,
                 obs : Observations \cup {NoObservation},
                 enqueued : SUBSET Observations]

Idle      == [pc |-> "idle", obs |-> NoObservation, age |-> 0]
SweepIdle == [phase |-> "idle", step |-> "pick", todo |-> {},
              obs |-> NoObservation, enqueued |-> {}]
AbsentRow == [status |-> "absent", attempts |-> 0, started |-> Never,
              published |-> Never, retryIn |-> 0]

Init ==
    /\ processing = [o \in Observations |-> AbsentRow]
    /\ broker = [o \in Observations |-> 0]
    /\ api = [o \in Observations |-> "none"]
    /\ worker = [w \in Workers |-> Idle]
    /\ sweep = [s \in Sweeps |-> SweepIdle]
    /\ applied = [o \in Observations |-> 0]

-----------------------------------------------------------------------------
(* Rows *)

SetRow(o, row) == processing' = [processing EXCEPT ![o] = row]

(* Seeded faults are named after the definition they would replace.        *)
IsStuck_TooSoon(row) == row.started # Never /\ row.started + 1 >= StuckThreshold
IsStuck(row) == row.started # Never /\ row.started >= StuckThreshold
PublishDue_OnlyOnce(row) == row.published = Never
PublishDue(row) == row.published = Never \/ row.published > StuckThreshold

StartAttempt_Uncounted(row) ==
    [row EXCEPT !.status = "processing", !.started = 0]
StartAttempt(row) ==
    [row EXCEPT !.status = "processing", !.started = 0, !.attempts = @ + 1]

RecoverRow(row) ==
    IF row.attempts < MaxAttempts
    THEN [row EXCEPT !.status = "retrying", !.started = Never,
                     !.published = Never, !.retryIn = 0]
    ELSE [row EXCEPT !.status = "failed"]

RetryRow_Forever(row) ==
    [row EXCEPT !.status = "retrying", !.published = Never, !.retryIn = RetryDelay]
RetryRow(row) ==
    IF row.attempts < MaxAttempts
    THEN [row EXCEPT !.status = "retrying", !.published = Never,
                     !.retryIn = RetryDelay]
    ELSE [row EXCEPT !.status = "failed"]

Stamp(o) == SetRow(o, [processing[o] EXCEPT !.published = 0])

(* publish_celery_task: a confirmed message is in the broker; without the  *)
(* confirm it may be there or not.  A full queue drops the message, which  *)
(* LoseMessage could do anyway.                                            *)
Enqueue(o) ==
    broker' = [broker EXCEPT ![o] = IF @ < MaxMessages THEN @ + 1 ELSE @]

Publish(o, confirmed) ==
    \/ Enqueue(o)
    \/ ~confirmed /\ UNCHANGED broker

-----------------------------------------------------------------------------
(* The request that submits the observation *)

Submit(o) ==
    /\ processing[o].status = "absent"
    /\ SetRow(o, [AbsentRow EXCEPT !.status = "queued"])
    /\ api' = [api EXCEPT ![o] = "publishing"]
    /\ UNCHANGED <<broker, worker, sweep, applied>>

ApiPublish(o) ==
    /\ api[o] = "publishing"
    /\ \E confirmed \in BOOLEAN :
        /\ Publish(o, confirmed)
        /\ api' = [api EXCEPT ![o] = IF confirmed THEN "stamping" ELSE "done"]
    /\ UNCHANGED <<processing, worker, sweep, applied>>

ApiStamp(o) ==
    /\ api[o] = "stamping"
    /\ Stamp(o)
    /\ api' = [api EXCEPT ![o] = "done"]
    /\ UNCHANGED <<broker, worker, sweep, applied>>

ApiDie(o) ==
    /\ api[o] \in {"publishing", "stamping"}
    /\ api' = [api EXCEPT ![o] = "done"]
    /\ UNCHANGED <<processing, broker, worker, sweep, applied>>

-----------------------------------------------------------------------------
(* A worker *)

Goto(w, step) == worker' = [worker EXCEPT ![w].pc = step]
Release(w)    == worker' = [worker EXCEPT ![w] = Idle]

(* CELERY_TASK_ACKS_LATE is False: the message is gone once received.      *)
Receive(w, o) ==
    /\ worker[w].pc = "idle"
    /\ broker[o] > 0
    /\ broker' = [broker EXCEPT ![o] = @ - 1]
    /\ worker' = [worker EXCEPT ![w] = [pc |-> "received", obs |-> o, age |-> 0]]
    /\ UNCHANGED <<processing, api, sweep, applied>>

Begin_ReclaimsFailed(w) ==
    LET o == worker[w].obs
    IN  /\ worker[w].pc = "received"
        /\ \/ /\ processing[o].status \in {"queued", "retrying", "failed"}
              /\ processing[o].attempts < MaxAttempts
              /\ SetRow(o, StartAttempt(processing[o]))
              /\ Goto(w, "calling")
           \/ /\ processing[o].status \notin {"queued", "retrying", "failed"}
              /\ UNCHANGED processing
              /\ Release(w)
        /\ UNCHANGED <<broker, api, sweep, applied>>

Begin_ReopensLive(w) ==
    LET o == worker[w].obs
        row == processing[o]
    IN  /\ worker[w].pc = "received"
        /\ \/ /\ row.status \in {"queued", "retrying", "processing"}
              /\ row.attempts < MaxAttempts
              /\ SetRow(o, StartAttempt(row))
              /\ Goto(w, "calling")
           \/ /\ row.status \notin {"queued", "retrying", "processing"}
              /\ UNCHANGED processing
              /\ Release(w)
        /\ UNCHANGED <<broker, api, sweep, applied>>

(* The first transaction of run_observation_pipeline, the row locked: a    *)
(* stuck row is reopened in it, an open one is claimed, any other skipped. *)
Begin(w) ==
    LET o   == worker[w].obs
        row == processing[o]
        claimable == IF row.status = "processing" /\ IsStuck(row)
                     THEN RecoverRow(row) ELSE row
    IN  /\ worker[w].pc = "received"
        /\ \/ /\ claimable.status \in {"queued", "retrying"}
              /\ SetRow(o, StartAttempt(claimable))
              /\ Goto(w, "calling")
           \/ /\ claimable.status \notin {"queued", "retrying"}
              /\ SetRow(o, claimable)
              /\ Release(w)
        /\ UNCHANGED <<broker, api, sweep, applied>>

(* call_observation_pipeline returns a valid output, or one of its errors. *)
ProviderReturns(w) ==
    /\ worker[w].pc = "calling"
    /\ \E step \in {"applying", "failing", "retrying"} : Goto(w, step)
    /\ UNCHANGED <<processing, broker, api, sweep, applied>>

(* The second transaction: the row is locked and written without another   *)
(* look at its status.  A callback registered with on_commit may raise     *)
(* after the commit, and the except clause then takes the same road as for *)
(* a transaction that rolled back.                                         *)
Apply(w) ==
    LET o == worker[w].obs
    IN  /\ worker[w].pc = "applying"
        /\ SetRow(o, [processing[o] EXCEPT !.status = "processed"])
        /\ applied' = [applied EXCEPT ![o] = @ + 1]
        /\ Release(w) \/ Goto(w, "failing")
        /\ UNCHANGED <<broker, api, sweep>>

ApplyRollsBack(w) ==
    /\ worker[w].pc = "applying"
    /\ Goto(w, "failing")
    /\ UNCHANGED <<processing, broker, api, sweep, applied>>

MarkFailed(w) ==
    LET o == worker[w].obs
    IN  /\ worker[w].pc = "failing"
        /\ SetRow(o, [processing[o] EXCEPT !.status = "failed"])
        /\ Release(w)
        /\ UNCHANGED <<broker, api, sweep, applied>>

MarkRetryOrFailed(w) ==
    LET o == worker[w].obs
    IN  /\ worker[w].pc = "retrying"
        /\ SetRow(o, RetryRow(processing[o]))
        /\ IF processing[o].attempts < MaxAttempts
           THEN Goto(w, "publishing") ELSE Release(w)
        /\ UNCHANGED <<broker, api, sweep, applied>>

WorkerPublish(w) ==
    /\ worker[w].pc = "publishing"
    /\ \E confirmed \in BOOLEAN :
        /\ Publish(worker[w].obs, confirmed)
        /\ IF confirmed THEN Goto(w, "stamping") ELSE Release(w)
    /\ UNCHANGED <<processing, api, sweep, applied>>

WorkerStamp(w) ==
    /\ worker[w].pc = "stamping"
    /\ Stamp(worker[w].obs)
    /\ Release(w)
    /\ UNCHANGED <<broker, api, sweep, applied>>

WorkerDie(w) ==
    /\ worker[w].pc # "idle"
    /\ Release(w)
    /\ UNCHANGED <<processing, broker, api, sweep, applied>>

-----------------------------------------------------------------------------
(* The recovery sweep: stuck rows first, then queued and retrying rows     *)
(* whose message is presumed lost.  One sweep enqueues a row at most once. *)

SetSweep(s, state) == sweep' = [sweep EXCEPT ![s] = state]

SelectStuck ==
    {o \in Observations : /\ processing[o].status = "processing"
                          /\ processing[o].started > StuckThreshold}
SelectQueued ==
    {o \in Observations : /\ processing[o].status = "queued"
                          /\ processing[o].started = Never
                          /\ PublishDue(processing[o])}
SelectRetrying ==
    {o \in Observations : /\ processing[o].status = "retrying"
                          /\ processing[o].retryIn = 0
                          /\ PublishDue(processing[o])}

SweepStart(s) ==
    /\ sweep[s].phase = "idle"
    /\ SetSweep(s, [SweepIdle EXCEPT !.phase = "stuck", !.todo = SelectStuck])
    /\ UNCHANGED <<processing, broker, api, worker, applied>>

(* The row is read without a lock, and its age decides whether to recover. *)
SweepFetch(s, o) ==
    /\ sweep[s].phase = "stuck" /\ sweep[s].step = "pick" /\ o \in sweep[s].todo
    /\ IF IsStuck(processing[o])
       THEN SetSweep(s, [sweep[s] EXCEPT !.todo = @ \ {o}, !.obs = o,
                                         !.step = "recover"])
       ELSE SetSweep(s, [sweep[s] EXCEPT !.todo = @ \ {o}])
    /\ UNCHANGED <<processing, broker, api, worker, applied>>

(* Under the lock only the status is looked at again, not the age.         *)
SweepRecover(s) ==
    LET o   == sweep[s].obs
        row == IF processing[o].status = "processing"
               THEN RecoverRow(processing[o]) ELSE processing[o]
    IN  /\ sweep[s].step = "recover"
        /\ SetRow(o, row)
        /\ SetSweep(s, [sweep[s] EXCEPT
                 !.step = IF row.status = "retrying" THEN "recheck" ELSE "pick"])
        /\ UNCHANGED <<broker, api, worker, applied>>

SweepRecheck(s) ==
    /\ sweep[s].step = "recheck"
    /\ SetSweep(s, [sweep[s] EXCEPT
             !.step = IF /\ processing[sweep[s].obs].status = "retrying"
                         /\ sweep[s].obs \notin sweep[s].enqueued
                      THEN "publish" ELSE "pick"])
    /\ UNCHANGED <<processing, broker, api, worker, applied>>

PhaseDone(s, phase) ==
    sweep[s].phase = phase /\ sweep[s].step = "pick" /\ sweep[s].todo = {}

SweepQueued(s) ==
    /\ PhaseDone(s, "stuck")
    /\ SetSweep(s, [sweep[s] EXCEPT !.phase = "queued", !.todo = SelectQueued])
    /\ UNCHANGED <<processing, broker, api, worker, applied>>

SweepRetrying(s) ==
    /\ PhaseDone(s, "queued")
    /\ SetSweep(s, [sweep[s] EXCEPT !.phase = "retrying", !.todo = SelectRetrying])
    /\ UNCHANGED <<processing, broker, api, worker, applied>>

SweepEnd(s) ==
    /\ PhaseDone(s, "retrying")
    /\ SetSweep(s, SweepIdle)
    /\ UNCHANGED <<processing, broker, api, worker, applied>>

SweepPickOrphan(s, o) ==
    /\ sweep[s].phase \in {"queued", "retrying"} /\ sweep[s].step = "pick"
    /\ o \in sweep[s].todo
    /\ SetSweep(s, [sweep[s] EXCEPT !.todo = @ \ {o}, !.obs = o,
             !.step = IF o \in sweep[s].enqueued THEN "pick" ELSE "publish"])
    /\ UNCHANGED <<processing, broker, api, worker, applied>>

SweepPublish(s, confirmed) ==
    /\ sweep[s].step = "publish"
    /\ Publish(sweep[s].obs, confirmed)
    /\ SetSweep(s, IF confirmed
                   THEN [sweep[s] EXCEPT !.step = "stamp",
                                         !.enqueued = @ \cup {sweep[s].obs}]
                   ELSE [sweep[s] EXCEPT !.step = "pick"])
    /\ UNCHANGED <<processing, api, worker, applied>>

SweepStamp(s) ==
    /\ sweep[s].step = "stamp"
    /\ Stamp(sweep[s].obs)
    /\ SetSweep(s, [sweep[s] EXCEPT !.step = "pick"])
    /\ UNCHANGED <<broker, api, worker, applied>>

SweepDie(s) ==
    /\ sweep[s].phase # "idle"
    /\ SetSweep(s, SweepIdle)
    /\ UNCHANGED <<processing, broker, api, worker, applied>>

-----------------------------------------------------------------------------
(* The environment *)

LoseMessage(o) ==
    /\ broker[o] > 0
    /\ broker' = [broker EXCEPT ![o] = @ - 1]
    /\ UNCHANGED <<processing, api, worker, sweep, applied>>

Older(age) == IF age = Never \/ age = AgeCap THEN age ELSE age + 1

AgeRow(row) ==
    [row EXCEPT !.started = Older(@), !.published = Older(@),
                !.retryIn = IF @ > 0 THEN @ - 1 ELSE 0]

(* The pool kills a task at its hard time limit.                           *)
AgeWorker(wk) ==
    IF wk.pc = "idle" \/ wk.age + 1 >= TimeLimit
    THEN Idle
    ELSE [wk EXCEPT !.age = @ + 1]

Tick ==
    /\ processing' = [o \in Observations |-> AgeRow(processing[o])]
    /\ worker' = [w \in Workers |-> AgeWorker(worker[w])]
    /\ UNCHANGED <<broker, api, sweep, applied>>

-----------------------------------------------------------------------------
ApiStep(o) == Submit(o) \/ ApiPublish(o) \/ ApiStamp(o) \/ ApiDie(o)

WorkerStep(w) ==
    \/ \E o \in Observations : Receive(w, o)
    \/ Begin(w) \/ ProviderReturns(w) \/ Apply(w) \/ ApplyRollsBack(w)
    \/ MarkFailed(w) \/ MarkRetryOrFailed(w)
    \/ WorkerPublish(w) \/ WorkerStamp(w)

SweepStep(s) ==
    \/ SweepStart(s) \/ SweepQueued(s) \/ SweepRetrying(s) \/ SweepEnd(s)
    \/ \E o \in Observations : SweepFetch(s, o) \/ SweepPickOrphan(s, o)
    \/ SweepRecover(s) \/ SweepRecheck(s)
    \/ SweepPublish(s, TRUE) \/ SweepStamp(s)

Orderly ==
    \/ \E o \in Observations : ApiStep(o)
    \/ \E w \in Workers : WorkerStep(w)
    \/ \E s \in Sweeps : SweepStep(s)
    \/ Tick

Fault ==
    \/ \E o \in Observations : LoseMessage(o)
    \/ \E w \in Workers : WorkerDie(w)
    \/ \E s \in Sweeps : SweepDie(s) \/ SweepPublish(s, FALSE)

Next == Orderly \/ Fault

Spec == Init /\ [][Next]_vars

(* A recovery that finds the row under the lock as stuck as when it read   *)
(* it: what SweepRecover does whenever nobody claims the row in between.   *)
FreshRecovery ==
    \A s \in Sweeps :
        SweepRecover(s) =>
            LET row == processing[sweep[s].obs]
            IN  row.status = "processing" => IsStuck(row)

SpecFresh == Init /\ [][Next /\ FreshRecovery]_vars

(* Any number of processes may die and messages be lost or refused, but    *)
(* not forever; beat keeps scheduling the sweep and a sweep runs to its    *)
(* end; a worker with a message takes it, and does not lose every race     *)
(* between the first row lock and its time limit.  Nothing obliges a user  *)
(* to submit or the provider to answer.                                    *)
Fairness ==
    /\ <>[][Orderly]_vars
    /\ WF_vars(Tick)
    /\ WF_vars(\E w \in Workers, o \in Observations : Receive(w, o))
    /\ SF_vars(\E w \in Workers : Begin(w))
    /\ \A s \in Sweeps : WF_vars(SweepStep(s))

FairSpec == Spec /\ Fairness

-----------------------------------------------------------------------------
TypeOK ==
    /\ processing \in [Observations -> Rows]
    /\ broker \in [Observations -> 0..MaxMessages]
    /\ api \in [Observations -> ApiSteps]
    /\ worker \in [Workers -> WorkerStates]
    /\ sweep \in [Sweeps -> SweepStates]
    /\ applied \in [Observations -> Nat]

(* The provider is paid for at most MaxAttempts times per observation, and *)
(* its output is applied at most once per attempt, whatever is duplicated, *)
(* recovered or reclaimed.                                                 *)
AppliedWithinBudget ==
    \A o \in Observations :
        applied[o] <= processing[o].attempts /\ processing[o].attempts <= MaxAttempts

(* "Worker loss / stuck processing resumes without a second signal": the   *)
(* AI output of one observation is turned into signals once.               *)
AtMostOnceApplied == \A o \in Observations : applied[o] <= 1

(* "cannot reopen a live attempt" (settings.py): a worker between its two  *)
(* transactions still owns the row it claimed, and is alone to own it.     *)
LiveClaimsAreExclusive ==
    \A w \in Workers : worker[w].pc \in ClaimSteps =>
        /\ processing[worker[w].obs].status \in {"processing", "processed"}
        /\ \A v \in Workers \ {w} :
            worker[v].pc \in ClaimSteps => worker[v].obs # worker[w].obs

(* Every observation that was queued is processed or failed in the end:    *)
(* no crash, lost message or missed confirm leaves one behind.             *)
EverySubmissionSettles ==
    \A o \in Observations :
        processing[o].status = "queued" ~> processing[o].status \in Terminal

(* What submitting an observation promises.                                *)
OutcomeOf(o) ==
    IF applied[o] > 0 THEN "applied"
    ELSE IF processing[o].status = "failed" THEN "abandoned"
    ELSE IF processing[o].status = "absent" THEN "absent"
    ELSE "pending"

Outcome == INSTANCE ObservationOutcome
           WITH outcome <- [o \in Observations |-> OutcomeOf(o)]

(* The pipeline implements ObservationOutcome: a submitted observation is  *)
(* pending until its output is applied, once and for good, or until it is  *)
(* abandoned, and then nothing of it is ever applied.                      *)
OutcomeSpec == Outcome!Spec
=============================================================================
