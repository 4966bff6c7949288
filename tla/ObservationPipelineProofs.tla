--------------------- MODULE ObservationPipelineProofs ---------------------
(***************************************************************************)
(* Theorems about ObservationPipeline, for every number of observations,   *)
(* workers and sweeps and every value of the limits.                       *)
(***************************************************************************)
EXTENDS ObservationPipeline, FiniteSetTheorems, TLAPS

(* A row that may still be claimed has an attempt left, and one not yet    *)
(* submitted has used none.                                                *)
Budgeted(row) ==
    /\ row.status \in {"queued", "retrying"} => row.attempts < MaxAttempts
    /\ row.status = "absent" => row.attempts = 0
OpenRowsHaveBudget == \A o \in Observations : Budgeted(processing[o])
USE DEF Budgeted

RowsOK   == processing \in [Observations -> Rows] /\ OpenRowsHaveBudget
BrokerOK == broker \in [Observations -> 0..MaxMessages]

(* A process in the middle of something knows which observation it is on.  *)
WorkersOK ==
    /\ worker \in [Workers -> WorkerStates]
    /\ \A w \in Workers : worker[w].pc # "idle" => worker[w].obs \in Observations
SweepsOK ==
    /\ sweep \in [Sweeps -> SweepStates]
    /\ \A s \in Sweeps : sweep[s].step # "pick" => sweep[s].obs \in Observations

TypeInv ==
    /\ RowsOK /\ BrokerOK /\ WorkersOK /\ SweepsOK
    /\ api \in [Observations -> ApiSteps]
    /\ applied \in [Observations -> Nat]

(* A step of one process, orderly or a fault. *)
AnyWorkerStep(w) == WorkerStep(w) \/ WorkerDie(w)
AnySweepStep(s)  == SweepStep(s) \/ SweepPublish(s, FALSE) \/ SweepDie(s)

-----------------------------------------------------------------------------
(* What the functions on a row return. *)

(* Claiming an open row uses one attempt of its budget.                    *)
LEMMA StartAttemptType ==
    ASSUME NEW row \in Rows, row.attempts < MaxAttempts
    PROVE  /\ StartAttempt(row) \in Rows
           /\ StartAttempt(row).status = "processing"
           /\ StartAttempt(row).attempts = row.attempts + 1
           /\ StartAttempt(row).started = 0
  <1>1. /\ row.attempts + 1 \in 0..MaxAttempts
        /\ 0 \in Age
    BY PipelineAssumption DEF Rows, Age, AgeCap, Never
  <1>2. QED  BY <1>1 DEF StartAttempt, Rows, Statuses

(* Recovering or retrying a row keeps its attempt count; it is open again  *)
(* only if an attempt is left, and failed otherwise.                       *)
LEMMA ReopenType ==
    ASSUME NEW row \in Rows, NEW next,
           next = RecoverRow(row) \/ next = RetryRow(row)
    PROVE  /\ next \in Rows
           /\ next.attempts = row.attempts
           /\ row.attempts < MaxAttempts => next.status = "retrying"
           /\ ~(row.attempts < MaxAttempts) => next = [row EXCEPT !.status = "failed"]
  <1>1. 0 \in 0..RetryDelay /\ RetryDelay \in 0..RetryDelay /\ Never \in Age
    BY PipelineAssumption DEF Age
  <1>2. CASE row.attempts < MaxAttempts
    BY <1>1, <1>2 DEF RecoverRow, RetryRow, Rows, Statuses
  <1>3. CASE ~(row.attempts < MaxAttempts)
    BY <1>3 DEF RecoverRow, RetryRow, Rows, Statuses
  <1>4. QED  BY <1>2, <1>3

(* Time passing changes neither the status nor the attempts of a row.      *)
LEMMA AgeRowType ==
    ASSUME NEW row \in Rows
    PROVE  /\ AgeRow(row) \in Rows
           /\ AgeRow(row).status = row.status
           /\ AgeRow(row).attempts = row.attempts
           /\ AgeRow(row).started = Older(row.started)
  <1>1. \A age \in Age : Older(age) \in Age
    BY PipelineAssumption DEF Older, Age, AgeCap, Never
  <1>2. \A n \in 0..RetryDelay : (IF n > 0 THEN n - 1 ELSE 0) \in 0..RetryDelay
    BY PipelineAssumption
  <1>3. QED  BY <1>1, <1>2 DEF AgeRow, Rows

-----------------------------------------------------------------------------
(* What each kind of write preserves. *)

LEMMA SetRowType ==
    ASSUME RowsOK, NEW o \in Observations, NEW row \in Rows,
           Budgeted(row), SetRow(o, row)
    PROVE  RowsOK'
  BY DEF RowsOK, SetRow, OpenRowsHaveBudget

LEMMA StampType ==
    ASSUME RowsOK, NEW o \in Observations, Stamp(o)
    PROVE  RowsOK'
  <1> DEFINE row == [processing[o] EXCEPT !.published = 0]
  <1>1. 0 \in Age  BY PipelineAssumption DEF Age, AgeCap
  <1>2. /\ row \in Rows
        /\ row.status = processing[o].status
        /\ row.attempts = processing[o].attempts
    BY <1>1 DEF RowsOK, Rows
  <1>3. SetRow(o, row)  BY DEF Stamp
  <1> HIDE DEF row
  <1>4. QED  BY <1>2, <1>3, SetRowType DEF RowsOK, OpenRowsHaveBudget

LEMMA PublishType ==
    ASSUME BrokerOK, NEW o \in Observations, NEW confirmed \in BOOLEAN,
           Publish(o, confirmed)
    PROVE  BrokerOK'
  BY PipelineAssumption DEF BrokerOK, Publish, Enqueue

LEMMA TakeMessageType ==
    ASSUME BrokerOK, NEW o \in Observations, broker[o] > 0,
           broker' = [broker EXCEPT ![o] = @ - 1]
    PROVE  BrokerOK'
  BY PipelineAssumption DEF BrokerOK

LEMMA GotoType ==
    ASSUME WorkersOK, NEW w \in Workers, worker[w].pc # "idle",
           NEW step \in WorkerSteps, Goto(w, step)
    PROVE  WorkersOK'
  BY DEF WorkersOK, Goto, WorkerStates

LEMMA ReleaseType ==
    ASSUME WorkersOK, NEW w \in Workers, Release(w)
    PROVE  WorkersOK'
  <1>1. Idle \in WorkerStates /\ Idle.pc = "idle"
    BY PipelineAssumption DEF Idle, WorkerStates, WorkerSteps
  <1>2. QED  BY <1>1 DEF WorkersOK, Release

LEMMA SetSweepType ==
    ASSUME SweepsOK, NEW s \in Sweeps, NEW state \in SweepStates,
           state.step # "pick" => state.obs \in Observations,
           SetSweep(s, state)
    PROVE  SweepsOK'
  BY DEF SweepsOK, SetSweep

LEMMA SweepIdleType == SweepIdle \in SweepStates /\ SweepIdle.step = "pick"
  BY DEF SweepIdle, SweepStates, SweepPhases, SweepSteps


-----------------------------------------------------------------------------
(* Every step preserves TypeInv. *)

LEMMA TypeInvInit == Init => TypeInv
  <1> SUFFICES ASSUME Init PROVE TypeInv  OBVIOUS
  <1>1. AbsentRow \in Rows /\ AbsentRow.status = "absent" /\ AbsentRow.attempts = 0
    BY PipelineAssumption DEF AbsentRow, Rows, Statuses, Age
  <1>2. Idle \in WorkerStates /\ Idle.pc = "idle"
    BY PipelineAssumption DEF Idle, WorkerStates, WorkerSteps
  <1>3. RowsOK  BY <1>1 DEF Init, RowsOK, OpenRowsHaveBudget
  <1>4. BrokerOK  BY PipelineAssumption DEF Init, BrokerOK
  <1>5. WorkersOK  BY <1>2 DEF Init, WorkersOK
  <1>6. SweepsOK  BY SweepIdleType DEF Init, SweepsOK
  <1>7. QED  BY <1>3, <1>4, <1>5, <1>6 DEF Init, ApiSteps, TypeInv

LEMMA TypeInvApi ==
    ASSUME TypeInv, NEW o \in Observations, ApiStep(o)
    PROVE  TypeInv'
  <1> USE DEF TypeInv
  <1>1. CASE Submit(o)
    <2> DEFINE row == [AbsentRow EXCEPT !.status = "queued"]
    <2>1. row \in Rows /\ Budgeted(row)
      BY PipelineAssumption DEF AbsentRow, Rows, Statuses, Age
    <2>2. SetRow(o, row)  BY <1>1 DEF Submit
    <2> HIDE DEF row
    <2>3. RowsOK'  BY <2>1, <2>2, SetRowType
    <2>4. QED
      BY <1>1, <2>3 DEF Submit, BrokerOK, WorkersOK, SweepsOK, ApiSteps
  <1>2. CASE ApiPublish(o)
    <2>1. BrokerOK'  BY <1>2, PublishType DEF ApiPublish
    <2>2. QED
      BY <1>2, <2>1
      DEF ApiPublish, RowsOK, OpenRowsHaveBudget, WorkersOK, SweepsOK, ApiSteps
  <1>3. CASE ApiStamp(o)
    <2>1. RowsOK'  BY <1>3, StampType DEF ApiStamp
    <2>2. QED
      BY <1>3, <2>1 DEF ApiStamp, BrokerOK, WorkersOK, SweepsOK, ApiSteps
  <1>4. CASE ApiDie(o)
    BY <1>4 DEF ApiDie, RowsOK, OpenRowsHaveBudget, BrokerOK, WorkersOK, SweepsOK, ApiSteps
  <1>5. QED  BY <1>1, <1>2, <1>3, <1>4 DEF ApiStep

LEMMA BeginType ==
    ASSUME TypeInv, NEW w \in Workers, Begin(w)
    PROVE  RowsOK' /\ WorkersOK'
  <1> DEFINE o == worker[w].obs
             row == processing[o]
             claimable == IF row.status = "processing" /\ IsStuck(row)
                          THEN RecoverRow(row) ELSE row
  <1>1. /\ RowsOK /\ WorkersOK
        /\ worker[w].pc # "idle" /\ o \in Observations /\ row \in Rows
    BY DEF TypeInv, Begin, RowsOK, WorkersOK
  <1>2. /\ claimable \in Rows
        /\ Budgeted(claimable)
    <2>1. CASE row.status = "processing" /\ IsStuck(row)
      <3>1. claimable = RecoverRow(row)  BY <2>1
      <3>2. row.attempts < MaxAttempts \/ claimable.status = "failed"
        BY <1>1, <3>1, ReopenType DEF Rows
      <3>3. QED  BY <1>1, <3>1, <3>2, ReopenType
    <2>2. CASE ~(row.status = "processing" /\ IsStuck(row))
      BY <1>1, <2>2 DEF RowsOK, OpenRowsHaveBudget
    <2>3. QED  BY <2>1, <2>2
  <1>3. \/ /\ claimable.status \in {"queued", "retrying"}
           /\ SetRow(o, StartAttempt(claimable))
           /\ Goto(w, "calling")
        \/ /\ claimable.status \notin {"queued", "retrying"}
           /\ SetRow(o, claimable)
           /\ Release(w)
    BY DEF Begin
  <1> HIDE DEF claimable, row, o
  <1>4. CASE /\ claimable.status \in {"queued", "retrying"}
             /\ SetRow(o, StartAttempt(claimable))
             /\ Goto(w, "calling")
    <2>1. RowsOK'  BY <1>1, <1>2, <1>4, StartAttemptType, SetRowType
    <2>2. "calling" \in WorkerSteps  BY DEF WorkerSteps, ClaimSteps
    <2>3. QED  BY <1>1, <1>4, <2>1, <2>2, GotoType
  <1>5. CASE /\ claimable.status \notin {"queued", "retrying"}
             /\ SetRow(o, claimable)
             /\ Release(w)
    BY <1>1, <1>2, <1>5, SetRowType, ReleaseType
  <1>6. QED  BY <1>3, <1>4, <1>5

LEMMA TypeInvWorker ==
    ASSUME TypeInv, NEW w \in Workers, AnyWorkerStep(w)
    PROVE  TypeInv'
  <1> USE DEF TypeInv
  <1> DEFINE o == worker[w].obs
  <1>o. worker[w].pc # "idle" => o \in Observations /\ processing[o] \in Rows
    BY DEF WorkersOK, RowsOK
  <1>s. WorkerSteps = {"idle", "received", "publishing", "stamping",
                       "calling", "applying", "failing", "retrying"}
    BY DEF WorkerSteps, ClaimSteps
  <1>1. CASE \E m \in Observations : Receive(w, m)
    <2> PICK m \in Observations : Receive(w, m)  BY <1>1
    <2>1. BrokerOK'  BY TakeMessageType DEF Receive
    <2>2. [pc |-> "received", obs |-> m, age |-> 0] \in WorkerStates
      BY <1>s, PipelineAssumption DEF WorkerStates
    <2>3. WorkersOK'  BY <2>2 DEF Receive, WorkersOK
    <2>4. QED  BY <2>1, <2>3 DEF Receive, RowsOK, OpenRowsHaveBudget, SweepsOK
  <1>2. CASE Begin(w)
    BY <1>2, BeginType DEF Begin, BrokerOK, SweepsOK
  <1>3. CASE ProviderReturns(w)
    <2>1. WorkersOK'  BY <1>3, <1>s, GotoType DEF ProviderReturns
    <2>2. QED
      BY <1>3, <2>1 DEF ProviderReturns, RowsOK, OpenRowsHaveBudget, BrokerOK, SweepsOK
  <1>4. CASE Apply(w)
    <2> DEFINE row == [processing[o] EXCEPT !.status = "processed"]
    <2>1. row \in Rows /\ row.status = "processed"
      BY <1>o, <1>4 DEF Apply, Rows, Statuses
    <2>2. SetRow(o, row) /\ o \in Observations  BY <1>o, <1>4 DEF Apply
    <2> HIDE DEF row
    <2>3. RowsOK'  BY <2>1, <2>2, SetRowType
    <2>4. WorkersOK'  BY <1>4, <1>s, GotoType, ReleaseType DEF Apply
    <2>5. applied' \in [Observations -> Nat]  BY <1>4, <2>2 DEF Apply
    <2>6. QED  BY <1>4, <2>3, <2>4, <2>5 DEF Apply, BrokerOK, SweepsOK
  <1>5. CASE ApplyRollsBack(w)
    <2>1. WorkersOK'  BY <1>5, <1>s, GotoType DEF ApplyRollsBack
    <2>2. QED
      BY <1>5, <2>1 DEF ApplyRollsBack, RowsOK, OpenRowsHaveBudget, BrokerOK, SweepsOK
  <1>6. CASE MarkFailed(w)
    <2> DEFINE row == [processing[o] EXCEPT !.status = "failed"]
    <2>1. row \in Rows /\ row.status = "failed"
      BY <1>o, <1>6 DEF MarkFailed, Rows, Statuses
    <2>2. SetRow(o, row) /\ o \in Observations  BY <1>o, <1>6 DEF MarkFailed
    <2> HIDE DEF row
    <2>3. RowsOK'  BY <2>1, <2>2, SetRowType
    <2>4. WorkersOK'  BY <1>6, ReleaseType DEF MarkFailed
    <2>5. QED  BY <1>6, <2>3, <2>4 DEF MarkFailed, BrokerOK, SweepsOK
  <1>7. CASE MarkRetryOrFailed(w)
    <2> DEFINE row == RetryRow(processing[o])
    <2>1. processing[o] \in Rows /\ o \in Observations
      BY <1>o, <1>7 DEF MarkRetryOrFailed
    <2>2. row \in Rows /\ Budgeted(row)
      BY <2>1, ReopenType DEF Rows
    <2>3. SetRow(o, row)  BY <1>7 DEF MarkRetryOrFailed
    <2> HIDE DEF row
    <2>4. RowsOK'  BY <2>1, <2>2, <2>3, SetRowType
    <2>5. WorkersOK'  BY <1>7, <1>s, GotoType, ReleaseType DEF MarkRetryOrFailed
    <2>6. QED  BY <1>7, <2>4, <2>5 DEF MarkRetryOrFailed, BrokerOK, SweepsOK
  <1>8. CASE WorkerPublish(w)
    <2>1. BrokerOK'  BY <1>8, <1>o, PublishType DEF WorkerPublish
    <2>2. WorkersOK'  BY <1>8, <1>s, GotoType, ReleaseType DEF WorkerPublish
    <2>3. QED
      BY <1>8, <2>1, <2>2 DEF WorkerPublish, RowsOK, OpenRowsHaveBudget, SweepsOK
  <1>9. CASE WorkerStamp(w)
    <2>1. RowsOK'  BY <1>9, <1>o, StampType DEF WorkerStamp
    <2>2. WorkersOK'  BY <1>9, ReleaseType DEF WorkerStamp
    <2>3. QED  BY <1>9, <2>1, <2>2 DEF WorkerStamp, BrokerOK, SweepsOK
  <1>10. CASE WorkerDie(w)
    <2>1. WorkersOK'  BY <1>10, ReleaseType DEF WorkerDie
    <2>2. QED
      BY <1>10, <2>1 DEF WorkerDie, RowsOK, OpenRowsHaveBudget, BrokerOK, SweepsOK
  <1>11. QED
    BY <1>1, <1>2, <1>3, <1>4, <1>5, <1>6, <1>7, <1>8, <1>9, <1>10 DEF AnyWorkerStep, WorkerStep

LEMMA TypeInvSweep ==
    ASSUME TypeInv, NEW s \in Sweeps, AnySweepStep(s)
    PROVE  TypeInv'
  <1> USE DEF TypeInv
  <1> DEFINE o == sweep[s].obs
  <1>o. /\ sweep[s] \in SweepStates
        /\ sweep[s].step # "pick" => o \in Observations /\ processing[o] \in Rows
    BY DEF SweepsOK, RowsOK
  <1>q. SelectStuck \subseteq Observations /\ SelectQueued \subseteq Observations
        /\ SelectRetrying \subseteq Observations
    BY DEF SelectStuck, SelectQueued, SelectRetrying
  <1>1. CASE SweepStart(s)
    <2> DEFINE state == [SweepIdle EXCEPT !.phase = "stuck", !.todo = SelectStuck]
    <2>1. state \in SweepStates /\ state.step = "pick"
      BY <1>q DEF SweepIdle, SweepStates, SweepPhases, SweepSteps
    <2>2. SetSweep(s, state)  BY <1>1 DEF SweepStart
    <2> HIDE DEF state
    <2>3. SweepsOK'  BY <2>1, <2>2, SetSweepType
    <2>4. QED
      BY <1>1, <2>3 DEF SweepStart, RowsOK, OpenRowsHaveBudget, BrokerOK, WorkersOK
  <1>2. CASE SweepQueued(s) \/ SweepRetrying(s) \/ SweepEnd(s)
    <2>1. /\ [sweep[s] EXCEPT !.phase = "queued", !.todo = SelectQueued] \in SweepStates
          /\ [sweep[s] EXCEPT !.phase = "retrying", !.todo = SelectRetrying]
                \in SweepStates
      BY <1>o, <1>q DEF SweepStates, SweepPhases
    <2>2. SweepsOK'
      BY <1>2, <1>o, <2>1, SetSweepType, SweepIdleType
      DEF SweepQueued, SweepRetrying, SweepEnd, PhaseDone, SweepStates
    <2>3. QED
      BY <1>2, <2>2
      DEF SweepQueued, SweepRetrying, SweepEnd, RowsOK, OpenRowsHaveBudget, BrokerOK,
          WorkersOK
  <1>3. CASE \E m \in Observations : SweepFetch(s, m) \/ SweepPickOrphan(s, m)
    <2> PICK m \in Observations : SweepFetch(s, m) \/ SweepPickOrphan(s, m)  BY <1>3
    <2>1. \A step \in {"pick", "recover", "publish"} :
            /\ [sweep[s] EXCEPT !.todo = @ \ {m}, !.obs = m, !.step = step] \in SweepStates
            /\ [sweep[s] EXCEPT !.todo = @ \ {m}, !.obs = m, !.step = step].obs = m
      BY <1>o DEF SweepStates, SweepSteps
    <2>2. /\ [sweep[s] EXCEPT !.todo = @ \ {m}] \in SweepStates
          /\ [sweep[s] EXCEPT !.todo = @ \ {m}].step = sweep[s].step
      BY <1>o DEF SweepStates
    <2>3. CASE SweepFetch(s, m)
      <3>1. SweepsOK'  BY <2>1, <2>2, <2>3, SetSweepType DEF SweepFetch
      <3>2. QED
        BY <2>3, <3>1 DEF SweepFetch, RowsOK, OpenRowsHaveBudget, BrokerOK, WorkersOK
    <2>4. CASE SweepPickOrphan(s, m)
      <3>1. SweepsOK'  BY <2>1, <2>4, SetSweepType DEF SweepPickOrphan
      <3>2. QED
        BY <2>4, <3>1
        DEF SweepPickOrphan, RowsOK, OpenRowsHaveBudget, BrokerOK, WorkersOK
    <2>5. QED  BY <2>3, <2>4
  <1>a. \A step \in SweepSteps :
            /\ [sweep[s] EXCEPT !.step = step] \in SweepStates
            /\ [sweep[s] EXCEPT !.step = step].obs = o
    BY <1>o DEF SweepStates
  <1>b. SweepSteps = {"pick", "recover", "recheck", "publish", "stamp"}
    BY DEF SweepSteps
  <1>4. CASE SweepRecover(s)
    <2> DEFINE row == IF processing[o].status = "processing"
                      THEN RecoverRow(processing[o]) ELSE processing[o]
    <2>1. o \in Observations /\ processing[o] \in Rows
      BY <1>4, <1>o DEF SweepRecover
    <2>2. row \in Rows /\ Budgeted(row)
      <3>1. CASE processing[o].status = "processing"
        BY <2>1, <3>1, ReopenType DEF Rows
      <3>2. CASE processing[o].status # "processing"
        BY <2>1, <3>2 DEF RowsOK, OpenRowsHaveBudget
      <3>3. QED  BY <3>1, <3>2
    <2>3. /\ SetRow(o, row)
          /\ \E step \in {"recheck", "pick"} :
                SetSweep(s, [sweep[s] EXCEPT !.step = step])
      BY <1>4 DEF SweepRecover
    <2> HIDE DEF row
    <2>4. RowsOK'  BY <2>1, <2>2, <2>3, SetRowType
    <2>5. SweepsOK'  BY <1>a, <1>b, <2>1, <2>3, SetSweepType
    <2>6. QED  BY <1>4, <2>4, <2>5 DEF SweepRecover, BrokerOK, WorkersOK
  <1>5. CASE SweepRecheck(s)
    <2>1. \E step \in {"publish", "pick"} : SetSweep(s, [sweep[s] EXCEPT !.step = step])
      BY <1>5 DEF SweepRecheck
    <2>2. SweepsOK'  BY <1>5, <1>o, <1>a, <1>b, <2>1, SetSweepType DEF SweepRecheck
    <2>3. QED
      BY <1>5, <2>2 DEF SweepRecheck, RowsOK, OpenRowsHaveBudget, BrokerOK, WorkersOK
  <1>6. CASE \E confirmed \in BOOLEAN : SweepPublish(s, confirmed)
    <2> PICK confirmed \in BOOLEAN : SweepPublish(s, confirmed)  BY <1>6
    <2>1. o \in Observations  BY <1>o DEF SweepPublish
    <2>2. BrokerOK'  BY <2>1, PublishType DEF SweepPublish
    <2>3. /\ [sweep[s] EXCEPT !.step = "stamp", !.enqueued = @ \cup {o}] \in SweepStates
          /\ [sweep[s] EXCEPT !.step = "stamp", !.enqueued = @ \cup {o}].obs = o
      BY <1>o, <2>1 DEF SweepStates, SweepSteps
    <2>4. SweepsOK'
      BY <1>a, <1>b, <2>1, <2>3, SetSweepType DEF SweepPublish
    <2>5. QED
      BY <2>2, <2>4 DEF SweepPublish, RowsOK, OpenRowsHaveBudget, WorkersOK
  <1>7. CASE SweepStamp(s)
    <2>1. o \in Observations  BY <1>7, <1>o DEF SweepStamp
    <2>2. RowsOK'  BY <1>7, <2>1, StampType DEF SweepStamp
    <2>3. SweepsOK'  BY <1>7, <1>a, <1>b, <2>1, SetSweepType DEF SweepStamp
    <2>4. QED  BY <1>7, <2>2, <2>3 DEF SweepStamp, BrokerOK, WorkersOK
  <1>8. CASE SweepDie(s)
    <2>1. SweepsOK'  BY <1>8, SetSweepType, SweepIdleType DEF SweepDie
    <2>2. QED
      BY <1>8, <2>1 DEF SweepDie, RowsOK, OpenRowsHaveBudget, BrokerOK, WorkersOK
  <1>9. QED
    BY <1>1, <1>2, <1>3, <1>4, <1>5, <1>6, <1>7, <1>8 DEF AnySweepStep, SweepStep

LEMMA TypeInvTick ==
    ASSUME TypeInv, Tick
    PROVE  TypeInv'
  <1>1. RowsOK'
    <2>1. \A o \in Observations : processing'[o] = AgeRow(processing[o])  BY DEF Tick
    <2>2. QED
      BY <2>1, AgeRowType DEF TypeInv, Tick, RowsOK, OpenRowsHaveBudget
  <1>2. WorkersOK'
    <2>1. Idle \in WorkerStates /\ Idle.pc = "idle"
      BY PipelineAssumption DEF Idle, WorkerStates, WorkerSteps
    <2>2. \A wk \in WorkerStates :
            /\ AgeWorker(wk) \in WorkerStates
            /\ AgeWorker(wk).pc # "idle" => wk.pc # "idle" /\ AgeWorker(wk).obs = wk.obs
      BY <2>1, PipelineAssumption DEF AgeWorker, WorkerStates
    <2>3. \A w \in Workers : worker'[w] = AgeWorker(worker[w])  BY DEF Tick
    <2>4. QED  BY <2>2, <2>3 DEF TypeInv, Tick, WorkersOK
  <1>3. QED  BY <1>1, <1>2 DEF TypeInv, Tick, BrokerOK, SweepsOK

LEMMA TypeInvStep == TypeInv /\ [Next]_vars => TypeInv'
  <1> SUFFICES ASSUME TypeInv, [Next]_vars PROVE TypeInv'  OBVIOUS
  <1>1. CASE \E o \in Observations : ApiStep(o)
    BY <1>1, TypeInvApi
  <1>2. CASE \E o \in Observations : LoseMessage(o)
    <2> PICK o \in Observations : LoseMessage(o)  BY <1>2
    <2>1. BrokerOK'  BY TakeMessageType DEF LoseMessage, TypeInv
    <2>2. QED
      BY <2>1 DEF LoseMessage, TypeInv, RowsOK, OpenRowsHaveBudget, WorkersOK, SweepsOK
  <1>3. CASE \E w \in Workers : AnyWorkerStep(w)
    BY <1>3, TypeInvWorker
  <1>4. CASE \E s \in Sweeps : AnySweepStep(s)
    BY <1>4, TypeInvSweep
  <1>5. CASE Tick
    BY <1>5, TypeInvTick
  <1>6. CASE UNCHANGED vars
    BY <1>6 DEF vars, TypeInv, RowsOK, OpenRowsHaveBudget, BrokerOK, WorkersOK, SweepsOK
  <1>7. QED  BY <1>1, <1>2, <1>3, <1>4, <1>5, <1>6
     DEF Next, Orderly, Fault, AnyWorkerStep, AnySweepStep

(* No row is ever claimed more than MaxAttempts times, and every process   *)
(* and message stays within its type.                                      *)
THEOREM TypeCorrect == Spec => []TypeOK
  <1>1. TypeInv => TypeOK
    BY DEF TypeInv, TypeOK, RowsOK, BrokerOK, WorkersOK, SweepsOK
  <1>2. QED  BY <1>1, TypeInvInit, TypeInvStep, PTL DEF Spec

-----------------------------------------------------------------------------
(* The output of an attempt is applied at most once: every worker that can *)
(* still apply holds an attempt that was counted and has not been used.    *)

Holders(o) == {w \in Workers : worker[w].pc \in {"calling", "applying"} /\ worker[w].obs = o}

BudgetInv ==
    \A o \in Observations : applied[o] + Cardinality(Holders(o)) <= processing[o].attempts

LEMMA HoldersFinite ==
    ASSUME NEW o, NEW S, S \subseteq Holders(o)
    PROVE  /\ IsFiniteSet(Holders(o)) /\ IsFiniteSet(S)
           /\ Cardinality(S) \in Nat /\ Cardinality(Holders(o)) \in Nat
           /\ Cardinality(S) <= Cardinality(Holders(o))
  BY PipelineAssumption, FS_Subset, FS_CardinalityType DEF Holders

(* A step after which nobody new holds an attempt, nothing more is applied *)
(* and no row has fewer attempts, keeps the budget.                        *)
LEMMA BudgetKept ==
    ASSUME TypeInv, TypeInv', BudgetInv,
           applied' = applied,
           \A o \in Observations : processing'[o].attempts >= processing[o].attempts,
           \A o \in Observations : Holders(o)' \subseteq Holders(o)
    PROVE  BudgetInv'
  <1> SUFFICES ASSUME NEW o \in Observations
               PROVE  applied'[o] + Cardinality(Holders(o)') <= processing'[o].attempts
    BY DEF BudgetInv
  <1>1. /\ Cardinality(Holders(o)') \in Nat /\ Cardinality(Holders(o)) \in Nat
        /\ Cardinality(Holders(o)') <= Cardinality(Holders(o))
    BY HoldersFinite
  <1>2. /\ applied[o] \in Nat
        /\ processing[o].attempts \in Nat /\ processing'[o].attempts \in Nat
    BY DEF TypeInv, RowsOK, Rows
  <1>3. QED  BY <1>1, <1>2 DEF BudgetInv

LEMMA AttemptsKept ==
    ASSUME RowsOK, NEW o \in Observations, NEW row,
           row.attempts = processing[o].attempts, SetRow(o, row)
    PROVE  \A m \in Observations : processing'[m].attempts >= processing[m].attempts
  BY DEF RowsOK, SetRow, Rows

(* A worker step that neither claims nor applies.                          *)
QuietWorkerStep(w) ==
    \/ \E o \in Observations : Receive(w, o)
    \/ ProviderReturns(w) \/ ApplyRollsBack(w) \/ MarkFailed(w) \/ MarkRetryOrFailed(w)
    \/ WorkerPublish(w) \/ WorkerStamp(w) \/ WorkerDie(w)

LEMMA QuietWorkerHolders ==
    ASSUME TypeInv, NEW w \in Workers, QuietWorkerStep(w)
    PROVE  /\ \A o \in Observations : Holders(o)' \subseteq Holders(o)
           /\ applied' = applied
           /\ \A o \in Observations : processing'[o].attempts >= processing[o].attempts
  <1>1. worker \in [Workers -> WorkerStates]  BY DEF TypeInv, WorkersOK
  <1>2. PICK wk : worker' = [worker EXCEPT ![w] = wk] /\
                  (wk.pc \in {"calling", "applying"} =>
                      worker[w].pc \in {"calling", "applying"} /\ wk.obs = worker[w].obs)
    <2>1. ASSUME NEW step, Goto(w, step)
          PROVE  worker' = [worker EXCEPT ![w] = [worker[w] EXCEPT !.pc = step]]
      BY <2>1 DEF Goto
    <2>2. CASE \E o \in Observations : Receive(w, o)
      BY <2>2 DEF Receive
    <2>3. CASE ProviderReturns(w)
      BY <1>1, <2>1, <2>3 DEF ProviderReturns, WorkerStates
    <2>4. CASE ApplyRollsBack(w)
      BY <1>1, <2>1, <2>4 DEF ApplyRollsBack, WorkerStates
    <2>5. CASE MarkFailed(w) \/ WorkerStamp(w) \/ WorkerDie(w)
      BY <2>5 DEF MarkFailed, WorkerStamp, WorkerDie, Release, Idle
    <2>6. CASE MarkRetryOrFailed(w)
      BY <1>1, <2>1, <2>6 DEF MarkRetryOrFailed, Release, Idle, WorkerStates
    <2>7. CASE WorkerPublish(w)
      BY <1>1, <2>1, <2>7 DEF WorkerPublish, Release, Idle, WorkerStates
    <2>8. QED  BY <2>2, <2>3, <2>4, <2>5, <2>6, <2>7 DEF QuietWorkerStep
  <1>3. \A o \in Observations : Holders(o)' \subseteq Holders(o)
    BY <1>1, <1>2 DEF Holders
  <1>4. applied' = applied
    BY DEF QuietWorkerStep, Receive, ProviderReturns, ApplyRollsBack, MarkFailed,
           MarkRetryOrFailed, WorkerPublish, WorkerStamp, WorkerDie
  <1>5. \A o \in Observations : processing'[o].attempts >= processing[o].attempts
    <2> DEFINE o == worker[w].obs
    <2>1. RowsOK /\ (worker[w].pc # "idle" => o \in Observations /\ processing[o] \in Rows)
      BY DEF TypeInv, WorkersOK, RowsOK
    <2>2. CASE MarkFailed(w)
      BY <2>1, <2>2, AttemptsKept DEF MarkFailed, Rows
    <2>3. CASE MarkRetryOrFailed(w)
      BY <2>1, <2>3, AttemptsKept, ReopenType DEF MarkRetryOrFailed
    <2>4. CASE WorkerStamp(w)
      BY <2>1, <2>4, AttemptsKept DEF WorkerStamp, Stamp, Rows
    <2>5. CASE processing' = processing
      BY <2>1, <2>5 DEF RowsOK, Rows
    <2>6. QED
      BY <2>2, <2>3, <2>4, <2>5
      DEF QuietWorkerStep, Receive, ProviderReturns, ApplyRollsBack, WorkerPublish, WorkerDie
  <1>6. QED  BY <1>3, <1>4, <1>5

LEMMA BudgetBegin ==
    ASSUME TypeInv, TypeInv', BudgetInv, NEW w \in Workers, Begin(w)
    PROVE  BudgetInv'
  <1> DEFINE o == worker[w].obs
             row == processing[o]
             claimable == IF row.status = "processing" /\ IsStuck(row)
                          THEN RecoverRow(row) ELSE row
  <1>1. /\ RowsOK /\ worker \in [Workers -> WorkerStates]
        /\ worker[w].pc = "received" /\ o \in Observations /\ row \in Rows
    BY DEF TypeInv, Begin, RowsOK, WorkersOK
  <1>2. claimable \in Rows /\ claimable.attempts = row.attempts
    BY <1>1, ReopenType
  <1>3. applied' = applied  BY DEF Begin
  <1>4. CASE /\ claimable.status \in {"queued", "retrying"}
             /\ SetRow(o, StartAttempt(claimable))
             /\ Goto(w, "calling")
    <2> SUFFICES ASSUME NEW m \in Observations
                 PROVE  applied'[m] + Cardinality(Holders(m)') <= processing'[m].attempts
      BY DEF BudgetInv
    <2>1. StartAttempt(claimable).attempts = row.attempts + 1
      BY <1>1, <1>2 DEF StartAttempt, Rows
    <2>2. /\ applied[m] + Cardinality(Holders(m)) <= processing[m].attempts
          /\ applied[m] \in Nat /\ processing[m].attempts \in Nat
      BY DEF BudgetInv, TypeInv, RowsOK, Rows
    <2>3. IsFiniteSet(Holders(m)) /\ Cardinality(Holders(m)) \in Nat
      BY HoldersFinite
    <2>4. CASE m = o
      <3>1. Holders(m)' = Holders(m) \cup {w} /\ w \notin Holders(m)
        BY <1>1, <1>4, <2>4 DEF Holders, Goto, WorkerStates
      <3>2. Cardinality(Holders(m)') = Cardinality(Holders(m)) + 1
        BY <2>3, <3>1, FS_AddElement
      <3>3. processing'[m].attempts = processing[m].attempts + 1
        BY <1>1, <1>4, <2>1, <2>4 DEF SetRow, RowsOK
      <3>4. QED  BY <1>3, <2>2, <2>3, <3>2, <3>3
    <2>5. CASE m # o
      <3>1. Holders(m)' = Holders(m)
        BY <1>1, <1>4, <2>5 DEF Holders, Goto, WorkerStates
      <3>2. processing'[m] = processing[m]
        BY <1>1, <1>4, <2>5 DEF SetRow, RowsOK
      <3>3. QED  BY <1>3, <2>2, <3>1, <3>2
    <2>6. QED  BY <2>4, <2>5
  <1>5. CASE SetRow(o, claimable) /\ Release(w)
    <2>1. \A m \in Observations : Holders(m)' \subseteq Holders(m)
      BY <1>1, <1>5 DEF Holders, Release, Idle
    <2>2. \A m \in Observations : processing'[m].attempts >= processing[m].attempts
      BY <1>1, <1>2, <1>5, AttemptsKept
    <2>3. QED  BY <1>3, <2>1, <2>2, BudgetKept
  <1>6. QED  BY <1>4, <1>5 DEF Begin

LEMMA BudgetApply ==
    ASSUME TypeInv, TypeInv', BudgetInv, NEW w \in Workers, Apply(w)
    PROVE  BudgetInv'
  <1> DEFINE o == worker[w].obs
  <1>1. /\ processing \in [Observations -> Rows] /\ worker \in [Workers -> WorkerStates]
        /\ worker[w].pc = "applying" /\ o \in Observations
    BY DEF TypeInv, Apply, RowsOK, WorkersOK
  <1> SUFFICES ASSUME NEW m \in Observations
               PROVE  applied'[m] + Cardinality(Holders(m)') <= processing'[m].attempts
    BY DEF BudgetInv
  <1>2. /\ applied[m] + Cardinality(Holders(m)) <= processing[m].attempts
        /\ applied[m] \in Nat /\ processing[m].attempts \in Nat
        /\ applied' = [applied EXCEPT ![o] = @ + 1] /\ applied \in [Observations -> Nat]
    BY DEF BudgetInv, TypeInv, RowsOK, Rows, Apply
  <1>3. IsFiniteSet(Holders(m)) /\ Cardinality(Holders(m)) \in Nat
    BY HoldersFinite
  <1>4. processing'[m].attempts = processing[m].attempts
    BY <1>1 DEF Apply, SetRow, Rows
  <1>5. \A v \in Workers \ {w} : worker'[v] = worker[v]
    BY <1>1 DEF Apply, Release, Goto
  <1>6. worker'[w].pc \notin {"calling", "applying"}
    BY <1>1 DEF Apply, Release, Goto, Idle, WorkerStates
  <1>7. CASE m = o
    <2>1. Holders(m)' = Holders(m) \ {w} /\ w \in Holders(m)
      BY <1>1, <1>5, <1>6, <1>7 DEF Holders
    <2>2. Cardinality(Holders(m)') = Cardinality(Holders(m)) - 1
      BY <1>3, <2>1, FS_RemoveElement
    <2>3. applied'[m] = applied[m] + 1  BY <1>2, <1>7
    <2>4. QED  BY <1>2, <1>3, <1>4, <2>2, <2>3
  <1>8. CASE m # o
    <2>1. Holders(m)' = Holders(m)
      BY <1>1, <1>5, <1>6, <1>8 DEF Holders
    <2>2. QED  BY <1>2, <1>4, <1>8, <2>1
  <1>9. QED  BY <1>7, <1>8

LEMMA BudgetOthers ==
    ASSUME TypeInv, TypeInv', BudgetInv,
           \/ \E o \in Observations : ApiStep(o) \/ LoseMessage(o)
           \/ \E s \in Sweeps : AnySweepStep(s)
    PROVE  BudgetInv'
  <1>1. applied' = applied /\ worker' = worker
    BY DEF ApiStep, Submit, ApiPublish, ApiStamp, ApiDie, LoseMessage, AnySweepStep, SweepStep,
           SweepStart, SweepQueued, SweepRetrying, SweepEnd, SweepFetch, SweepPickOrphan,
           SweepRecover, SweepRecheck, SweepPublish, SweepStamp, SweepDie
  <1>2. \A o \in Observations : Holders(o)' \subseteq Holders(o)
    BY <1>1 DEF Holders
  <1>3. \A m \in Observations : processing'[m].attempts >= processing[m].attempts
    <2> USE DEF TypeInv
    <2>1. \A m \in Observations : processing[m] \in Rows  BY DEF RowsOK
    <2>2. CASE \E o \in Observations : Submit(o)
      <3> PICK o \in Observations : Submit(o)  BY <2>2
      <3>1. [AbsentRow EXCEPT !.status = "queued"].attempts = processing[o].attempts
        BY DEF Submit, AbsentRow, RowsOK, OpenRowsHaveBudget
      <3>2. QED  BY <3>1, AttemptsKept DEF Submit
    <2>3. ASSUME NEW o \in Observations, Stamp(o)
          PROVE  \A m \in Observations : processing'[m].attempts >= processing[m].attempts
      BY <2>1, <2>3, AttemptsKept DEF Stamp, Rows
    <2>4. CASE \E s \in Sweeps : SweepRecover(s)
      <3> PICK s \in Sweeps : SweepRecover(s)  BY <2>4
      <3>1. sweep[s].obs \in Observations  BY DEF SweepRecover, SweepsOK
      <3>2. QED  BY <2>1, <3>1, AttemptsKept, ReopenType DEF SweepRecover
    <2>5. CASE \/ \E o \in Observations : ApiStamp(o)
               \/ \E s \in Sweeps : SweepStamp(s)
      <3>1. \E o \in Observations : Stamp(o)
        BY <2>5 DEF ApiStamp, SweepStamp, SweepsOK
      <3>2. QED  BY <2>3, <3>1
    <2>6. CASE processing' = processing
      BY <2>1, <2>6 DEF Rows
    <2>7. QED
      BY <2>2, <2>4, <2>5, <2>6
      DEF ApiStep, ApiPublish, ApiDie, LoseMessage, AnySweepStep, SweepStep, SweepStart,
          SweepQueued, SweepRetrying, SweepEnd, SweepFetch, SweepPickOrphan,
          SweepRecheck, SweepPublish, SweepDie
  <1>4. QED  BY <1>1, <1>2, <1>3, BudgetKept

LEMMA BudgetTick ==
    ASSUME TypeInv, TypeInv', BudgetInv, Tick
    PROVE  BudgetInv'
  <1>1. \A m \in Observations : processing'[m].attempts >= processing[m].attempts
    <2>1. \A m \in Observations :
            processing[m] \in Rows /\ processing'[m] = AgeRow(processing[m])
      BY DEF TypeInv, RowsOK, Tick
    <2>2. QED  BY <2>1, AgeRowType DEF Rows
  <1>2. \A o \in Observations : Holders(o)' \subseteq Holders(o)
    <2>1. \A w \in Workers : worker'[w].pc \in {"calling", "applying"} =>
            worker[w].pc = worker'[w].pc /\ worker[w].obs = worker'[w].obs
      BY DEF Tick, AgeWorker, Idle, TypeInv, WorkersOK, WorkerStates
    <2>2. QED  BY <2>1 DEF Holders
  <1>3. QED  BY <1>1, <1>2, BudgetKept DEF Tick

LEMMA BudgetStep == TypeInv /\ TypeInv' /\ BudgetInv /\ [Next]_vars => BudgetInv'
  <1> SUFFICES ASSUME TypeInv, TypeInv', BudgetInv, [Next]_vars PROVE BudgetInv'
    OBVIOUS
  <1>1. CASE \E w \in Workers : AnyWorkerStep(w)
    <2> PICK w \in Workers : AnyWorkerStep(w)  BY <1>1
    <2>1. CASE QuietWorkerStep(w)  BY <2>1, QuietWorkerHolders, BudgetKept
    <2>2. CASE Begin(w)  BY <2>2, BudgetBegin
    <2>3. CASE Apply(w)  BY <2>3, BudgetApply
    <2>4. QED  BY <2>1, <2>2, <2>3 DEF AnyWorkerStep, WorkerStep, QuietWorkerStep
  <1>2. CASE \/ \E o \in Observations : ApiStep(o) \/ LoseMessage(o)
             \/ \E s \in Sweeps : AnySweepStep(s)
    BY <1>2, BudgetOthers
  <1>3. CASE Tick
    BY <1>3, BudgetTick
  <1>4. CASE UNCHANGED vars
    BY <1>4 DEF vars, BudgetInv, Holders
  <1>5. QED  BY <1>1, <1>2, <1>3, <1>4 DEF Next, Orderly, Fault, AnyWorkerStep, AnySweepStep

(* However often messages are duplicated, rows recovered and attempts      *)
(* reopened under a live worker, no observation's output is applied more   *)
(* often than it was claimed, and it is claimed at most MaxAttempts times. *)
THEOREM BudgetCorrect == Spec => []AppliedWithinBudget
  <1>1. Init => BudgetInv
    <2> SUFFICES ASSUME Init, NEW o \in Observations
                 PROVE  applied[o] + Cardinality(Holders(o)) <= processing[o].attempts
      BY DEF BudgetInv
    <2>1. Holders(o) = {}  BY DEF Init, Holders, Idle
    <2>2. QED  BY <2>1, FS_EmptySet DEF Init, AbsentRow
  <1>2. TypeInv /\ BudgetInv => AppliedWithinBudget
    <2> SUFFICES ASSUME TypeInv, BudgetInv, NEW o \in Observations
                 PROVE  applied[o] <= processing[o].attempts
                        /\ processing[o].attempts <= MaxAttempts
      BY DEF AppliedWithinBudget
    <2>1. applied[o] \in Nat /\ processing[o].attempts \in 0..MaxAttempts
      BY DEF TypeInv, RowsOK, Rows
    <2>2. Cardinality(Holders(o)) \in Nat  BY HoldersFinite
    <2>3. QED  BY <2>1, <2>2, PipelineAssumption DEF BudgetInv
  <1>3. QED
    BY <1>1, <1>2, TypeInvInit, TypeInvStep, BudgetStep, PTL DEF Spec
=============================================================================
