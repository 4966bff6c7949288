---------------------- MODULE ObservationOutcomeProofs ----------------------
(***************************************************************************)
(* ObservationPipeline implements ObservationOutcome as long as the sweep  *)
(* recovers only rows that are still stuck when it holds their lock        *)
(* (SpecFresh).  The argument: a worker between its two transactions is    *)
(* younger than its time limit, so the row it claimed is younger than the  *)
(* stuck threshold; nobody reopens such a row, so the worker stays alone   *)
(* with it and its result is the first one.                                *)
(***************************************************************************)
EXTENDS ObservationPipelineProofs

Claiming(w) == worker[w].pc \in ClaimSteps

Owns(w) ==
    LET row == processing[worker[w].obs]
    IN  /\ row.status \in {"processing", "processed"}
        /\ worker[w].pc # "failing" => row.status = "processing"
        /\ row.started # Never /\ row.started <= worker[w].age

Alone(w) == \A v \in Workers \ {w} : Claiming(v) => worker[v].obs # worker[w].obs

ClaimInv ==
    \A w \in Workers :
        /\ worker[w].age < TimeLimit
        /\ Claiming(w) => Owns(w) /\ Alone(w)

SettledInv ==
    \A o \in Observations :
        /\ applied[o] \in {0, 1}
        /\ applied[o] = 1 => processing[o].status \in Terminal
        /\ processing[o].status = "processed" => applied[o] = 1

FreshInv == TypeInv /\ ClaimInv /\ SettledInv

-----------------------------------------------------------------------------
(* A claimed row is not stuck. *)
LEMMA ClaimedNotStuck ==
    ASSUME TypeInv, ClaimInv, NEW w \in Workers, Claiming(w)
    PROVE  ~IsStuck(processing[worker[w].obs])
  <1>1. /\ worker[w].age \in Int /\ worker[w].age < TimeLimit
        /\ worker[w].obs \in Observations
        /\ processing[worker[w].obs] \in Rows
        /\ processing[worker[w].obs].started <= worker[w].age
    BY DEF ClaimInv, Owns, TypeInv, WorkersOK, WorkerStates, RowsOK, Claiming, ClaimSteps
  <1>2. processing[worker[w].obs].started \in Int
    BY <1>1, PipelineAssumption DEF Rows, Age, AgeCap, Never
  <1>3. QED  BY <1>1, <1>2, PipelineAssumption DEF IsStuck

(* A write to one row that leaves the workers alone keeps ClaimInv if it   *)
(* leaves the status and the age of a claimed row alone.                   *)
LEMMA ClaimFrame ==
    ASSUME TypeInv, ClaimInv, worker' = worker,
           NEW o \in Observations, NEW row, SetRow(o, row),
           \A w \in Workers : Claiming(w) /\ worker[w].obs = o =>
               row.status = processing[o].status /\ row.started = processing[o].started
    PROVE  ClaimInv'
  <1>1. \A w \in Workers : Claiming(w)' <=> Claiming(w)  BY DEF Claiming
  <1>2. \A w \in Workers : Claiming(w) =>
            /\ processing'[worker[w].obs].status = processing[worker[w].obs].status
            /\ processing'[worker[w].obs].started = processing[worker[w].obs].started
    BY DEF SetRow, TypeInv, RowsOK
  <1>3. QED  BY <1>1, <1>2 DEF ClaimInv, Owns, Alone, Claiming

(* A worker may write the row it alone owns while it moves on.             *)
LEMMA ClaimMove ==
    ASSUME TypeInv, ClaimInv, NEW w \in Workers, NEW wk \in WorkerStates,
           worker' = [worker EXCEPT ![w] = wk], wk.age < TimeLimit,
           wk.pc \in ClaimSteps => /\ wk.obs = worker[w].obs /\ Claiming(w) /\ Owns(w)',
           \A v \in Workers \ {w} : Claiming(v) =>
               processing'[worker[v].obs] = processing[worker[v].obs]
    PROVE  ClaimInv'
  <1>1. worker \in [Workers -> WorkerStates]  BY DEF TypeInv, WorkersOK
  <1>2. worker'[w] = wk /\ \A v \in Workers \ {w} : worker'[v] = worker[v]
    BY <1>1
  <1>3. ASSUME NEW v \in Workers, Claiming(v)'
        PROVE  Claiming(v) /\ worker'[v].obs = worker[v].obs
    BY <1>2, <1>3 DEF Claiming
  <1>4. ASSUME NEW v \in Workers
        PROVE  worker'[v].age < TimeLimit
    BY <1>2 DEF ClaimInv
  <1>5. ASSUME NEW v \in Workers, Claiming(v)'
        PROVE  Owns(v)' /\ Alone(v)'
    <2>1. Alone(v)'
      BY <1>2, <1>3, <1>5 DEF ClaimInv, Alone
    <2>2. CASE v = w  BY <1>2, <1>5, <2>1, <2>2 DEF Claiming
    <2>3. CASE v # w
      BY <1>2, <1>3, <1>5, <2>1, <2>3 DEF ClaimInv, Owns
    <2>4. QED  BY <2>2, <2>3
  <1>6. QED  BY <1>4, <1>5 DEF ClaimInv

-----------------------------------------------------------------------------
(* Every step but a stale recovery preserves ClaimInv. *)

LEMMA ClaimInit == Init => ClaimInv
  BY PipelineAssumption DEF Init, ClaimInv, Claiming, ClaimSteps, Idle

LEMMA StampClaim ==
    ASSUME TypeInv, ClaimInv, NEW o \in Observations, Stamp(o)
    PROVE  \E row : /\ SetRow(o, row)
                    /\ row.status = processing[o].status
                    /\ row.started = processing[o].started
  <1> WITNESS [processing[o] EXCEPT !.published = 0]
  <1> QED  BY DEF Stamp, TypeInv, RowsOK, Rows

LEMMA ClaimSamePlace ==
    ASSUME TypeInv, ClaimInv, worker' = worker, processing' = processing
    PROVE  ClaimInv'
  BY DEF ClaimInv, Owns, Alone, Claiming

LEMMA ClaimApi ==
    ASSUME TypeInv, ClaimInv, NEW o \in Observations, ApiStep(o) \/ LoseMessage(o)
    PROVE  ClaimInv'
  <1>1. CASE Submit(o)
    <2>1. \A w \in Workers : Claiming(w) => worker[w].obs # o
      BY <1>1 DEF Submit, ClaimInv, Owns
    <2>2. QED  BY <1>1, <2>1, ClaimFrame DEF Submit
  <1>2. CASE ApiStamp(o)
    <2>1. PICK row : /\ SetRow(o, row)
                     /\ row.status = processing[o].status
                     /\ row.started = processing[o].started
      BY <1>2, StampClaim DEF ApiStamp
    <2>2. QED  BY <1>2, <2>1, ClaimFrame DEF ApiStamp
  <1>3. CASE ApiPublish(o) \/ ApiDie(o) \/ LoseMessage(o)
    BY <1>3, ClaimSamePlace DEF ApiPublish, ApiDie, LoseMessage
  <1>4. QED  BY <1>1, <1>2, <1>3 DEF ApiStep

LEMMA ClaimSweep ==
    ASSUME TypeInv, ClaimInv, NEW s \in Sweeps, AnySweepStep(s),
           FreshRecovery
    PROVE  ClaimInv'
  <1> DEFINE o == sweep[s].obs
  <1>1. CASE SweepRecover(s)
    <2>1. o \in Observations  BY <1>1 DEF SweepRecover, TypeInv, SweepsOK
    <2>2. CASE processing[o].status = "processing"
      <3>1. IsStuck(processing[o])  BY <1>1, <2>2 DEF FreshRecovery
      <3>2. \A w \in Workers : Claiming(w) => worker[w].obs # o
        BY <3>1, ClaimedNotStuck
      <3>3. QED  BY <1>1, <2>1, <3>2, ClaimFrame DEF SweepRecover
    <2>3. CASE processing[o].status # "processing"
      <3>1. SetRow(o, processing[o])  BY <1>1, <2>3 DEF SweepRecover
      <3>2. QED  BY <1>1, <2>1, <3>1, ClaimFrame DEF SweepRecover
    <2>4. QED  BY <2>2, <2>3
  <1>2. CASE SweepStamp(s)
    <2>1. o \in Observations  BY <1>2 DEF SweepStamp, TypeInv, SweepsOK
    <2>2. PICK row : /\ SetRow(o, row)
                     /\ row.status = processing[o].status
                     /\ row.started = processing[o].started
      BY <1>2, <2>1, StampClaim DEF SweepStamp
    <2>3. QED  BY <1>2, <2>1, <2>2, ClaimFrame DEF SweepStamp
  <1>3. CASE ~(SweepRecover(s) \/ SweepStamp(s))
    <2>1. worker' = worker /\ processing' = processing
      BY <1>3 DEF AnySweepStep, SweepStep, SweepStart, SweepQueued, SweepRetrying, SweepEnd,
                  SweepFetch, SweepPickOrphan, SweepRecheck, SweepPublish, SweepDie
    <2>2. QED  BY <2>1, ClaimSamePlace
  <1>4. QED  BY <1>1, <1>2, <1>3

LEMMA AgeWorkerType ==
    ASSUME NEW wk \in WorkerStates
    PROVE  /\ AgeWorker(wk).age < TimeLimit
           /\ AgeWorker(wk).pc # "idle" =>
                /\ AgeWorker(wk).pc = wk.pc /\ AgeWorker(wk).obs = wk.obs
                /\ AgeWorker(wk).age = wk.age + 1
  <1>1. wk.age \in Int /\ TimeLimit \in Int /\ 0 < TimeLimit
    BY PipelineAssumption DEF WorkerStates
  <1>2. CASE wk.pc = "idle" \/ wk.age + 1 >= TimeLimit
    BY <1>1, <1>2 DEF AgeWorker, Idle
  <1>3. CASE ~(wk.pc = "idle" \/ wk.age + 1 >= TimeLimit)
    <2>1. AgeWorker(wk) = [wk EXCEPT !.age = @ + 1]  BY <1>3 DEF AgeWorker
    <2>2. QED  BY <1>1, <1>3, <2>1 DEF WorkerStates
  <1>4. QED  BY <1>2, <1>3

LEMMA ClaimTick ==
    ASSUME TypeInv, ClaimInv, Tick
    PROVE  ClaimInv'
  <1> SUFFICES ASSUME NEW w \in Workers
               PROVE  /\ worker'[w].age < TimeLimit
                      /\ Claiming(w)' => Owns(w)' /\ Alone(w)'
    BY DEF ClaimInv
  <1>1. \A v \in Workers : worker[v] \in WorkerStates /\ worker'[v] = AgeWorker(worker[v])
    BY DEF Tick, TypeInv, WorkersOK
  <1>2. worker'[w].age < TimeLimit
    BY <1>1, AgeWorkerType
  <1>3. ASSUME NEW v \in Workers, Claiming(v)'
        PROVE  /\ Claiming(v) /\ worker'[v].pc = worker[v].pc
               /\ worker'[v].obs = worker[v].obs
               /\ worker'[v].age = worker[v].age + 1
    BY <1>1, <1>3, AgeWorkerType DEF Claiming, ClaimSteps
  <1>4. ASSUME Claiming(w)'
        PROVE  Owns(w)'
    <2> DEFINE o == worker[w].obs
    <2>1. Owns(w) /\ o \in Observations /\ processing[o] \in Rows
      BY <1>3, <1>4 DEF ClaimInv, TypeInv, RowsOK, WorkersOK, Claiming, ClaimSteps
    <2>2. processing'[o] = AgeRow(processing[o])  BY <2>1 DEF Tick
    <2>3. /\ processing'[o].status = processing[o].status
          /\ processing'[o].started = Older(processing[o].started)
      BY <2>1, <2>2, AgeRowType
    <2>4. /\ processing'[o].started # Never
          /\ processing'[o].started <= worker[w].age + 1
      BY <1>1, <2>1, <2>3, PipelineAssumption
      DEF Owns, Older, Rows, Age, AgeCap, Never, WorkerStates
    <2>5. QED  BY <1>3, <1>4, <2>1, <2>3, <2>4 DEF Owns
  <1>5. ASSUME Claiming(w)'
        PROVE  Alone(w)'
    BY <1>3, <1>5 DEF ClaimInv, Alone
  <1>6. QED  BY <1>2, <1>4, <1>5

LEMMA ClaimBegin ==
    ASSUME TypeInv, ClaimInv, NEW w \in Workers, Begin(w)
    PROVE  ClaimInv'
  <1> DEFINE o == worker[w].obs
             row == processing[o]
             claimable == IF row.status = "processing" /\ IsStuck(row)
                          THEN RecoverRow(row) ELSE row
  <1>1. /\ processing \in [Observations -> Rows]
        /\ worker \in [Workers -> WorkerStates]
        /\ worker[w].pc = "received" /\ worker[w].age \in Nat /\ o \in Observations
        /\ ~Claiming(w)
    BY DEF TypeInv, Begin, RowsOK, WorkersOK, WorkerStates, Claiming, ClaimSteps
  <1>2. ASSUME NEW v \in Workers, Claiming(v), worker[v].obs = o
        PROVE  claimable = row /\ row.status \notin {"queued", "retrying"}
    BY <1>2, ClaimedNotStuck DEF ClaimInv, Owns
  <1>3. CASE /\ claimable.status \in {"queued", "retrying"}
             /\ SetRow(o, StartAttempt(claimable))
             /\ Goto(w, "calling")
    <2>1. \A v \in Workers : Claiming(v) => worker[v].obs # o
      BY <1>2, <1>3
    <2>2. PICK wk \in WorkerStates :
            /\ worker' = [worker EXCEPT ![w] = wk]
            /\ wk.pc = "calling" /\ wk.obs = o /\ wk.age = worker[w].age
      <3>1. [worker[w] EXCEPT !.pc = "calling"] \in WorkerStates
        BY <1>1 DEF WorkerStates, WorkerSteps, ClaimSteps
      <3> WITNESS [worker[w] EXCEPT !.pc = "calling"] \in WorkerStates
      <3> QED  BY <1>1, <1>3 DEF Goto, WorkerStates, WorkerSteps, ClaimSteps
    <2>3. claimable \in Rows  BY <1>1, ReopenType
    <2>4. processing' = [processing EXCEPT ![o] = StartAttempt(claimable)]
      BY <1>3 DEF SetRow
    <2>5. /\ StartAttempt(claimable).status = "processing"
          /\ StartAttempt(claimable).started = 0
      BY <2>3 DEF StartAttempt, Rows
    <2> HIDE DEF claimable
    <2>6. worker'[w] = wk  BY <1>1, <2>2
    <2>7. Owns(w)'
      BY <1>1, <2>2, <2>4, <2>5, <2>6 DEF Owns, Never
    <2>8. Claiming(w)'  BY <2>2, <2>6 DEF Claiming, ClaimSteps
    <2>9. Alone(w)'  BY <1>1, <2>1, <2>2, <2>6 DEF Alone, Claiming
    <2>10. ASSUME NEW v \in Workers, v # w
           PROVE  /\ worker'[v].age < TimeLimit
                  /\ Claiming(v)' => Owns(v)' /\ Alone(v)'
      <3>1. worker'[v] = worker[v]  BY <1>1, <2>2, <2>10
      <3>2. Claiming(v)' <=> Claiming(v)  BY <3>1 DEF Claiming
      <3>3. Claiming(v) => processing'[worker[v].obs] = processing[worker[v].obs]
        BY <1>1, <2>1, <2>4, <2>10 DEF Claiming, ClaimSteps, TypeInv, WorkersOK
      <3>4. Claiming(v) => Alone(v)'
        BY <1>1, <2>1, <2>2, <2>6, <3>1 DEF ClaimInv, Alone, Claiming
      <3>5. QED  BY <3>1, <3>2, <3>3, <3>4 DEF ClaimInv, Owns
    <2>11. worker'[w].age < TimeLimit  BY <2>2, <2>6 DEF ClaimInv
    <2>12. QED  BY <2>7, <2>9, <2>10, <2>11 DEF ClaimInv
  <1>4. CASE SetRow(o, claimable) /\ Release(w)
    <2>1. ASSUME NEW v \in Workers, Claiming(v)
          PROVE  processing'[worker[v].obs] = processing[worker[v].obs]
      BY <1>1, <1>2, <1>4, <2>1 DEF SetRow
    <2>2. Idle \in WorkerStates /\ Idle.pc \notin ClaimSteps /\ Idle.age < TimeLimit
      BY PipelineAssumption DEF Idle, WorkerStates, WorkerSteps, ClaimSteps
    <2>3. QED  BY <1>4, <2>1, <2>2, ClaimMove DEF Release
  <1>5. QED  BY <1>3, <1>4 DEF Begin

LEMMA ClaimOther ==
    ASSUME TypeInv, ClaimInv, NEW w \in Workers, AnyWorkerStep(w), ~Begin(w)
    PROVE  ClaimInv'
  <1> DEFINE o == worker[w].obs
  <1>1. /\ processing \in [Observations -> Rows]
        /\ worker \in [Workers -> WorkerStates]
        /\ worker[w].age \in Nat /\ worker[w].age < TimeLimit
        /\ worker[w].pc # "idle" => o \in Observations
    BY DEF TypeInv, RowsOK, WorkersOK, WorkerStates, ClaimInv
  <1>2. Idle \in WorkerStates /\ Idle.pc \notin ClaimSteps /\ Idle.age < TimeLimit
    BY PipelineAssumption DEF Idle, WorkerStates, WorkerSteps, ClaimSteps
  <1>3. ASSUME NEW step \in WorkerSteps
        PROVE  LET wk == [worker[w] EXCEPT !.pc = step]
               IN  /\ wk \in WorkerStates /\ wk.pc = step /\ wk.obs = o
                   /\ wk.age = worker[w].age
    BY <1>1 DEF WorkerStates
  <1>s. WorkerSteps = {"idle", "received", "publishing", "stamping",
                       "calling", "applying", "failing", "retrying"}
    BY DEF WorkerSteps, ClaimSteps
  \* w keeps its claim and the row it owns, and only moves to another step.
  <1>4. ASSUME NEW step \in ClaimSteps, Goto(w, step), processing' = processing,
               Claiming(w), step # "failing" => worker[w].pc # "failing"
        PROVE  ClaimInv'
    <2>1. step \in WorkerSteps  BY DEF WorkerSteps
    <2>2. worker'[w] = [worker[w] EXCEPT !.pc = step]  BY <1>1, <1>4 DEF Goto
    <2>3. Owns(w)'
      BY <1>3, <1>4, <2>1, <2>2 DEF Owns, ClaimInv
    <2>4. QED  BY <1>1, <1>3, <1>4, <2>1, <2>3, ClaimMove DEF Goto
  \* w gives its claim up, having written no row but the one it owned.
  <1>5. ASSUME NEW wk \in WorkerStates, worker' = [worker EXCEPT ![w] = wk],
               wk.pc \notin ClaimSteps, wk.age < TimeLimit,
               \/ processing' = processing
               \/ Claiming(w) /\ \E row : SetRow(o, row)
        PROVE  ClaimInv'
    <2>1. ASSUME NEW v \in Workers \ {w}, Claiming(v)
          PROVE  processing'[worker[v].obs] = processing[worker[v].obs]
      <3>1. worker[v].obs \in Observations
        BY <2>1 DEF Claiming, ClaimSteps, TypeInv, WorkersOK
      <3>2. Claiming(w) => o # worker[v].obs
        BY <2>1 DEF ClaimInv, Alone
      <3>3. QED  BY <1>1, <1>5, <3>1, <3>2 DEF SetRow
    <2>2. QED  BY <1>5, <2>1, ClaimMove
  <1>6. CASE \E m \in Observations : Receive(w, m)
    <2> PICK m \in Observations : Receive(w, m)  BY <1>6
    <2>1. LET wk == [pc |-> "received", obs |-> m, age |-> 0]
          IN  wk \in WorkerStates /\ wk.pc \notin ClaimSteps /\ wk.age < TimeLimit
      BY <1>s, PipelineAssumption DEF WorkerStates, ClaimSteps
    <2>2. QED  BY <1>5, <2>1 DEF Receive
  <1>7. CASE ProviderReturns(w)
    <2>1. PICK step \in {"applying", "failing", "retrying"} : Goto(w, step)
      BY <1>7 DEF ProviderReturns
    <2>2. QED  BY <1>4, <1>7, <2>1 DEF ProviderReturns, Claiming, ClaimSteps
  <1>8. CASE Apply(w)
    <2>1. /\ Claiming(w) /\ o \in Observations
          /\ SetRow(o, [processing[o] EXCEPT !.status = "processed"])
      BY <1>1, <1>8 DEF Apply, Claiming, ClaimSteps
    <2>2. CASE Release(w)
      BY <1>2, <1>5, <2>1, <2>2 DEF Release
    <2>3. CASE Goto(w, "failing")
      <3>1. worker'[w] = [worker[w] EXCEPT !.pc = "failing"]
        BY <1>1, <2>3 DEF Goto
      <3>2. /\ processing'[o].status = "processed"
            /\ processing'[o].started = processing[o].started
        BY <1>1, <2>1 DEF SetRow, Rows
      <3>3. Owns(w)'
        BY <1>3, <1>s, <2>1, <3>1, <3>2 DEF Owns, ClaimInv
      <3>4. ASSUME NEW v \in Workers \ {w}, Claiming(v)
            PROVE  processing'[worker[v].obs] = processing[worker[v].obs]
        BY <1>1, <2>1, <3>4 DEF ClaimInv, Alone, SetRow
      <3>5. QED  BY <1>1, <1>3, <1>s, <2>1, <2>3, <3>3, <3>4, ClaimMove DEF Goto
    <2>4. QED  BY <1>8, <2>2, <2>3 DEF Apply
  <1>9. CASE ApplyRollsBack(w)
    BY <1>4, <1>9 DEF ApplyRollsBack, Claiming, ClaimSteps
  <1>10. CASE MarkFailed(w)
    BY <1>2, <1>5, <1>10 DEF MarkFailed, Release, Claiming, ClaimSteps
  <1>11. CASE MarkRetryOrFailed(w)
    <2>1. Claiming(w) /\ \E row : SetRow(o, row)
      BY <1>11 DEF MarkRetryOrFailed, Claiming, ClaimSteps
    <2>2. CASE Release(w)
      BY <1>2, <1>5, <2>1, <2>2 DEF Release
    <2>3. CASE Goto(w, "publishing")
      BY <1>1, <1>3, <1>5, <1>s, <2>1, <2>3 DEF Goto, ClaimSteps
    <2>4. QED  BY <1>11, <2>2, <2>3 DEF MarkRetryOrFailed
  <1>12. CASE WorkerPublish(w)
    <2>1. CASE Release(w)
      BY <1>2, <1>5, <1>12, <2>1 DEF Release, WorkerPublish
    <2>2. CASE Goto(w, "stamping")
      BY <1>1, <1>3, <1>5, <1>12, <1>s, <2>2 DEF Goto, ClaimSteps, WorkerPublish
    <2>3. QED  BY <1>12, <2>1, <2>2 DEF WorkerPublish
  <1>13. CASE WorkerStamp(w)
    <2>1. PICK row : /\ SetRow(o, row)
                     /\ row.status = processing[o].status
                     /\ row.started = processing[o].started
      BY <1>1, <1>13, StampClaim DEF WorkerStamp
    <2>2. /\ o \in Observations /\ ~Claiming(w)
          /\ worker' = [worker EXCEPT ![w] = Idle]
      BY <1>1, <1>13 DEF WorkerStamp, Release, Claiming, ClaimSteps
    <2>3. ASSUME NEW v \in Workers
          PROVE  /\ worker'[v].age < TimeLimit
                 /\ Claiming(v)' => Owns(v)' /\ Alone(v)'
      <3>1. worker'[v] = IF v = w THEN Idle ELSE worker[v]  BY <1>1, <2>2
      <3>2. Claiming(v)' => Claiming(v) /\ v # w
        BY <1>2, <3>1 DEF Claiming
      <3>3. Claiming(v)' => Owns(v)'
        BY <1>1, <2>1, <2>2, <3>1, <3>2 DEF Owns, ClaimInv, SetRow
      <3>4. Claiming(v)' => Alone(v)'
        BY <1>1, <1>2, <2>2, <3>1, <3>2 DEF Alone, ClaimInv, Claiming
      <3>5. QED  BY <1>2, <3>1, <3>3, <3>4 DEF ClaimInv
    <2>4. QED  BY <2>3 DEF ClaimInv
  <1>14. CASE WorkerDie(w)
    BY <1>2, <1>5, <1>14 DEF WorkerDie, Release
  <1>15. QED
    BY <1>6, <1>7, <1>8, <1>9, <1>10, <1>11, <1>12, <1>13, <1>14 DEF AnyWorkerStep, WorkerStep

LEMMA ClaimStep ==
    TypeInv /\ ClaimInv /\ [Next /\ FreshRecovery]_vars => ClaimInv'
  <1> SUFFICES ASSUME TypeInv, ClaimInv, [Next /\ FreshRecovery]_vars PROVE ClaimInv'
    OBVIOUS
  <1>1. CASE \E w \in Workers : AnyWorkerStep(w)
    BY <1>1, ClaimBegin, ClaimOther
  <1>2. CASE \E o \in Observations : ApiStep(o) \/ LoseMessage(o)
    BY <1>2, ClaimApi
  <1>3. CASE FreshRecovery /\ \E s \in Sweeps : AnySweepStep(s)
    BY <1>3, ClaimSweep
  <1>4. CASE Tick
    BY <1>4, ClaimTick
  <1>5. CASE UNCHANGED vars
    BY <1>5, ClaimSamePlace DEF vars
  <1>6. QED  BY <1>1, <1>2, <1>3, <1>4, <1>5 DEF Next, Orderly, Fault, AnyWorkerStep, AnySweepStep

-----------------------------------------------------------------------------
(* Every step of the pipeline is a step of ObservationOutcome, or none.    *)

(* The row and the applications of one observation, and what may become of *)
(* them in a step: nothing the outcome depends on, or the submission, the  *)
(* first application or the abandonment of a row being processed.          *)
Same(o) ==
    applied'[o] = applied[o] /\ processing'[o].status = processing[o].status
Open == {"queued", "processing", "retrying"}
Submitted(o) ==
    /\ processing[o].status = "absent" /\ processing'[o].status \in Open
    /\ applied[o] = 0 /\ applied'[o] = 0
Reopened(o) ==
    /\ processing[o].status \in Open /\ processing'[o].status \in Open
    /\ applied[o] = 0 /\ applied'[o] = 0
Processed(o) ==
    /\ processing[o].status = "processing" /\ processing'[o].status = "processed"
    /\ applied[o] = 0 /\ applied'[o] = 1
Failed(o) ==
    /\ processing[o].status \in Open \cup {"processed"}
    /\ processing'[o].status = "failed"
    /\ applied'[o] = applied[o]

Changes(o) == Submitted(o) \/ Reopened(o) \/ Processed(o) \/ Failed(o)

OneChanges ==
    \/ \A o \in Observations : Same(o)
    \/ \E o \in Observations :
          Changes(o) /\ \A m \in Observations \ {o} : Same(m)

LEMMA SettledChange ==
    ASSUME SettledInv, OneChanges, TypeInv, TypeInv'
    PROVE  SettledInv'
  <1> SUFFICES ASSUME NEW o \in Observations
               PROVE  /\ applied'[o] \in {0, 1}
                      /\ applied'[o] = 1 => processing'[o].status \in Terminal
                      /\ processing'[o].status = "processed" => applied'[o] = 1
    BY DEF SettledInv
  <1>1. CASE Same(o)
    BY <1>1 DEF Same, SettledInv
  <1>2. CASE Changes(o)
    BY <1>2 DEF Changes, Submitted, Reopened, Processed, Failed, SettledInv, Open, Terminal
  <1>3. QED  BY <1>1, <1>2 DEF OneChanges

LEMMA OutcomeChange ==
    ASSUME SettledInv, OneChanges
    PROVE  Outcome!Next \/ UNCHANGED [o \in Observations |-> OutcomeOf(o)]
  <1> DEFINE out == [o \in Observations |-> OutcomeOf(o)]
  <1>1. \A o \in Observations : Same(o) => OutcomeOf(o)' = OutcomeOf(o)
    BY DEF Same, OutcomeOf
  <1>2. CASE \A o \in Observations : Same(o)
    BY <1>1, <1>2
  <1>3. ASSUME NEW o \in Observations, Changes(o),
               \A m \in Observations \ {o} : Same(m)
        PROVE  Outcome!Next \/ UNCHANGED out
    <2>1. \A new : OutcomeOf(o)' = new => out' = [out EXCEPT ![o] = new]
      BY <1>1, <1>3
    <2>2. out[o] = OutcomeOf(o)  OBVIOUS
    <2>3. CASE Submitted(o)
      <3>1. OutcomeOf(o) = "absent" /\ OutcomeOf(o)' = "pending"
        BY <2>3 DEF Submitted, OutcomeOf, Open
      <3>2. Outcome!Accept(o)
        BY <2>1, <2>2, <3>1 DEF Outcome!Accept, Outcome!Become
      <3>3. QED  BY <3>2 DEF Outcome!Next
    <2>4. CASE Reopened(o)
      <3>1. OutcomeOf(o)' = OutcomeOf(o)
        BY <2>4 DEF Reopened, OutcomeOf, Open
      <3>2. QED  BY <1>1, <1>3, <3>1
    <2>5. CASE Processed(o)
      <3>1. OutcomeOf(o) = "pending" /\ OutcomeOf(o)' = "applied"
        BY <2>5 DEF Processed, OutcomeOf
      <3>2. Outcome!ApplyOutput(o)
        BY <2>1, <2>2, <3>1 DEF Outcome!ApplyOutput, Outcome!Become
      <3>3. QED  BY <3>2 DEF Outcome!Next
    <2>6. CASE Failed(o) /\ applied[o] = 0
      <3>1. OutcomeOf(o) = "pending" /\ OutcomeOf(o)' = "abandoned"
        BY <2>6 DEF Failed, OutcomeOf, Open, SettledInv
      <3>2. Outcome!Abandon(o)
        BY <2>1, <2>2, <3>1 DEF Outcome!Abandon, Outcome!Become
      <3>3. QED  BY <3>2 DEF Outcome!Next
    <2>7. CASE Failed(o) /\ applied[o] # 0
      <3>1. OutcomeOf(o)' = OutcomeOf(o)
        BY <2>7 DEF Failed, OutcomeOf, SettledInv
      <3>2. QED  BY <1>1, <1>3, <3>1
    <2>8. QED  BY <1>3, <2>3, <2>4, <2>5, <2>6, <2>7 DEF Changes
  <1>4. QED  BY <1>2, <1>3 DEF OneChanges

-----------------------------------------------------------------------------
LEMMA WriteOneRow ==
    ASSUME TypeInv, NEW o \in Observations, NEW row, SetRow(o, row),
           applied' = applied
    PROVE  /\ processing'[o] = row
           /\ \A m \in Observations \ {o} : Same(m)
  BY DEF SetRow, TypeInv, RowsOK, Same

LEMMA OneChangesRead ==
    ASSUME processing' = processing, applied' = applied
    PROVE  OneChanges
  BY DEF OneChanges, Same

LEMMA OneChangesStamp ==
    ASSUME TypeInv, NEW o \in Observations, Stamp(o), applied' = applied
    PROVE  OneChanges
  <1>1. [processing[o] EXCEPT !.published = 0].status = processing[o].status
    BY DEF TypeInv, RowsOK, Rows
  <1>2. QED  BY <1>1, WriteOneRow DEF Stamp, OneChanges, Same

(* Reopening or failing a row that is being processed and was not applied. *)
LEMMA OneChangesReopen ==
    ASSUME TypeInv, SettledInv, NEW o \in Observations, NEW row,
           processing[o].status = "processing",
           SetRow(o, row), applied' = applied,
           row.status \in {"processing", "retrying", "failed"}
    PROVE  OneChanges
  <1>1. applied[o] = 0  BY DEF SettledInv, Terminal
  <1>2. processing'[o] = row /\ \A m \in Observations \ {o} : Same(m)
    BY WriteOneRow
  <1>3. Changes(o)  BY <1>1, <1>2 DEF Changes, Reopened, Failed, Open
  <1>4. QED  BY <1>2, <1>3 DEF OneChanges

LEMMA RecoverStatus ==
    ASSUME NEW row \in Rows
    PROVE  /\ RecoverRow(row) \in Rows /\ RetryRow(row) \in Rows
           /\ RecoverRow(row).status \in {"retrying", "failed"}
           /\ RetryRow(row).status \in {"retrying", "failed"}
  <1>1. [row EXCEPT !.status = "failed"].status = "failed"  BY DEF Rows
  <1>2. QED  BY <1>1, ReopenType

LEMMA OneChangesWorker ==
    ASSUME FreshInv, NEW w \in Workers, AnyWorkerStep(w)
    PROVE  OneChanges
  <1> USE DEF FreshInv
  <1> DEFINE o == worker[w].obs
             row == processing[o]
  <1>1. worker[w].pc # "idle" => o \in Observations /\ row \in Rows
    BY DEF TypeInv, WorkersOK, RowsOK
  <1>2. CASE Begin(w)
    <2> DEFINE claimable == IF row.status = "processing" /\ IsStuck(row)
                            THEN RecoverRow(row) ELSE row
    <2>1. o \in Observations /\ row \in Rows /\ applied' = applied
      BY <1>1, <1>2 DEF Begin
    <2>2. claimable \in Rows  BY <2>1, RecoverStatus
    <2>3. CASE /\ claimable.status \in {"queued", "retrying"}
               /\ SetRow(o, StartAttempt(claimable))
      <3>1. StartAttempt(claimable).status = "processing"
        BY <2>2 DEF StartAttempt, Rows
      <3>2. row.status \in Open
        BY <2>3 DEF Open
      <3>3. applied[o] = 0  BY <2>1, <3>2 DEF SettledInv, Open, Terminal
      <3>4. /\ processing'[o].status = "processing"
            /\ \A m \in Observations \ {o} : Same(m)
        BY <2>1, <2>3, <3>1, WriteOneRow
      <3>5. Changes(o)  BY <2>1, <3>2, <3>3, <3>4 DEF Changes, Reopened, Open
      <3>6. QED  BY <2>1, <3>4, <3>5 DEF OneChanges
    <2>4. CASE SetRow(o, claimable)
      <3>1. CASE row.status = "processing" /\ IsStuck(row)
        BY <2>1, <2>4, <3>1, RecoverStatus, OneChangesReopen
      <3>2. CASE ~(row.status = "processing" /\ IsStuck(row))
        BY <2>1, <2>4, <3>2, WriteOneRow DEF OneChanges, Same
      <3>3. QED  BY <3>1, <3>2
    <2>5. QED  BY <1>2, <2>3, <2>4 DEF Begin
  <1>3. CASE Apply(w)
    <2>1. o \in Observations /\ row \in Rows /\ Claiming(w) /\ worker[w].pc # "failing"
      BY <1>1, <1>3 DEF Apply, Claiming, ClaimSteps
    <2>2. row.status = "processing" /\ applied[o] = 0
      BY <2>1 DEF ClaimInv, Owns, SettledInv, Terminal
    <2>3. /\ processing' = [processing EXCEPT ![o] = [row EXCEPT !.status = "processed"]]
          /\ applied' = [applied EXCEPT ![o] = @ + 1]
      BY <1>3 DEF Apply, SetRow
    <2>4. Processed(o) /\ \A m \in Observations \ {o} : Same(m)
      BY <2>1, <2>2, <2>3 DEF Processed, Same, TypeInv, RowsOK, Rows
    <2>5. QED  BY <2>1, <2>4 DEF OneChanges, Changes
  <1>4. CASE MarkFailed(w)
    <2>1. o \in Observations /\ row \in Rows /\ Claiming(w)
      BY <1>1, <1>4 DEF MarkFailed, Claiming, ClaimSteps
    <2>2. row.status \in {"processing", "processed"}
      BY <2>1 DEF ClaimInv, Owns
    <2>3. /\ processing'[o] = [row EXCEPT !.status = "failed"]
          /\ applied' = applied
          /\ \A m \in Observations \ {o} : Same(m)
      BY <1>4, <2>1, WriteOneRow DEF MarkFailed
    <2>4. Failed(o)  BY <2>1, <2>2, <2>3 DEF Failed, Open, Rows
    <2>5. QED  BY <2>1, <2>3, <2>4 DEF OneChanges, Changes
  <1>5. CASE MarkRetryOrFailed(w)
    <2>1. o \in Observations /\ row \in Rows /\ Claiming(w) /\ worker[w].pc # "failing"
      BY <1>1, <1>5 DEF MarkRetryOrFailed, Claiming, ClaimSteps
    <2>2. row.status = "processing"  BY <2>1 DEF ClaimInv, Owns
    <2>3. QED
      BY <1>5, <2>1, <2>2, RecoverStatus, OneChangesReopen DEF MarkRetryOrFailed
  <1>6. CASE WorkerStamp(w)
    BY <1>1, <1>6, OneChangesStamp DEF WorkerStamp
  <1>7. QED
    BY <1>2, <1>3, <1>4, <1>5, <1>6, OneChangesRead
    DEF AnyWorkerStep, WorkerStep, Receive, ProviderReturns, ApplyRollsBack,
        WorkerPublish, WorkerDie

LEMMA OneChangesStep ==
    ASSUME FreshInv, [Next /\ FreshRecovery]_vars
    PROVE  OneChanges
  <1> USE DEF FreshInv
  <1>1. CASE \E w \in Workers : AnyWorkerStep(w)
    BY <1>1, OneChangesWorker
  <1>2. CASE \E o \in Observations : Submit(o)
    <2> PICK o \in Observations : Submit(o)  BY <1>2
    <2>1. /\ processing'[o] = [AbsentRow EXCEPT !.status = "queued"]
          /\ applied' = applied
          /\ \A m \in Observations \ {o} : Same(m)
      BY WriteOneRow DEF Submit
    <2>2. Submitted(o)
      BY <2>1 DEF Submit, Submitted, Open, AbsentRow, SettledInv, Terminal
    <2>3. QED  BY <2>1, <2>2 DEF OneChanges, Changes
  <1>3. CASE \/ \E o \in Observations : ApiStamp(o)
             \/ \E s \in Sweeps : SweepStamp(s)
    BY <1>3, OneChangesStamp DEF ApiStamp, SweepStamp, TypeInv, SweepsOK
  <1>4. CASE \E s \in Sweeps : SweepRecover(s)
    <2> PICK s \in Sweeps : SweepRecover(s)  BY <1>4
    <2> DEFINE o == sweep[s].obs
    <2>1. o \in Observations /\ processing[o] \in Rows /\ applied' = applied
      BY DEF SweepRecover, TypeInv, SweepsOK, RowsOK
    <2>2. CASE processing[o].status = "processing"
      <3>1. SetRow(o, RecoverRow(processing[o]))  BY <2>2 DEF SweepRecover
      <3>2. QED  BY <2>1, <2>2, <3>1, RecoverStatus, OneChangesReopen
    <2>3. CASE processing[o].status # "processing"
      <3>1. SetRow(o, processing[o])  BY <2>3 DEF SweepRecover
      <3>2. QED  BY <2>1, <3>1, WriteOneRow DEF OneChanges, Same
    <2>4. QED  BY <2>2, <2>3
  <1>5. CASE Tick
    <2>1. \A o \in Observations : processing'[o].status = processing[o].status
      BY <1>5, AgeRowType DEF Tick, TypeInv, RowsOK
    <2>2. QED  BY <1>5, <2>1 DEF Tick, OneChanges, Same
  <1>6. CASE UNCHANGED vars
    BY <1>6, OneChangesRead DEF vars
  <1>7. QED
    BY <1>1, <1>2, <1>3, <1>4, <1>5, <1>6, OneChangesRead
    DEF Next, Orderly, Fault, AnyWorkerStep, ApiStep, ApiPublish, ApiDie, LoseMessage,
        SweepStep, SweepStart,
        SweepQueued, SweepRetrying, SweepEnd, SweepFetch, SweepPickOrphan, SweepRecheck,
        SweepPublish, SweepDie

LEMMA FreshInvInit == Init => FreshInv
  <1> SUFFICES ASSUME Init PROVE SettledInv
    BY TypeInvInit, ClaimInit DEF FreshInv
  <1> QED  BY DEF Init, SettledInv, AbsentRow

LEMMA FreshInvStep == FreshInv /\ [Next /\ FreshRecovery]_vars => FreshInv'
  <1> SUFFICES ASSUME FreshInv, [Next /\ FreshRecovery]_vars PROVE FreshInv'  OBVIOUS
  <1>1. TypeInv'  BY TypeInvStep DEF FreshInv
  <1>2. ClaimInv'  BY ClaimStep DEF FreshInv
  <1>3. SettledInv'  BY <1>1, OneChangesStep, SettledChange DEF FreshInv
  <1>4. QED  BY <1>1, <1>2, <1>3 DEF FreshInv

LEMMA FreshInvariant == SpecFresh => []FreshInv
  BY FreshInvInit, FreshInvStep, PTL DEF SpecFresh

(* The AI output of an observation is applied at most once, as long as no  *)
(* sweep recovers a row that was claimed anew since it read it.            *)
THEOREM AppliedAtMostOnce == SpecFresh => []AtMostOnceApplied
  <1>1. FreshInv => AtMostOnceApplied
    BY DEF FreshInv, SettledInv, AtMostOnceApplied
  <1>2. QED  BY <1>1, FreshInvariant, PTL

(* Under the same condition a worker between its two transactions is alone *)
(* with the row it claimed, and the row is not open for another.           *)
THEOREM ClaimsExclusive == SpecFresh => []LiveClaimsAreExclusive
  <1>1. FreshInv => LiveClaimsAreExclusive
    BY DEF FreshInv, ClaimInv, Owns, Alone, Claiming, LiveClaimsAreExclusive
  <1>2. QED  BY <1>1, FreshInvariant, PTL

(* And the pipeline implements ObservationOutcome.                         *)
THEOREM PipelineImplementsOutcome == SpecFresh => OutcomeSpec
  <1>1. Init => Outcome!Init
    <2> SUFFICES ASSUME Init, NEW o \in Observations PROVE OutcomeOf(o) = "absent"
      BY DEF Outcome!Init
    <2> QED  BY DEF Init, OutcomeOf, AbsentRow
  <1>2. FreshInv /\ [Next /\ FreshRecovery]_vars
            => [Outcome!Next]_([o \in Observations |-> OutcomeOf(o)])
    BY OneChangesStep, OutcomeChange DEF FreshInv
  <1>3. QED
    BY <1>1, <1>2, FreshInvariant, PTL DEF SpecFresh, OutcomeSpec, Outcome!Spec
=============================================================================
