------------------------ MODULE PlanningOutboxProofs ------------------------
(***************************************************************************)
(* Theorems about PlanningOutbox, for any number of requests, submission   *)
(* ids, entries and workers.                                               *)
(***************************************************************************)
EXTENDS PlanningOutbox, TLAPS

LEMMA RowType ==
    ASSUME NEW status \in EntryStatuses, NEW n \in 0..MaxAttempts, NEW due \in BOOLEAN
    PROVE  Row(status, n, due) \in Rows
  BY DEF Row, Rows

LEMMA FreshRow ==
    ASSUME NEW status \in EntryStatuses, NEW due \in BOOLEAN
    PROVE  Row(status, 0, due) \in Rows
<1>1. 0 \in 0..MaxAttempts
  BY PlanningAssumption
<1> QED
  BY <1>1, RowType

LEMMA OneMoreType ==
    ASSUME NEW n \in 0..MaxAttempts PROVE OneMore(n) \in 0..MaxAttempts
  BY PlanningAssumption DEF OneMore

LEMMA TypeInit == Init => TypeOK
<1> SUFFICES ASSUME Init PROVE TypeOK
  OBVIOUS
<1>1. \A e \in Entries : outbox[e] \in Rows
  BY FreshRow DEF Init, EntryStatuses
<1> QED
  BY <1>1 DEF Init, TypeOK, RequestSteps, WorkerStates, Idle

(* The steps of a request change only what a request writes.               *)
LEMMA TypeRequest ==
    ASSUME TypeOK, NEW r \in Requests,
           Lookup(r) \/ Insert(r) \/ InsertRaced(r) \/ Commit(r) \/ Refuse(r)
    PROVE  TypeOK'
<1> USE DEF TypeOK, delivery, Answer, RequestSteps, Answers
<1>1. CASE Lookup(r) \/ InsertRaced(r)
  BY <1>1 DEF Lookup, InsertRaced, Replay
<1>2. CASE Insert(r)
  BY <1>2 DEF Insert
<1>3. CASE Commit(r)
  <2>1. Row("pending", 0, TRUE) \in Rows
    BY FreshRow DEF EntryStatuses
  <2> QED
    BY <1>3, <2>1, PlanningAssumption DEF Commit
<1>4. CASE Refuse(r)
  BY <1>4 DEF Refuse
<1> QED
  BY <1>1, <1>2, <1>3, <1>4

LEMMA TypeWorker ==
    ASSUME TypeOK, NEW w \in Workers, Claim(w) \/ WorkerStep(w) \/ WorkerDies(w)
    PROVE  TypeOK'
<1> USE DEF TypeOK
<1>0. Idle \in WorkerStates
  BY DEF Idle, WorkerStates
<1>1. CASE Claim(w)
  <2>1. outbox' \in [Entries -> Rows]
    <3>1. \A e \in Entries : Row("processing", OneMore(outbox[e].attempts), FALSE) \in Rows
      BY RowType, OneMoreType DEF Rows, EntryStatuses
    <3> QED
      BY <1>1, <3>1 DEF Claim
  <2>2. worker' \in [Workers -> WorkerStates]
    BY <1>1, <1>0 DEF Claim, Idle, WorkerStates
  <2>3. UNCHANGED <<submission, deleted, request, void, told>>
    BY <1>1 DEF Claim
  <2> QED
    BY <2>1, <2>2, <2>3
<1>2. ASSUME NEW e \in Entries, Deliver(w, e) \/ DeliveryFails(w, e) PROVE TypeOK'
  <2>1. worker' \in [Workers -> WorkerStates]
    BY <1>2 DEF Deliver, DeliveryFails, Took, WorkerStates
  <2>2. told' \subseteq Notices
    <3>1. NoticeOf[e] \in Notices
      BY PlanningAssumption
    <3>2. told' \subseteq told \cup {NoticeOf[e]}
      BY <1>2 DEF Deliver, DeliveryFails
    <3> QED
      BY <3>1, <3>2
  <2>3. UNCHANGED <<submission, deleted, request, outbox, void>>
    BY <1>2 DEF Deliver, DeliveryFails
  <2> QED
    BY <2>1, <2>2, <2>3
<1>3. CASE Finalize(w)
  <2> DEFINE e == worker[w].entry
  <2>1. e \in Entries
    BY <1>3 DEF Finalize, WorkerStates
  <2>2. outbox' \in [Entries -> Rows]
    <3>1. AfterFailure(outbox[e]) \in Rows
      BY <2>1 DEF AfterFailure, Rows, EntryStatuses
    <3>2. [outbox[e] EXCEPT !.status = "processed", !.due = FALSE] \in Rows
      BY <2>1 DEF Rows, EntryStatuses
    <3> QED
      BY <1>3, <2>1, <3>1, <3>2 DEF Finalize
  <2>3. worker' \in [Workers -> WorkerStates]
    <3>1. NextEntry(worker[w], e) \in WorkerStates
      BY DEF NextEntry, WorkerStates
    <3> QED
      BY <1>0, <1>3, <3>1 DEF Finalize
  <2> QED
    BY <1>3, <2>2, <2>3 DEF Finalize
<1>4. CASE FinalizeRemoved(w) \/ WorkerDies(w)
  BY <1>0, <1>4 DEF FinalizeRemoved, WorkerDies
<1> QED
  BY <1>1, <1>2, <1>3, <1>4 DEF WorkerStep

LEMMA TypeOthers ==
    ASSUME TypeOK,
           \/ \E k \in Keys : DeletePlan(k)
           \/ \E e \in Entries : TimePasses(e) \/ Withdraw(e)
    PROVE  TypeOK'
<1> USE DEF TypeOK, delivery
<1>1. ASSUME NEW k \in Keys, DeletePlan(k) PROVE TypeOK'
  <2>1. Row("removed", 0, FALSE) \in Rows
    BY FreshRow DEF EntryStatuses
  <2> QED
    BY <1>1, <2>1 DEF DeletePlan
<1>2. ASSUME NEW e \in Entries, TimePasses(e) PROVE TypeOK'
  <2>1. [outbox[e] EXCEPT !.due = TRUE] \in Rows
    BY DEF Rows
  <2> QED
    BY <1>2, <2>1 DEF TimePasses
<1>3. ASSUME NEW e \in Entries, Withdraw(e) PROVE TypeOK'
  BY <1>3 DEF Withdraw
<1> QED
  BY <1>1, <1>2, <1>3

LEMMA TypeStep == TypeOK /\ [Next]_vars => TypeOK'
<1>1. CASE UNCHANGED vars
  BY <1>1 DEF TypeOK, vars
<1> QED
  BY <1>1, TypeRequest, TypeWorker, TypeOthers DEF Next

(* The type invariant of planning submissions and their outbox.            *)
THEOREM TypeCorrect == Spec => []TypeOK
  BY TypeInit, TypeStep, PTL DEF Spec

-----------------------------------------------------------------------------
(* One creation per id, and what repetitions are told.                     *)

(* The row of an id is that of a request that was carried out, until the   *)
(* plan is deleted; what is inserted and not committed is alone.           *)
RowOfCreated ==
    \A k \in Keys : submission[k] # NoRequest =>
        /\ request[submission[k]] = "created"
        /\ KeyOf[submission[k]] = k

CreatedHasRow ==
    \A r \in Requests : request[r] = "created" =>
        submission[KeyOf[r]] = r \/ KeyOf[r] \in deleted

InsertedAlone ==
    \A r \in Requests : request[r] = "inserted" =>
        /\ submission[KeyOf[r]] = NoRequest
        /\ \A q \in Requests :
            request[q] = "inserted" /\ KeyOf[q] = KeyOf[r] => q = r

OnceInv == RowOfCreated /\ CreatedHasRow /\ InsertedAlone /\ CarriedOutOnce

LEMMA OnceInit == Init => OnceInv
  BY PlanningAssumption
  DEF Init, OnceInv, RowOfCreated, CreatedHasRow, InsertedAlone, CarriedOutOnce

(* A step that answers r with something else than "created", from a row    *)
(* that is left as it is, keeps all four parts.                            *)
LEMMA OnceReplay ==
    ASSUME TypeOK, OnceInv, NEW r \in Requests, Replay(r),
           request[r] \in {"new", "looked"}
    PROVE  OnceInv'
<1> DEFINE answer == IF SameIntent(submission[KeyOf[r]], r) THEN "replayed" ELSE "conflict"
<1>1. request' = [request EXCEPT ![r] = answer] /\ UNCHANGED <<submission, deleted>>
  BY DEF Replay, Answer
<1>2. answer \in {"replayed", "conflict"}
  OBVIOUS
<1> HIDE DEF answer
<1> QED
  BY <1>1, <1>2, PlanningAssumption
  DEF TypeOK, OnceInv, RowOfCreated, CreatedHasRow, InsertedAlone, CarriedOutOnce

LEMMA OnceCommit ==
    ASSUME TypeOK, OnceInv, NEW r \in Requests, Commit(r)
    PROVE  OnceInv'
<1>0. KeyOf \in [Requests -> Keys] /\ NoRequest \notin Requests
  BY PlanningAssumption
<1>1. /\ request[r] = "inserted" /\ KeyOf[r] \notin deleted
      /\ submission' = [submission EXCEPT ![KeyOf[r]] = r]
      /\ request' = [request EXCEPT ![r] = "created"]
      /\ deleted' = deleted
  BY DEF Commit, Answer
<1>2. submission[KeyOf[r]] = NoRequest
  BY <1>1 DEF OnceInv, InsertedAlone
(* Nothing was created under this id before.                               *)
<1>3. ASSUME NEW q \in Requests, request[q] = "created" PROVE KeyOf[q] # KeyOf[r]
  BY <1>0, <1>1, <1>2, <1>3 DEF OnceInv, CreatedHasRow
<1>4. RowOfCreated'
  BY <1>0, <1>1 DEF TypeOK, OnceInv, RowOfCreated
<1>5. CreatedHasRow'
  BY <1>0, <1>1, <1>3 DEF TypeOK, OnceInv, CreatedHasRow
<1>6. InsertedAlone'
  BY <1>0, <1>1 DEF TypeOK, OnceInv, InsertedAlone
<1>7. CarriedOutOnce'
  BY <1>1, <1>3 DEF TypeOK, OnceInv, CarriedOutOnce
<1> QED
  BY <1>4, <1>5, <1>6, <1>7 DEF OnceInv

LEMMA OnceRequest ==
    ASSUME TypeOK, OnceInv, NEW r \in Requests,
           Lookup(r) \/ Insert(r) \/ InsertRaced(r) \/ Refuse(r)
    PROVE  OnceInv'
<1> USE DEF TypeOK, OnceInv, RowOfCreated, CreatedHasRow, InsertedAlone, CarriedOutOnce
<1>1. CASE Replay(r) /\ request[r] \in {"new", "looked"}
  BY <1>1, OnceReplay
<1>2. CASE /\ request[r] = "new" /\ request' = [request EXCEPT ![r] = "looked"]
           /\ UNCHANGED <<submission, deleted>>
  BY <1>2, PlanningAssumption
<1>3. CASE Insert(r)
  <2>1. /\ request[r] = "looked" /\ request' = [request EXCEPT ![r] = "inserted"]
        /\ submission[KeyOf[r]] = NoRequest
        /\ UNCHANGED <<submission, deleted>>
    BY <1>3 DEF Insert, Answer
  <2>2. \A q \in Requests : request[q] = "inserted" => KeyOf[q] # KeyOf[r]
    BY <1>3 DEF Insert, KeyLocked
  <2> QED
    BY <2>1, <2>2, PlanningAssumption
<1>4. CASE Refuse(r)
  BY <1>4, PlanningAssumption DEF Refuse, Answer
<1>5. Lookup(r) \/ InsertRaced(r) => \/ Replay(r) /\ request[r] \in {"new", "looked"}
        \/ /\ request[r] = "new" /\ request' = [request EXCEPT ![r] = "looked"]
           /\ UNCHANGED <<submission, deleted>>
  BY DEF Lookup, InsertRaced, Answer
<1> QED
  BY <1>1, <1>2, <1>3, <1>4, <1>5

LEMMA OnceStep == TypeOK /\ OnceInv /\ [Next]_vars => OnceInv'
<1> SUFFICES ASSUME TypeOK, OnceInv, [Next]_vars PROVE OnceInv'
  OBVIOUS
<1> USE DEF OnceInv, RowOfCreated, CreatedHasRow, InsertedAlone, CarriedOutOnce
<1>1. CASE UNCHANGED <<submission, deleted, request>>
  BY <1>1
<1>2. ASSUME NEW k \in Keys, DeletePlan(k) PROVE OnceInv'
  <2>1. /\ submission' = [submission EXCEPT ![k] = NoRequest]
        /\ deleted' = deleted \cup {k} /\ request' = request
    BY <1>2 DEF DeletePlan
  <2> QED
    BY <2>1, PlanningAssumption DEF TypeOK
<1>3. \/ \E r \in Requests :
          Lookup(r) \/ Insert(r) \/ InsertRaced(r) \/ Refuse(r) \/ Commit(r)
      \/ \E k \in Keys : DeletePlan(k)
      \/ UNCHANGED <<submission, deleted, request>>
  BY DEF Next, vars, Claim, WorkerStep, Deliver, DeliveryFails, Finalize, FinalizeRemoved,
         WorkerDies, TimePasses, Withdraw, delivery
<1> QED
  BY <1>1, <1>2, <1>3, OnceRequest, OnceCommit

LEMMA OnceCorrect == Spec => []OnceInv
  BY OnceInit, OnceStep, TypeCorrect, PTL DEF Spec

(* What was planned under one id is created at most once.                  *)
THEOREM OneCreation == Spec => []CarriedOutOnce
<1>1. OnceInv => CarriedOutOnce
  BY DEF OnceInv
<1> QED
  BY <1>1, OnceCorrect, PTL

(* A repetition is answered with what the same id created, and a conflict  *)
(* is reported only for another content.                                   *)
LEMMA RepeatsStep == TypeOK /\ OnceInv /\ RepeatsReplayed /\ [Next]_vars => RepeatsReplayed'
<1> SUFFICES ASSUME TypeOK, OnceInv, RepeatsReplayed, [Next]_vars PROVE RepeatsReplayed'
  OBVIOUS
<1> USE DEF RepeatsReplayed
<1>1. CASE UNCHANGED request
  BY <1>1
<1>2. ASSUME NEW r \in Requests, NEW step \in {"looked", "inserted", "created", "refused"},
             request[r] \in {"new", "looked", "inserted"},
             request' = [request EXCEPT ![r] = step]
      PROVE  RepeatsReplayed'
  BY <1>2 DEF TypeOK
<1>3. ASSUME NEW r \in Requests, Replay(r), request[r] \in {"new", "looked"}
      PROVE  RepeatsReplayed'
  <2> DEFINE q == submission[KeyOf[r]]
  <2>1. q \in Requests /\ request[q] = "created" /\ KeyOf[q] = KeyOf[r]
    BY <1>3, PlanningAssumption DEF Replay, OnceInv, RowOfCreated, TypeOK
  <2>2. CASE IntentOf[q] = IntentOf[r]
    <3>1. request' = [request EXCEPT ![r] = "replayed"]
      BY <1>3, <2>2 DEF Replay, Answer, SameIntent
    <3> QED
      BY <1>3, <2>1, <2>2, <3>1 DEF TypeOK
  <2>3. CASE IntentOf[q] # IntentOf[r]
    <3>1. request' = [request EXCEPT ![r] = "conflict"]
      BY <1>3, <2>3 DEF Replay, Answer, SameIntent
    <3> QED
      BY <1>3, <2>1, <2>3, <3>1 DEF TypeOK
  <2> QED
    BY <2>2, <2>3
<1>4. \/ UNCHANGED request
      \/ \E r \in Requests : Lookup(r) \/ Insert(r) \/ InsertRaced(r) \/ Refuse(r) \/ Commit(r)
  BY DEF Next, vars, Claim, WorkerStep, Deliver, DeliveryFails, Finalize, FinalizeRemoved,
         WorkerDies, TimePasses, Withdraw, DeletePlan, delivery
<1>5. ASSUME NEW r \in Requests, Lookup(r) \/ InsertRaced(r) PROVE RepeatsReplayed'
  BY <1>2, <1>3, <1>5 DEF Lookup, InsertRaced, Answer
<1>6. ASSUME NEW r \in Requests, Insert(r) \/ Refuse(r) \/ Commit(r) PROVE RepeatsReplayed'
  BY <1>2, <1>6 DEF Insert, Refuse, Commit, Answer
<1> QED
  BY <1>1, <1>4, <1>5, <1>6

THEOREM RepetitionsAnswered == Spec => []RepeatsReplayed
<1>1. Init => RepeatsReplayed
  BY DEF Init, RepeatsReplayed
<1> QED
  BY <1>1, RepeatsStep, OnceCorrect, TypeCorrect, PTL DEF Spec

-----------------------------------------------------------------------------
(* What a processed entry means.                                           *)

Done(e) == NoticeOf[e] \in told \/ e \in void

(* A worker that is to save an entry as processed has carried it out, and  *)
(* what is done stays done.                                                *)
DoneBeforeSaved ==
    \A w \in Workers : worker[w].entry # NoEntry /\ worker[w].ok => Done(worker[w].entry)

ToldInv == ProcessedMeansTold /\ DoneBeforeSaved

LEMMA ToldInit == Init => ToldInv
  BY DEF Init, ToldInv, ProcessedMeansTold, DoneBeforeSaved, Row, Idle

(* The sets of what was sent and what is void only grow.                   *)
LEMMA DoneStays == ASSUME [Next]_vars PROVE told \subseteq told' /\ void \subseteq void'
  BY DEF Next, vars, Lookup, Insert, InsertRaced, Replay, Commit, Refuse, DeletePlan, Claim,
         WorkerStep, Deliver, DeliveryFails, Finalize, FinalizeRemoved, WorkerDies, TimePasses,
         Withdraw, delivery

(* An entry becomes processed by a worker that holds it as carried out.    *)
LEMMA ToldWorker ==
    ASSUME TypeOK, ToldInv, told \subseteq told', void \subseteq void',
           NEW w \in Workers, Claim(w) \/ WorkerStep(w) \/ WorkerDies(w)
    PROVE  ToldInv'
<1> USE DEF ToldInv, ProcessedMeansTold, DoneBeforeSaved, Done
<1>1. CASE Claim(w)
  <2>1. \A e \in Entries : outbox'[e].status = "processed" => outbox[e].status = "processed"
    BY <1>1 DEF Claim, Row
  <2>2. \A v \in Workers : worker'[v] = worker[v] \/ worker'[v].entry = NoEntry
    BY <1>1 DEF Claim, TypeOK, Idle
  <2> QED
    BY <2>1, <2>2
<1>2. ASSUME NEW e \in Entries, Deliver(w, e) \/ DeliveryFails(w, e) PROVE ToldInv'
  <2>1. e \in Entries /\ worker' = [worker EXCEPT ![w].entry = e, ![w].ok = worker'[w].ok]
    BY <1>2 DEF Deliver, DeliveryFails, Took, TypeOK, WorkerStates
  <2>2. worker'[w].ok => NoticeOf[e] \in told' \/ e \in void
    BY <1>2 DEF Deliver, DeliveryFails, Took, TypeOK, WorkerStates
  <2>3. outbox' = outbox
    BY <1>2 DEF Deliver, DeliveryFails
  <2>4. \A v \in Workers : v # w => worker'[v] = worker[v]
    BY <2>1 DEF TypeOK
  <2>5. worker'[w].entry = e
    BY <2>1 DEF TypeOK, WorkerStates
  <2> QED
    BY <2>2, <2>3, <2>4, <2>5
<1>3. CASE Finalize(w)
  <2> DEFINE e == worker[w].entry
  <2>1. e \in Entries
    BY <1>3 DEF Finalize, TypeOK, WorkerStates
  <2>2. \A f \in Entries : outbox'[f].status = "processed" =>
            outbox[f].status = "processed" \/ (f = e /\ worker[w].ok)
    BY <1>3, <2>1 DEF Finalize, AfterFailure, TypeOK, Rows
  <2>3. \A v \in Workers : worker'[v] = worker[v] \/ worker'[v].entry = NoEntry
    <3>1. NextEntry(worker[w], e).entry = NoEntry
      BY DEF NextEntry, TypeOK, WorkerStates
    <3> QED
      BY <1>3, <3>1 DEF Finalize, TypeOK, Idle
  <2> QED
    BY <1>3, <2>1, <2>2, <2>3 DEF Finalize
<1>4. CASE FinalizeRemoved(w) \/ WorkerDies(w)
  <2>1. outbox' = outbox /\ \A v \in Workers : worker'[v] = worker[v] \/ worker'[v].entry = NoEntry
    BY <1>4 DEF FinalizeRemoved, WorkerDies, TypeOK, Idle
  <2> QED
    BY <2>1
<1> QED
  BY <1>1, <1>2, <1>3, <1>4 DEF WorkerStep

LEMMA ToldOthers ==
    ASSUME TypeOK, ToldInv, told \subseteq told', void \subseteq void', UNCHANGED worker,
           \A e \in Entries : outbox'[e].status = "processed" => outbox[e].status = "processed"
    PROVE  ToldInv'
  BY DEF ToldInv, ProcessedMeansTold, DoneBeforeSaved, Done

LEMMA ToldStep == TypeOK /\ ToldInv /\ [Next]_vars => ToldInv'
<1> SUFFICES ASSUME TypeOK, ToldInv, [Next]_vars PROVE ToldInv'
  OBVIOUS
<1> DEFINE Kept == \A e \in Entries :
        outbox'[e].status = "processed" => outbox[e].status = "processed"
<1>1. ASSUME NEW r \in Requests, Commit(r) PROVE UNCHANGED worker /\ Kept
  BY <1>1 DEF Commit, Row, delivery
<1>2. ASSUME NEW k \in Keys, DeletePlan(k) PROVE UNCHANGED worker /\ Kept
  BY <1>2 DEF DeletePlan, Row, delivery
<1>3. ASSUME NEW e \in Entries, TimePasses(e) PROVE UNCHANGED worker /\ Kept
  BY <1>3 DEF TimePasses, TypeOK, Rows, delivery
<1>4. \/ UNCHANGED <<worker, outbox>>
      \/ \E r \in Requests : Commit(r)
      \/ \E k \in Keys : DeletePlan(k)
      \/ \E e \in Entries : TimePasses(e)
      \/ \E w \in Workers : Claim(w) \/ WorkerStep(w) \/ WorkerDies(w)
  BY DEF Next, vars, Lookup, Insert, InsertRaced, Replay, Refuse, Withdraw, delivery
<1>5. UNCHANGED <<worker, outbox>> => UNCHANGED worker /\ Kept
  OBVIOUS
<1>6. UNCHANGED worker /\ Kept => ToldInv'
  BY DoneStays, ToldOthers
<1> QED
  BY <1>1, <1>2, <1>3, <1>4, <1>5, <1>6, DoneStays, ToldWorker

(* An effect is marked processed only once its notice exists.              *)
THEOREM ProcessedTold == Spec => []ProcessedMeansTold
<1>1. ToldInv => ProcessedMeansTold
  BY DEF ToldInv
<1> QED
  BY <1>1, ToldInit, ToldStep, TypeCorrect, PTL DEF Spec

-----------------------------------------------------------------------------
(* The refinement of PlanningOutcome.                                      *)

(* Entries exist, and are in a worker's batch, only for what was carried   *)
(* out: also when the plan is gone, or a lease has lapsed, since.          *)
Planned(e) == \E r \in Requests : request[r] = "created" /\ e \in EntriesOf[r]

EntriesPlanned ==
    /\ \A e \in Entries : outbox[e].status # "absent" => Planned(e)
    /\ \A w \in Workers : \A e \in worker[w].todo : Planned(e)

(* The entry a worker is at is one of its batch.                           *)
EntryInBatch == \A w \in Workers : worker[w].entry \in worker[w].todo \cup {NoEntry}

(* The row of an id goes with its plan.                                    *)
RowHasPlan == \A k \in Keys : submission[k] # NoRequest => k \notin deleted

OutcomeInv == EntriesPlanned /\ EntryInBatch /\ RowHasPlan

LEMMA OutcomeInit == Init => OutcomeInv
  BY DEF Init, OutcomeInv, EntriesPlanned, EntryInBatch, RowHasPlan, Row, Idle

(* An answer is never taken back.                                          *)
LEMMA AnswersStay ==
    ASSUME TypeOK, [Next]_vars, NEW r \in Requests, request[r] \in Answers
    PROVE  request'[r] = request[r]
<1>1. \A q \in Requests, step \in RequestSteps :
          request[q] \notin Answers /\ request' = [request EXCEPT ![q] = step]
          => request'[r] = request[r]
  BY DEF TypeOK
<1>2. \/ request' = request
      \/ \E q \in Requests : Lookup(q) \/ Insert(q) \/ InsertRaced(q) \/ Refuse(q) \/ Commit(q)
  BY DEF Next, vars, Claim, WorkerStep, Deliver, DeliveryFails, Finalize, FinalizeRemoved,
         WorkerDies, TimePasses, Withdraw, DeletePlan, delivery
<1>3. ASSUME NEW q \in Requests,
             Lookup(q) \/ Insert(q) \/ InsertRaced(q) \/ Refuse(q) \/ Commit(q)
      PROVE  request'[r] = request[r]
  <2>1. request[q] \in {"new", "looked", "inserted"}
    BY <1>3 DEF Lookup, Insert, InsertRaced, Refuse, Commit
  <2>2. \E step \in RequestSteps : request' = [request EXCEPT ![q] = step]
    BY <1>3 DEF Lookup, Insert, InsertRaced, Refuse, Commit, Replay, Answer, RequestSteps, Answers
  <2> QED
    BY <1>1, <2>1, <2>2 DEF Answers
<1> QED
  BY <1>2, <1>3

(* Entries appear with the commit that carries a request out, and batches  *)
(* are taken from the entries there are.                                   *)
LEMMA PlannedStep ==
    ASSUME TypeOK, OnceInv, EntriesPlanned, EntryInBatch, [Next]_vars
    PROVE  EntriesPlanned'
<1>1. \A e \in Entries : Planned(e) => Planned(e)'
  BY AnswersStay DEF Planned, Answers
<1> DEFINE Rest == \A e \in Entries : outbox'[e].status # "absent" => Planned(e)'
<1> DEFINE Batches == \A w \in Workers : worker'[w].todo \subseteq worker[w].todo
<1>2. (\A e \in Entries : outbox'[e].status # "absent" => outbox[e].status # "absent") => Rest
  BY <1>1 DEF EntriesPlanned
<1>3. Batches => \A w \in Workers : \A e \in worker'[w].todo : Planned(e)'
  BY <1>1 DEF EntriesPlanned, TypeOK, WorkerStates
<1>4. Rest /\ Batches => EntriesPlanned'
  BY <1>3 DEF EntriesPlanned
<1>5. ASSUME NEW r \in Requests, Commit(r) PROVE EntriesPlanned'
  <2>1. request'[r] = "created"
    BY <1>5 DEF Commit, Answer, TypeOK
  <2>2. \A e \in Entries : outbox'[e] # outbox[e] => e \in EntriesOf[r]
    BY <1>5 DEF Commit, TypeOK
  <2>3. Rest
    BY <1>1, <2>1, <2>2 DEF EntriesPlanned, Planned
  <2> QED
    BY <1>4, <1>5, <2>3 DEF Commit, delivery
<1>6. ASSUME NEW k \in Keys, DeletePlan(k) PROVE EntriesPlanned'
  <2>1. \A e \in Entries : outbox'[e] # outbox[e] =>
            submission[k] # NoRequest /\ e \in EntriesOf[submission[k]]
    BY <1>6 DEF DeletePlan, TypeOK
  <2>2. submission[k] # NoRequest =>
            submission[k] \in Requests /\ request[submission[k]] = "created"
    BY DEF OnceInv, RowOfCreated, TypeOK
  <2>3. Rest
    BY <1>1, <2>1, <2>2 DEF EntriesPlanned, Planned
  <2> QED
    BY <1>4, <1>6, <2>3 DEF DeletePlan, delivery
<1>7. ASSUME NEW w \in Workers, Claim(w) PROVE EntriesPlanned'
  <2>1. PICK batch \in SUBSET {e \in Entries : Claimable(outbox[e])} :
            /\ outbox' = [e \in Entries |->
                   IF e \in batch
                   THEN Row("processing", OneMore(outbox[e].attempts), FALSE)
                   ELSE outbox[e]]
            /\ worker' = [worker EXCEPT ![w] = [Idle EXCEPT !.todo = batch]]
    BY <1>7 DEF Claim
  <2>2. \A e \in batch : e \in Entries /\ outbox[e].status # "absent"
    BY <2>1 DEF Claimable
  <2>3. Rest
    BY <1>1, <2>1, <2>2 DEF EntriesPlanned
  <2>4. \A v \in Workers : \A e \in worker'[v].todo : Planned(e)'
    <3>1. worker'[w].todo = batch /\ \A v \in Workers \ {w} : worker'[v] = worker[v]
      BY <2>1 DEF TypeOK, Idle
    <3> QED
      BY <1>1, <2>2, <3>1 DEF EntriesPlanned, TypeOK, WorkerStates
  <2> QED
    BY <2>3, <2>4 DEF EntriesPlanned
<1>8. ASSUME NEW w \in Workers, NEW e \in Entries, Deliver(w, e) \/ DeliveryFails(w, e)
      PROVE  EntriesPlanned'
  <2>1. Batches
    BY <1>8 DEF Deliver, DeliveryFails, Took, TypeOK, WorkerStates
  <2>2. outbox' = outbox
    BY <1>8 DEF Deliver, DeliveryFails
  <2> QED
    BY <1>2, <1>4, <2>1, <2>2
<1>9. ASSUME NEW w \in Workers, Finalize(w) PROVE EntriesPlanned'
  <2>1. worker[w].entry \in Entries /\ Planned(worker[w].entry)
    BY <1>9 DEF Finalize, TypeOK, WorkerStates, EntryInBatch, EntriesPlanned
  <2>2. \A e \in Entries : e # worker[w].entry => outbox'[e] = outbox[e]
    BY <1>9 DEF Finalize, TypeOK
  <2>3. Rest
    BY <1>1, <2>1, <2>2 DEF EntriesPlanned
  <2>4. Batches
    <3>1. NextEntry(worker[w], worker[w].entry).todo \subseteq worker[w].todo
      BY DEF NextEntry, TypeOK, WorkerStates
    <3> QED
      BY <1>9, <3>1 DEF Finalize, TypeOK, Idle
  <2> QED
    BY <1>4, <2>3, <2>4
<1>10. ASSUME NEW w \in Workers, FinalizeRemoved(w) \/ WorkerDies(w) PROVE EntriesPlanned'
  <2>1. Batches /\ outbox' = outbox
    BY <1>10 DEF FinalizeRemoved, WorkerDies, Idle, TypeOK
  <2> QED
    BY <1>2, <1>4, <2>1
<1>11. ASSUME NEW e \in Entries, TimePasses(e) PROVE EntriesPlanned'
  <2>1. \A f \in Entries : outbox'[f].status = outbox[f].status
    BY <1>11 DEF TimePasses, TypeOK, Rows
  <2> QED
    BY <1>2, <1>4, <1>11, <2>1 DEF TimePasses, delivery
<1>12. UNCHANGED <<outbox, worker>> => EntriesPlanned'
  BY <1>2, <1>4
<1> QED
  BY <1>5, <1>6, <1>7, <1>8, <1>9, <1>10, <1>11, <1>12
     DEF Next, vars, WorkerStep, Lookup, Insert, InsertRaced, Replay, Refuse, Withdraw, delivery

LEMMA BatchStep == TypeOK /\ EntryInBatch /\ [Next]_vars => EntryInBatch'
<1> SUFFICES ASSUME TypeOK, EntryInBatch, [Next]_vars PROVE EntryInBatch'
  OBVIOUS
<1>1. CASE UNCHANGED worker
  BY <1>1 DEF EntryInBatch
<1>2. ASSUME NEW w \in Workers, NEW e \in Entries, Deliver(w, e) \/ DeliveryFails(w, e)
      PROVE  EntryInBatch'
  <2>1. /\ \A v \in Workers \ {w} : worker'[v] = worker[v]
        /\ worker'[w].entry = e /\ worker'[w].todo = worker[w].todo
        /\ e \in worker[w].todo
    BY <1>2 DEF Deliver, DeliveryFails, Took, TypeOK, WorkerStates
  <2> QED
    BY <2>1 DEF EntryInBatch
<1>3. ASSUME NEW w \in Workers,
             Claim(w) \/ Finalize(w) \/ FinalizeRemoved(w) \/ WorkerDies(w)
      PROVE  EntryInBatch'
  <2>1. NextEntry(worker[w], worker[w].entry).entry = NoEntry
    BY DEF NextEntry, TypeOK, WorkerStates
  <2>2. \A batch : [Idle EXCEPT !.todo = batch].entry = NoEntry
    BY DEF Idle
  <2>3. \A v \in Workers : worker'[v] = worker[v] \/ worker'[v].entry = NoEntry
    <3>1. CASE Claim(w)
      BY <2>2, <3>1 DEF Claim, TypeOK
    <3>2. CASE Finalize(w)
      BY <2>1, <3>2 DEF Finalize, TypeOK, Idle
    <3>3. CASE FinalizeRemoved(w) \/ WorkerDies(w)
      BY <3>3 DEF FinalizeRemoved, WorkerDies, TypeOK, Idle
    <3> QED
      BY <1>3, <3>1, <3>2, <3>3
  <2> QED
    BY <2>3 DEF EntryInBatch
<1> QED
  BY <1>1, <1>2, <1>3
     DEF Next, vars, WorkerStep, Lookup, Insert, InsertRaced, Replay, Refuse, Commit, DeletePlan,
         TimePasses, Withdraw, delivery

LEMMA RowPlanStep == TypeOK /\ RowHasPlan /\ [Next]_vars => RowHasPlan'
<1> SUFFICES ASSUME TypeOK, RowHasPlan, [Next]_vars PROVE RowHasPlan'
  OBVIOUS
<1> USE DEF RowHasPlan
<1>1. CASE UNCHANGED <<submission, deleted>>
  BY <1>1
<1>2. ASSUME NEW r \in Requests, Commit(r) PROVE RowHasPlan'
  BY <1>2, PlanningAssumption DEF Commit, TypeOK
<1>3. ASSUME NEW k \in Keys, DeletePlan(k) PROVE RowHasPlan'
  BY <1>3 DEF DeletePlan, TypeOK
<1> QED
  BY <1>1, <1>2, <1>3
     DEF Next, vars, WorkerStep, Claim, Deliver, DeliveryFails, Finalize, FinalizeRemoved,
         WorkerDies, Lookup, Insert, InsertRaced, Replay, Refuse, TimePasses, Withdraw, delivery

LEMMA OutcomeCorrect == Spec => []OutcomeInv
<1>1. TypeOK /\ OnceInv /\ OutcomeInv /\ [Next]_vars => OutcomeInv'
  BY PlannedStep, BatchStep, RowPlanStep DEF OutcomeInv
<1> QED
  BY <1>1, OutcomeInit, TypeCorrect, OnceCorrect, PTL DEF Spec

-----------------------------------------------------------------------------
(* The steps of a request are its answer, or nothing.                      *)
LEMMA AnsweredAfter ==
    ASSUME TypeOK, NEW r \in Requests, NEW step \in RequestSteps,
           request[r] \in RequestSteps \ Answers,
           request' = [request EXCEPT ![r] = step]
    PROVE  /\ Answered[r] = "none"
           /\ step \in Answers => Answered' = [Answered EXCEPT ![r] = step]
           /\ step \notin Answers => Answered' = Answered
  BY DEF Answered, Answers, TypeOK

LEMMA CarriedOutAre ==
    \A r \in Requests : request[r] = "created" <=> r \in Outcome!CarriedOut
  BY DEF Outcome!CarriedOut, Answered, Answers

LEMMA ReplayRefines ==
    ASSUME TypeOK, OnceInv, OutcomeInv, NEW r \in Requests,
           request[r] \in {"new", "looked"}, Replay(r)
    PROVE  Outcome!Request(r)
<1> DEFINE q == submission[KeyOf[r]]
<1> DEFINE answer == IF IntentOf[q] = IntentOf[r] THEN "replayed" ELSE "conflict"
<1>1. q \in Requests /\ request[q] = "created" /\ KeyOf[q] = KeyOf[r] /\ KeyOf[r] \notin deleted
  BY PlanningAssumption DEF Replay, OnceInv, RowOfCreated, TypeOK, OutcomeInv, RowHasPlan
<1>2. request' = [request EXCEPT ![r] = answer]
  BY DEF Replay, Answer, SameIntent
<1>3. answer \in Answers
  BY DEF Answers
<1>4. Answered[r] = "none" /\ Answered' = [Answered EXCEPT ![r] = answer]
  <2> HIDE DEF answer
  <2> QED
    BY <1>2, <1>3, AnsweredAfter DEF Answers, RequestSteps
<1>5. Outcome!Repeat(r)
  BY <1>1, <1>4, CarriedOutAre DEF Outcome!Repeat
<1> QED
  BY <1>4, <1>5 DEF Outcome!Request, Replay, delivery

LEMMA CommitRefines ==
    ASSUME TypeOK, OnceInv, NEW r \in Requests, Commit(r)
    PROVE  Outcome!Request(r)
<1>1. Answered[r] = "none" /\ Answered' = [Answered EXCEPT ![r] = "created"]
  BY AnsweredAfter DEF Commit, Answer, Answers, RequestSteps
<1>2. \A q \in Requests : request[q] = "created" => KeyOf[q] # KeyOf[r]
  BY PlanningAssumption DEF Commit, OnceInv, InsertedAlone, CreatedHasRow
<1>3. Outcome!Create(r)
  BY <1>1, <1>2, CarriedOutAre DEF Outcome!Create, Commit, Outcome!CarriedOut
<1> QED
  BY <1>1, <1>3 DEF Outcome!Request, Commit, delivery

LEMMA TellRefines ==
    ASSUME TypeOK, OutcomeInv, NEW w \in Workers, NEW e \in Entries, Deliver(w, e)
    PROVE  Outcome!Next \/ UNCHANGED told
<1>1. PICK r \in Requests : request[r] = "created" /\ e \in EntriesOf[r]
  BY DEF Deliver, Took, OutcomeInv, EntriesPlanned, Planned
<1>2. NoticeOf[e] \in NoticesOf[r]
  BY <1>1 DEF NoticesOf
<1>3. Answered' = Answered /\ UNCHANGED deleted
  BY DEF Deliver, Answered
<1>4. CASE told' = told \cup {NoticeOf[e]}
  BY <1>1, <1>2, <1>3, <1>4, CarriedOutAre DEF Outcome!Next, Outcome!Tell
<1> QED
  BY <1>4 DEF Deliver

LEMMA OutcomeRefined ==
    TypeOK /\ OnceInv /\ OutcomeInv /\ [Next]_vars
        => [Outcome!Next]_<<Answered, deleted, told>>
<1> SUFFICES ASSUME TypeOK, OnceInv, OutcomeInv, [Next]_vars
             PROVE  Outcome!Next \/ UNCHANGED <<Answered, deleted, told>>
  OBVIOUS
<1>1. CASE UNCHANGED <<request, deleted, told>>
  BY <1>1 DEF Answered
<1>2. ASSUME NEW r \in Requests, Replay(r), request[r] \in {"new", "looked"} PROVE Outcome!Next
  BY <1>2, ReplayRefines DEF Outcome!Next
<1>3. ASSUME NEW r \in Requests, Commit(r) PROVE Outcome!Next
  BY <1>3, CommitRefines DEF Outcome!Next
<1>4. ASSUME NEW r \in Requests, Refuse(r) PROVE Outcome!Next
  <2>1. Answered[r] = "none" /\ Answered' = [Answered EXCEPT ![r] = "refused"]
    BY <1>4, AnsweredAfter DEF Refuse, Answer, Answers, RequestSteps
  <2> QED
    BY <1>4, <2>1 DEF Outcome!Next, Outcome!Request, Outcome!Refuse, Refuse, delivery
<1>5. ASSUME NEW r \in Requests, NEW step \in {"looked", "inserted"},
             request[r] \in {"new", "looked"}, request' = [request EXCEPT ![r] = step],
             UNCHANGED <<deleted, told>>
      PROVE  UNCHANGED <<Answered, deleted, told>>
  BY <1>5, AnsweredAfter DEF Answers, RequestSteps
<1>6. ASSUME NEW r \in Requests, Lookup(r) \/ Insert(r) \/ InsertRaced(r)
      PROVE  Outcome!Next \/ UNCHANGED <<Answered, deleted, told>>
  BY <1>2, <1>5, <1>6 DEF Lookup, Insert, InsertRaced, Answer, delivery
<1>7. ASSUME NEW k \in Keys, DeletePlan(k) PROVE Outcome!Next
  BY <1>7 DEF DeletePlan, delivery, Answered, Outcome!Next, Outcome!Delete
<1>8. ASSUME NEW w \in Workers, NEW e \in Entries, Deliver(w, e)
      PROVE  Outcome!Next \/ UNCHANGED <<Answered, deleted, told>>
  BY <1>1, <1>8, TellRefines DEF Deliver
<1> QED
  BY <1>1, <1>3, <1>4, <1>6, <1>7, <1>8
     DEF Next, vars, WorkerStep, Claim, DeliveryFails, Finalize, FinalizeRemoved, WorkerDies,
         TimePasses, Withdraw, delivery

(* OutcomeSpec: the whole machinery implements PlanningOutcome, so a plan  *)
(* is made once per id, every answer agrees with it and is final, and      *)
(* nobody is told of what was not planned.                                 *)
THEOREM ImplementsOutcome == Spec => OutcomeSpec
<1>1. Init => Outcome!Init
  BY DEF Init, Outcome!Init, Answered, Answers
<1> QED
  BY <1>1, OutcomeRefined, TypeCorrect, OnceCorrect, OutcomeCorrect, PTL
     DEF Spec, OutcomeSpec, Outcome!Spec, Outcome!vars
=============================================================================
