--------------------------- MODULE PlanningOutbox ---------------------------
(***************************************************************************)
(* Planning submissions and the outbox of their side effects.  A manager   *)
(* submits executions and schedules under an id (submission_id) and may    *)
(* repeat the request; one transaction creates them, the row that answers  *)
(* repetitions and one outbox entry per effect: the broadcast to the       *)
(* establishment and a notification per execution and recipient.  Workers  *)
(* claim entries under a lease, carry them out one after the other, and    *)
(* save the outcome without another look at who holds the lease by then.   *)
(*                                                                         *)
(* Time is left to choice: a lease may lapse, and the wait after a failure *)
(* may end, at any moment.  Left out: what is planned, and who may plan.   *)
(***************************************************************************)
EXTENDS Integers, FiniteSets

CONSTANTS
    Requests,
    Keys,          \* submission ids, each of one member and for one plan
    KeyOf,
    IntentOf,      \* the request hash
    Entries,
    EntriesOf,     \* the outbox entries each request would create
    Notices,
    NoticeOf,      \* the message an entry sends: idempotency_key, or a broadcast
    Workers,
    MaxAttempts,   \* MAX_ATTEMPTS
    BatchSize,
    NoRequest,
    NoEntry

ASSUME PlanningAssumption ==
    /\ KeyOf \in [Requests -> Keys]
    /\ EntriesOf \in [Requests -> SUBSET Entries]
    /\ \A q, r \in Requests :
        EntriesOf[q] \cap EntriesOf[r] # {} =>
            KeyOf[q] = KeyOf[r] /\ IntentOf[q] = IntentOf[r]
    /\ NoticeOf \in [Entries -> Notices]
    /\ MaxAttempts \in Nat \ {0}
    /\ BatchSize \in Nat \ {0}
    /\ NoRequest \notin Requests
    /\ NoEntry \notin Entries

VARIABLES
    submission,  \* the request whose transaction inserted the row of each key
    deleted,     \* keys whose action plan was deleted, submissions included
    request,     \* where each request stands, or how it was answered
    outbox,      \* the ActionPlanPlanningOutboxEntry rows
    void,        \* entries nobody is to be told: the recipient may not see it
    told,        \* notices that were sent at least once
    worker       \* each run of process_action_plan_planning_outbox_batch

vars == <<submission, deleted, request, outbox, void, told, worker>>

Answers       == {"created", "replayed", "conflict", "refused"}
RequestSteps  == {"new", "looked", "inserted"} \cup Answers
EntryStatuses == {"absent", "pending", "processing", "processed", "failed", "removed"}

(* due: available_at or lease_expires_at has passed.  Attempts are counted *)
(* up to the maximum, which is all they are compared with.                 *)
Rows == [status : EntryStatuses, attempts : 0..MaxAttempts, due : BOOLEAN]

Row(status, attempts, due) == [status |-> status, attempts |-> attempts, due |-> due]

WorkerStates == [todo : SUBSET Entries, entry : Entries \cup {NoEntry}, ok : BOOLEAN]

Idle == [todo |-> {}, entry |-> NoEntry, ok |-> FALSE]

Init ==
    /\ submission = [k \in Keys |-> NoRequest]
    /\ deleted = {}
    /\ request = [r \in Requests |-> "new"]
    /\ outbox = [e \in Entries |-> Row("absent", 0, FALSE)]
    /\ void = {}
    /\ told = {}
    /\ worker = [w \in Workers |-> Idle]

delivery == <<void, told, worker>>

-----------------------------------------------------------------------------
(* A request.  Its transaction is open from the lookup to the commit.      *)

Answer(r, step) == request' = [request EXCEPT ![r] = step]

(* Seeded faults are named after the definition they would replace.        *)
SameIntent_AnyItems(q, r) == TRUE
SameIntent(q, r) == IntentOf[q] = IntentOf[r]

Replay(r) ==
    /\ submission[KeyOf[r]] # NoRequest
    /\ Answer(r, IF SameIntent(submission[KeyOf[r]], r) THEN "replayed" ELSE "conflict")
    /\ UNCHANGED <<submission, deleted, outbox, delivery>>

(* The view finds the plan before the transaction begins.                  *)
Lookup(r) ==
    /\ request[r] = "new"
    /\ KeyOf[r] \notin deleted
    /\ \/ Replay(r)
       \/ /\ submission[KeyOf[r]] = NoRequest
          /\ Answer(r, "looked")
          /\ UNCHANGED <<submission, deleted, outbox, delivery>>

(* An insert of the same key waits for the one that is not committed yet.  *)
KeyLocked(k) == \E q \in Requests : request[q] = "inserted" /\ KeyOf[q] = k

Insert_NotUnique(r) ==
    /\ request[r] = "looked"
    /\ Answer(r, "inserted")
    /\ UNCHANGED <<submission, deleted, outbox, delivery>>

Insert_TellsBeforeCommit(r) ==
    /\ request[r] = "looked"
    /\ ~KeyLocked(KeyOf[r])
    /\ submission[KeyOf[r]] = NoRequest
    /\ Answer(r, "inserted")
    /\ outbox' = [e \in Entries |->
                    IF e \in EntriesOf[r] THEN Row("pending", 0, TRUE) ELSE outbox[e]]
    /\ UNCHANGED <<submission, deleted, delivery>>

Insert(r) ==
    /\ request[r] = "looked"
    /\ ~KeyLocked(KeyOf[r])
    /\ submission[KeyOf[r]] = NoRequest
    /\ Answer(r, "inserted")
    /\ UNCHANGED <<submission, deleted, outbox, delivery>>

(* IntegrityError on the unique key: the savepoint is rolled back and the  *)
(* row of the other request looked up.                                     *)
InsertRaced(r) ==
    /\ request[r] = "looked"
    /\ ~KeyLocked(KeyOf[r])
    /\ Replay(r)

(* create_resources_from_planning_intent and the commit, which checks that *)
(* the plan still exists.                                                  *)
Commit(r) ==
    /\ request[r] = "inserted"
    /\ KeyOf[r] \notin deleted
    /\ submission' = [submission EXCEPT ![KeyOf[r]] = r]
    /\ outbox' = [e \in Entries |->
                    IF e \in EntriesOf[r]
                    THEN Row("pending", 0, TRUE)
                    ELSE outbox[e]]
    /\ Answer(r, "created")
    /\ UNCHANGED <<deleted, delivery>>

(* An item is refused, the plan is gone, or the process dies: nothing is   *)
(* left of the transaction.  One that dies before it has inserted anything *)
(* just takes no further step.                                             *)
Refuse(r) ==
    /\ request[r] = "inserted"
    /\ Answer(r, "refused")
    /\ UNCHANGED <<submission, deleted, outbox, delivery>>

(* delete_reusable_action_plan removes submissions and entries with it.    *)
DeletePlan(k) ==
    /\ k \notin deleted
    /\ deleted' = deleted \cup {k}
    /\ submission' = [submission EXCEPT ![k] = NoRequest]
    /\ outbox' = [e \in Entries |->
                    IF submission[k] # NoRequest /\ e \in EntriesOf[submission[k]]
                    THEN Row("removed", 0, FALSE) ELSE outbox[e]]
    /\ UNCHANGED <<request, delivery>>

-----------------------------------------------------------------------------
(* The outbox *)

Claimable_ForgetsLeases(row) ==
    /\ row.due
    /\ \/ row.status = "pending"
       \/ row.status = "failed" /\ row.attempts < MaxAttempts

Claimable(row) ==
    /\ row.due
    /\ \/ row.status \in {"pending", "processing"}
       \/ row.status = "failed" /\ row.attempts < MaxAttempts

OneMore(n) == IF n < MaxAttempts THEN n + 1 ELSE n

(* Rows another transaction holds are skipped, so any of them may be left. *)
Claim(w) ==
    /\ worker[w] = Idle
    /\ \E batch \in SUBSET {e \in Entries : Claimable(outbox[e])} :
        /\ batch # {}
        /\ Cardinality(batch) <= BatchSize
        /\ outbox' = [e \in Entries |->
                IF e \in batch
                THEN Row("processing", OneMore(outbox[e].attempts), FALSE)
                ELSE outbox[e]]
        /\ worker' = [worker EXCEPT ![w] = [Idle EXCEPT !.todo = batch]]
    /\ UNCHANGED <<submission, deleted, request, void, told>>

Took(w, e, ok) ==
    /\ e \in worker[w].todo
    /\ worker[w].entry = NoEntry
    /\ worker' = [worker EXCEPT ![w].entry = e, ![w].ok = ok]

(* A notice that exists already is not created again.                      *)
Deliver(w, e) ==
    /\ Took(w, e, TRUE)
    /\ told' = IF e \in void THEN told ELSE told \cup {NoticeOf[e]}
    /\ UNCHANGED <<submission, deleted, request, outbox, void>>

DeliveryFails_Swallowed(w, e) ==
    /\ Took(w, e, TRUE)
    /\ UNCHANGED <<submission, deleted, request, outbox, void, told>>

(* The channel layer is down, or the planner has left the establishment.   *)
DeliveryFails(w, e) ==
    /\ Took(w, e, FALSE)
    /\ UNCHANGED <<submission, deleted, request, outbox, void, told>>

(* After the last attempt available_at is not put off, but nothing reads   *)
(* it any more.                                                            *)
AfterFailure(row) == [row EXCEPT !.status = "failed", !.due = FALSE]

NextEntry(state, e) ==
    [state EXCEPT !.todo = @ \ {e}, !.entry = NoEntry, !.ok = FALSE]

(* The row is saved whatever it has become since it was claimed.           *)
Finalize(w) ==
    LET e == worker[w].entry
    IN  /\ e # NoEntry
        /\ outbox[e].status # "removed"
        /\ outbox' = [outbox EXCEPT ![e] =
                IF worker[w].ok THEN [@ EXCEPT !.status = "processed", !.due = FALSE]
                ELSE AfterFailure(@)]
        /\ worker' = [worker EXCEPT ![w] =
                IF @.todo = {e} THEN Idle ELSE NextEntry(@, e)]
        /\ UNCHANGED <<submission, deleted, request, void, told>>

(* There is no row to save: the error ends the batch, and what is left of  *)
(* it waits for its leases to lapse.                                       *)
FinalizeRemoved(w) ==
    /\ worker[w].entry # NoEntry
    /\ outbox[worker[w].entry].status = "removed"
    /\ worker' = [worker EXCEPT ![w] = Idle]
    /\ UNCHANGED <<submission, deleted, request, outbox, void, told>>

WorkerDies(w) ==
    /\ worker[w] # Idle
    /\ worker' = [worker EXCEPT ![w] = Idle]
    /\ UNCHANGED <<submission, deleted, request, outbox, void, told>>

(* A lease lapses, also under a worker that is only slow, or the wait      *)
(* after a failure ends.                                                   *)
TimePasses(e) ==
    /\ \/ outbox[e].status = "processing"
       \/ outbox[e].status = "failed" /\ outbox[e].attempts < MaxAttempts
    /\ ~outbox[e].due
    /\ outbox' = [outbox EXCEPT ![e].due = TRUE]
    /\ UNCHANGED <<submission, deleted, request, delivery>>

(* The recipient leaves, or may not see the execution any more.            *)
Withdraw(e) ==
    /\ e \notin void
    /\ void' = void \cup {e}
    /\ UNCHANGED <<submission, deleted, request, outbox, told, worker>>

-----------------------------------------------------------------------------
WorkerStep(w) ==
    \/ \E e \in Entries : Deliver(w, e) \/ DeliveryFails(w, e)
    \/ Finalize(w) \/ FinalizeRemoved(w)

Next ==
    \/ \E r \in Requests :
        Lookup(r) \/ Insert(r) \/ InsertRaced(r) \/ Commit(r) \/ Refuse(r)
    \/ \E k \in Keys : DeletePlan(k)
    \/ \E w \in Workers : Claim(w) \/ WorkerStep(w) \/ WorkerDies(w)
    \/ \E e \in Entries : TimePasses(e) \/ Withdraw(e)

Spec == Init /\ [][Next]_vars

(* Beat starts a batch every minute, a batch goes on unless it dies, and   *)
(* batches do not die forever.                                             *)
Fairness ==
    /\ <>[][\A w \in Workers : ~WorkerDies(w)]_vars
    /\ WF_vars(\E w \in Workers : Claim(w))
    /\ \A w \in Workers : WF_vars(WorkerStep(w))
    /\ \A e \in Entries : WF_vars(TimePasses(e))

FairSpec == Spec /\ Fairness
-----------------------------------------------------------------------------
TypeOK ==
    /\ submission \in [Keys -> Requests \cup {NoRequest}]
    /\ deleted \subseteq Keys
    /\ request \in [Requests -> RequestSteps]
    /\ outbox \in [Entries -> Rows]
    /\ void \subseteq Entries
    /\ told \subseteq Notices
    /\ worker \in [Workers -> WorkerStates]

(* What was planned under one id is created once, also when the request is *)
(* repeated while the first one runs and after its plan was deleted.       *)
CarriedOutOnce ==
    \A q, r \in Requests :
        request[q] = "created" /\ request[r] = "created" /\ KeyOf[q] = KeyOf[r] => q = r

(* A request that created nothing is answered with what another one of the *)
(* same id and the same content created, and told a conflict only when the *)
(* contents differ ("replays without false conflict").                     *)
RepeatsReplayed ==
    \A r \in Requests : request[r] \in {"replayed", "conflict"} =>
        \E q \in Requests :
            /\ request[q] = "created" /\ KeyOf[q] = KeyOf[r]
            /\ (request[r] = "replayed") <=> (IntentOf[q] = IntentOf[r])

(* An effect is marked processed only once its notice exists, whichever of *)
(* two workers with the same entry saves last, and also when two           *)
(* executions share one notice.                                            *)
ProcessedMeansTold ==
    \A e \in Entries :
        outbox[e].status = "processed" => NoticeOf[e] \in told \/ e \in void

Answered == [r \in Requests |-> IF request[r] \in Answers THEN request[r] ELSE "none"]

NoticesOf == [r \in Requests |-> {NoticeOf[e] : e \in EntriesOf[r]}]

Outcome == INSTANCE PlanningOutcome WITH answer <- Answered

(* Requests, deletions and workers together implement the promise: one     *)
(* creation per id, answers that agree with it, and nobody is told of what *)
(* was rolled back, or of a plan that was never made.                      *)
OutcomeSpec == Outcome!Spec

Settled(row) ==
    \/ row.status \in {"absent", "processed", "removed"}
    \/ row.status = "failed" /\ row.attempts = MaxAttempts

(* No effect is left behind by a crash, a lapsed lease or a batch that an  *)
(* earlier entry ended: from some time on each is carried out, removed or  *)
(* given up after MaxAttempts, for good.                                   *)
EntriesSettle == \A e \in Entries : <>[]Settled(outbox[e])
=============================================================================
