-------------------------- MODULE SignalExecution --------------------------
(***************************************************************************)
(* The signals an establishment works on and the action-plan executions    *)
(* linked to them.  Each command is one transaction that locks the signal  *)
(* (with the signals created from the same observation, where it closes    *)
(* one) before it reads the status, so it is one action.  The coupling is  *)
(* in what the commands do to each other: creating an execution puts its   *)
(* signal in progress, finishing or canceling one may resolve or reopen    *)
(* the signal, resolving a signal cancels its executions, and qualifying a *)
(* signal may merge it into another, executions included.                  *)
(*                                                                         *)
(* Left out: who may run a command, the journal, notifications, points,    *)
(* the plans and tasks of an execution, and executions with no signal.     *)
(***************************************************************************)
EXTENDS Integers, FiniteSets

CONSTANTS
    Observations,
    Signals,       \* every signal the pipeline may create
    Executions,    \* every linked execution that may be created
    CreatedFrom,   \* the observation each signal is CREATED_FROM
    NoSignal,
    PinLimit       \* SIGNAL_FEED_PIN_LIMIT

ASSUME SignalAssumption ==
    /\ CreatedFrom \in [Signals -> Observations]
    /\ NoSignal \notin Signals
    /\ PinLimit \in Nat
    /\ IsFiniteSet(Signals)

VARIABLES
    processed,   \* observations whose AI output has been applied
    media,       \* observations whose photos are still stored
    status,      \* Signal.status; absent before, merged after the row is gone
    pinned,      \* signals with is_pinned
    pending,     \* signals with a pending SignalResolutionRequest
    exec         \* the ActionPlanExecution rows

vars == <<processed, media, status, pinned, pending, exec>>

Active   == {"open", "in_progress", "interesting"}   \* ACTIVE_SIGNAL_STATUSES
Pinnable == {"open", "interesting"}                  \* PINNABLE_SIGNAL_STATUSES
Syncable == {"open", "in_progress"}                  \* CANCEL_RESOLVE_SIGNAL_STATUSES
Blocking == {"scheduled", "in_progress", "pending_validation"}

SignalStatuses == Active \cup {"absent", "resolved", "canceled", "merged"}
ExecutionRows  == [status : Blocking \cup {"absent", "done", "canceled"},
                   signal : Signals \cup {NoSignal}, validates : BOOLEAN]

Init ==
    /\ processed = {}
    /\ media = Observations
    /\ status = [s \in Signals |-> "absent"]
    /\ pinned = {}
    /\ pending = {}
    /\ exec = [e \in Executions |->
                 [status |-> "absent", signal |-> NoSignal, validates |-> FALSE]]

Linked(rows, s) == {e \in Executions : rows[e].signal = s}
IsBlocked(rows, s) == \E e \in Linked(rows, s) : rows[e].status \in Blocking

(* The last active signal created from an observation takes its photos     *)
(* with it (_maybe_delete_created_from_media_under_locks).                 *)
LastActive(s) ==
    \A r \in Signals \ {s} :
        CreatedFrom[r] = CreatedFrom[s] => status[r] \notin Active

(* Seeded faults are named after the definition they would replace.        *)
MediaAfterClosing_Always(s) == media \ {CreatedFrom[s]}
MediaAfterClosing_Never(s) == media
MediaAfterClosing(s) == IF LastActive(s) THEN media \ {CreatedFrom[s]} ELSE media

Close(s, to) ==
    /\ status' = [status EXCEPT ![s] = to]
    /\ pinned' = pinned \ {s}
    /\ pending' = pending \ {s}
    /\ media' = MediaAfterClosing(s)
    /\ UNCHANGED processed

-----------------------------------------------------------------------------
(* apply_pipeline_output.  new are the signals its candidates create;      *)
(* joins says where the first candidate that joins an active signal stands *)
(* in the list: nowhere, before every creating one, or after one.  Joining *)
(* deletes the photos unless a signal created from them is active already. *)
Orders == {"none", "before", "after"}

ApplyPipelineOutput(o, new, joins) ==
    /\ o \notin processed
    /\ \A s \in new : status[s] = "absent" /\ CreatedFrom[s] = o
    /\ joins # "none" => \E s \in Signals : status[s] \in Active
    /\ joins = "after" => new # {}
    /\ processed' = processed \cup {o}
    /\ status' = [s \in Signals |-> IF s \in new THEN "open" ELSE status[s]]
    /\ media' = IF joins = "before" THEN media \ {o} ELSE media
    /\ UNCHANGED <<pinned, pending, exec>>

Pin_OneTooMany(s) ==
    /\ status[s] \in Pinnable
    /\ s \notin pinned
    /\ Cardinality(pinned) <= PinLimit
    /\ pinned' = pinned \cup {s}
    /\ UNCHANGED <<processed, media, status, pending, exec>>

Pin(s) ==
    /\ status[s] \in Pinnable
    /\ s \notin pinned
    /\ Cardinality(pinned) < PinLimit
    /\ pinned' = pinned \cup {s}
    /\ UNCHANGED <<processed, media, status, pending, exec>>

ReplacePin(s, r) ==
    /\ status[s] \in Pinnable
    /\ s \notin pinned
    /\ r \in pinned /\ status[r] \in Pinnable
    /\ pinned' = (pinned \ {r}) \cup {s}
    /\ UNCHANGED <<processed, media, status, pending, exec>>

(* The view reads the status before this transaction, so it may be stale.  *)
Unpin(s) ==
    /\ s \in pinned
    /\ pinned' = pinned \ {s}
    /\ UNCHANGED <<processed, media, status, pending, exec>>

MarkInteresting_KeepsRequest(s) ==
    /\ status[s] = "open"
    /\ status' = [status EXCEPT ![s] = "interesting"]
    /\ UNCHANGED <<processed, media, pinned, pending, exec>>

MarkInteresting(s) ==
    /\ status[s] = "open"
    /\ status' = [status EXCEPT ![s] = "interesting"]
    /\ pending' = pending \ {s}
    /\ UNCHANGED <<processed, media, pinned, exec>>

CancelSignal_WhateverActive(s) ==
    /\ status[s] \in Active
    /\ Close(s, "canceled")
    /\ UNCHANGED exec

CancelSignal(s) ==
    /\ status[s] \in {"open", "interesting"}
    /\ Close(s, "canceled")
    /\ UNCHANGED exec

WorkCanceled_Forgotten(s) == exec

(* _cancel_linked_active_executions_for_signal_resolve *)
WorkCanceled(s) ==
    [e \in Executions |->
        IF exec[e].signal = s /\ exec[e].status \in Blocking
        THEN [exec[e] EXCEPT !.status = "canceled"] ELSE exec[e]]

ResolveSignal(s) ==
    /\ status[s] = "open"
    /\ Close(s, "resolved")
    /\ exec' = WorkCanceled(s)

RequestResolution(s) ==
    /\ status[s] = "open"
    /\ s \notin pending
    /\ ~IsBlocked(exec, s)
    /\ pending' = pending \cup {s}
    /\ UNCHANGED <<processed, media, status, pinned, exec>>

ApproveRequest(s) ==
    /\ s \in pending
    /\ status[s] = "open"
    /\ ~IsBlocked(exec, s)
    /\ Close(s, "resolved")
    /\ exec' = WorkCanceled(s)

(* Rejected by a reviewer or withdrawn by its author. *)
CloseRequest(s) ==
    /\ s \in pending
    /\ pending' = pending \ {s}
    /\ UNCHANGED <<processed, media, status, pinned, exec>>

(* merge_signal_into_resolved: the executions move, and the row of the     *)
(* absorbed signal is deleted with its pin and its pending request.        *)
Moved(s, t) ==
    [e \in Executions |->
        IF exec[e].signal = s THEN [exec[e] EXCEPT !.signal = t] ELSE exec[e]]

CanMerge_AnyTarget(s, t) == s # t /\ status[s] \in Active /\ status[t] \notin {"absent", "merged"}
CanMerge(s, t) == s # t /\ status[s] \in Active /\ status[t] \in Active

Merge(s, t) ==
    /\ CanMerge(s, t)
    /\ status' = [status EXCEPT ![s] = "merged"]
    /\ pinned' = pinned \ {s}
    /\ pending' = pending \ {s}
    /\ exec' = Moved(s, t)
    /\ UNCHANGED <<processed, media>>
-----------------------------------------------------------------------------
(* create_action_plan_with_execution for the signal s.  When s has no      *)
(* responsible business unit it is qualified first, which may merge it     *)
(* into t; the execution is then created for t, otherwise t is s.          *)
CreateExecution(e, s, t, row) ==
    /\ exec[e].status = "absent"
    /\ status[s] \in Active
    /\ t # s => CanMerge(s, t)
    /\ row \in [status : {"scheduled", "in_progress"}, signal : {t},
                validates : BOOLEAN]
    /\ exec' = [Moved(s, t) EXCEPT ![e] = row]
    /\ status' = [r \in Signals |-> CASE r = t -> "in_progress"
                                      [] r = s /\ r # t -> "merged"
                                      [] OTHER -> status[r]]
    /\ pinned' = pinned \ {s, t}
    /\ pending' = IF status[t] = "open" THEN pending \ {s, t} ELSE pending \ ({s} \ {t})
    /\ UNCHANGED <<processed, media>>

(* _promote_one_execution, when start_at is reached *)
StartExecution(e) ==
    /\ exec[e].status = "scheduled"
    /\ exec' = [exec EXCEPT ![e].status = "in_progress"]
    /\ UNCHANGED <<processed, media, status, pinned, pending>>

SyncSignal_IgnoresRunningWork(s, after) ==
    /\ exec' = after
    /\ \/ /\ status[s] \notin Syncable
          /\ UNCHANGED <<processed, media, status, pinned, pending>>
       \/ /\ status[s] \in Syncable
          /\ \A e \in Linked(after, s) : after[e].status = "canceled"
          /\ status' = [status EXCEPT ![s] = "open"]
          /\ UNCHANGED <<processed, media, pinned, pending>>
       \/ /\ status[s] \in Syncable
          /\ \E e \in Linked(after, s) : after[e].status = "done"
          /\ Close(s, "resolved")

(* sync_signal_after_execution_change, once the rows are as in after. *)
SyncSignal(s, after) ==
    /\ exec' = after
    /\ \/ /\ \/ IsBlocked(after, s)
             \/ status[s] \notin Syncable
          /\ UNCHANGED <<processed, media, status, pinned, pending>>
       \/ /\ status[s] \in Syncable
          /\ \A e \in Linked(after, s) : after[e].status = "canceled"
          /\ status' = [status EXCEPT ![s] = "open"]
          /\ pinned' = IF status[s] = "open" THEN pinned ELSE pinned \ {s}
          /\ UNCHANGED <<processed, media, pending>>
       \/ /\ status[s] \in Syncable
          /\ ~IsBlocked(after, s)
          /\ \E e \in Linked(after, s) : after[e].status = "done"
          /\ Close(s, "resolved")

Advance(e, to) == SyncSignal(exec[e].signal, [exec EXCEPT ![e].status = to])

MarkDone(e) ==
    /\ exec[e].status = "in_progress"
    /\ ~exec[e].validates
    /\ Advance(e, "done")

MarkDoneToValidate(e) ==
    /\ exec[e].status = "in_progress"
    /\ exec[e].validates
    /\ exec' = [exec EXCEPT ![e].status = "pending_validation"]
    /\ UNCHANGED <<processed, media, status, pinned, pending>>

ValidateExecution(e) ==
    /\ exec[e].status = "pending_validation"
    /\ Advance(e, "done")

(* The branch for a resolved signal is in the code; that nothing reaches   *)
(* it is part of LifecycleSpec.                                            *)
ReopenExecution(e) ==
    LET s == exec[e].signal IN
    /\ exec[e].status = "pending_validation"
    /\ exec' = [exec EXCEPT ![e].status = "in_progress"]
    /\ status' = IF status[s] = "resolved"
                 THEN [status EXCEPT ![s] = "in_progress"] ELSE status
    /\ UNCHANGED <<processed, media, pinned, pending>>

CancelExecution_WithoutSync(e) ==
    /\ exec[e].status \in Blocking
    /\ exec' = [exec EXCEPT ![e].status = "canceled"]
    /\ UNCHANGED <<processed, media, status, pinned, pending>>

CancelExecution(e) ==
    /\ exec[e].status \in Blocking
    /\ Advance(e, "canceled")

SignalCommand ==
    \/ \E o \in Observations, new \in SUBSET Signals, joins \in Orders :
        ApplyPipelineOutput(o, new, joins)
    \/ \E s \in Signals :
        \/ Pin(s) \/ Unpin(s) \/ MarkInteresting(s)
        \/ CancelSignal(s) \/ ResolveSignal(s)
        \/ RequestResolution(s) \/ ApproveRequest(s) \/ CloseRequest(s)
    \/ \E s, t \in Signals : ReplacePin(s, t) \/ Merge(s, t)

ExecutionCommand ==
    \/ \E e \in Executions, s, t \in Signals, row \in ExecutionRows :
        CreateExecution(e, s, t, row)
    \/ \E e \in Executions :
        \/ StartExecution(e) \/ MarkDone(e) \/ MarkDoneToValidate(e)
        \/ ValidateExecution(e) \/ ReopenExecution(e) \/ CancelExecution(e)

Next == SignalCommand \/ ExecutionCommand

Spec == Init /\ [][Next]_vars

-----------------------------------------------------------------------------
(* Three habits under which the documents keep their word: work is merged  *)
(* only onto a signal in progress, ...                                     *)
MergeKeepsWorkHeld ==
    \A e \in Executions :
        exec[e].status \in Blocking /\ exec'[e].signal # exec[e].signal =>
            status'[exec'[e].signal] = "in_progress"

(* ... the signal that is merged away is not the last active one of its    *)
(* observation, ...                                                        *)
MergeSparesLastActive ==
    \A s \in Signals : status[s] # "merged" /\ status'[s] = "merged" => ~LastActive(s)

(* ... and the AI lists a candidate that creates before those that join.   *)
CreatesBeforeJoining ==
    \A o \in processed' \ processed :
        o \in media' \/ \A s \in Signals : CreatedFrom[s] = o => status'[s] = status[s]

SpecCareful ==
    Init /\ [][Next /\ MergeKeepsWorkHeld /\ MergeSparesLastActive
                    /\ CreatesBeforeJoining]_vars
-----------------------------------------------------------------------------
TypeOK ==
    /\ processed \subseteq Observations
    /\ media \subseteq Observations
    /\ status \in [Signals -> SignalStatuses]
    /\ pinned \subseteq Signals
    /\ pending \subseteq Signals
    /\ exec \in [Executions -> ExecutionRows]

(* The establishment never shows more pins than the limit, and whatever    *)
(* takes a signal out of the pinnable statuses also removes its pin.       *)
PinsLimited ==
    /\ Cardinality(pinned) <= PinLimit
    /\ \A s \in pinned : status[s] \in Pinnable

(* A request to resolve waits for review only while its signal is open:    *)
(* every command that leaves open ends the request too.                    *)
PendingOnlyWhileOpen == \A s \in pending : status[s] = "open"

(* A signal in progress can only be closed through its executions, so one  *)
(* of them must still be running or nothing could ever close it.           *)
InProgressHasWork == \A s \in Signals : status[s] = "in_progress" => IsBlocked(exec, s)

(* Nobody is left working on a resolved signal, however it was resolved:   *)
(* by hand, by an approved request, by its last execution.                 *)
ResolvedHasNoWork == \A s \in Signals : status[s] = "resolved" => ~IsBlocked(exec, s)

DecidedByWork ==
    \A s \in Signals : status[s] = "in_progress" =>
        /\ status'[s] = "resolved" =>
            /\ ~IsBlocked(exec', s)
            /\ \E e \in Linked(exec', s) : exec'[e].status = "done"
        /\ status'[s] = "open" =>
            \A e \in Linked(exec', s) : exec'[e].status = "canceled"

(* A signal in progress is never resolved while work runs or without work  *)
(* done, and goes back to open only when all its work was canceled.        *)
WorkDecides == [][DecidedByWork]_vars

Lifecycle == INSTANCE SignalLifecycle

(* The commands together implement the lifecycle: a closed signal stays    *)
(* closed, reopening an execution included.                                *)
LifecycleSpec == Lifecycle!Spec

(* "Blocking executions hold Signal in in_progress"                        *)
BlockingHoldsSignal ==
    \A e \in Executions : exec[e].status \in Blocking =>
        status[exec[e].signal] = "in_progress"

(* The photos of an observation stay until the last active signal created  *)
(* from it is closed.                                                      *)
PhotosKeptWhileActive ==
    \A s \in Signals : status[s] \in Active => CreatedFrom[s] \in media

(* "Observation media when the last active CREATED_FROM signal             *)
(* disappears": once all the signals created from an observation are gone  *)
(* its photos are not kept.                                                *)
PhotosGoWithLastSignal ==
    \A s \in Signals :
        /\ status[s] # "absent"
        /\ \A r \in Signals : CreatedFrom[r] = CreatedFrom[s] => status[r] \notin Active
        => CreatedFrom[s] \notin media
=============================================================================
