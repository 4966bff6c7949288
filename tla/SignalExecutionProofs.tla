----------------------- MODULE SignalExecutionProofs -----------------------
(***************************************************************************)
(* Proofs about SignalExecution for any signals, observations, executions  *)
(* and pin limit.                                                          *)
(***************************************************************************)
EXTENDS SignalExecution, FiniteSetTheorems, TLAPS

-----------------------------------------------------------------------------
(* Type correctness                                                        *)

(* Closing a signal yields a well-typed state, whatever exec becomes. *)
LEMMA CloseType ==
    ASSUME TypeOK, NEW s \in Signals, NEW to \in {"resolved", "canceled"},
           Close(s, to)
    PROVE  /\ processed' \subseteq Observations
           /\ media' \subseteq Observations
           /\ status' \in [Signals -> SignalStatuses]
           /\ pinned' \subseteq Signals
           /\ pending' \subseteq Signals
BY DEF TypeOK, Close, MediaAfterClosing, SignalStatuses, Active

(* Moving or canceling executions keeps their rows well typed. *)
LEMMA RowsType ==
    ASSUME TypeOK, NEW s \in Signals, NEW t \in Signals
    PROVE  /\ Moved(s, t) \in [Executions -> ExecutionRows]
           /\ WorkCanceled(s) \in [Executions -> ExecutionRows]
<1>1. \A e \in Executions :
        /\ [exec[e] EXCEPT !.signal = t] \in ExecutionRows
        /\ [exec[e] EXCEPT !.status = "canceled"] \in ExecutionRows
  BY DEF TypeOK, ExecutionRows
<1>2. \A e \in Executions : exec[e] \in ExecutionRows
  BY DEF TypeOK
<1> QED  BY <1>1, <1>2 DEF Moved, WorkCanceled

(* A row keeps its type when its status advances. *)
LEMMA StatusType ==
    ASSUME TypeOK, NEW e \in Executions,
           NEW to \in Blocking \cup {"done", "canceled"}
    PROVE  [exec EXCEPT ![e].status = to] \in [Executions -> ExecutionRows]
BY DEF TypeOK, ExecutionRows

(* Every execution that exists is linked to a signal: the rows modelled    *)
(* are those created with a source signal, and a merge gives them another. *)
RowsLinked ==
    \A e \in Executions : exec[e].status # "absent" => exec[e].signal \in Signals

(* Synchronising a signal yields a well-typed state. *)
LEMMA AdvanceType ==
    ASSUME TypeOK, RowsLinked, NEW e \in Executions, exec[e].status # "absent",
           NEW to \in {"done", "canceled"}, Advance(e, to)
    PROVE  TypeOK'
<1> DEFINE s == exec[e].signal
           after == [exec EXCEPT ![e].status = to]
<1>1. s \in Signals
  BY DEF RowsLinked
<1>2. exec' \in [Executions -> ExecutionRows]
  BY StatusType DEF Advance, SyncSignal
<1>3. CASE UNCHANGED <<processed, media, status, pinned, pending>>
  BY <1>2, <1>3 DEF TypeOK
<1>4. CASE /\ status' = [status EXCEPT ![s] = "open"]
           /\ pinned' = IF status[s] = "open" THEN pinned ELSE pinned \ {s}
           /\ UNCHANGED <<processed, media, pending>>
  BY <1>1, <1>2, <1>4 DEF TypeOK, SignalStatuses, Active
<1>5. CASE Close(s, "resolved")
  BY <1>1, <1>2, <1>5, CloseType DEF TypeOK
<1> QED  BY <1>3, <1>4, <1>5 DEF Advance, SyncSignal

(* TypeOK and RowsLinked are inductive together. *)
LEMMA TypeStep == TypeOK /\ RowsLinked /\ [Next]_vars => TypeOK'
<1> SUFFICES ASSUME TypeOK, RowsLinked, [Next]_vars PROVE TypeOK'
  OBVIOUS
<1>1. CASE UNCHANGED vars
  BY <1>1 DEF TypeOK, vars
<1>2. ASSUME NEW o \in Observations, NEW new \in SUBSET Signals,
             NEW joins \in Orders, ApplyPipelineOutput(o, new, joins)
      PROVE  TypeOK'
  BY <1>2 DEF TypeOK, ApplyPipelineOutput, SignalStatuses, Active
<1>3. ASSUME NEW s \in Signals,
             Pin(s) \/ Unpin(s) \/ MarkInteresting(s) \/ RequestResolution(s)
             \/ CloseRequest(s)
      PROVE  TypeOK'
  BY <1>3 DEF TypeOK, Pin, Unpin, MarkInteresting, RequestResolution,
              CloseRequest, SignalStatuses, Active
<1>4. ASSUME NEW s \in Signals, CancelSignal(s) \/ ResolveSignal(s) \/ ApproveRequest(s)
      PROVE  TypeOK'
  <2>1. exec' \in [Executions -> ExecutionRows]
    BY <1>4, RowsType DEF TypeOK, CancelSignal, ResolveSignal, ApproveRequest
  <2>2. Close(s, "canceled") \/ Close(s, "resolved")
    BY <1>4 DEF CancelSignal, ResolveSignal, ApproveRequest
  <2> QED  BY <2>1, <2>2, CloseType DEF TypeOK
<1>5. ASSUME NEW s \in Signals, NEW t \in Signals, ReplacePin(s, t)
      PROVE  TypeOK'
  BY <1>5 DEF TypeOK, ReplacePin
<1>6. ASSUME NEW s \in Signals, NEW t \in Signals, Merge(s, t)
      PROVE  TypeOK'
  BY <1>6, RowsType DEF TypeOK, Merge, SignalStatuses
<1>7. ASSUME NEW e \in Executions, NEW s \in Signals, NEW t \in Signals,
             NEW row \in ExecutionRows, CreateExecution(e, s, t, row)
      PROVE  TypeOK'
  <2>1. exec' \in [Executions -> ExecutionRows]
    BY <1>7, RowsType DEF CreateExecution
  <2>2. status' \in [Signals -> SignalStatuses]
    <3>1. \A r \in Signals :
            (CASE r = t -> "in_progress"
               [] r = s /\ r # t -> "merged"
               [] OTHER -> status[r]) \in SignalStatuses
      BY DEF TypeOK, SignalStatuses, Active
    <3> QED  BY <1>7, <3>1 DEF CreateExecution
  <2> QED  BY <1>7, <2>1, <2>2 DEF TypeOK, CreateExecution
<1>8. ASSUME NEW e \in Executions, StartExecution(e) \/ MarkDoneToValidate(e)
      PROVE  TypeOK'
  <2>1. \A to \in {"in_progress", "pending_validation"} :
          [exec EXCEPT ![e].status = to] \in [Executions -> ExecutionRows]
    BY StatusType DEF Blocking
  <2>2. exec' \in [Executions -> ExecutionRows]
    BY <1>8, <2>1 DEF StartExecution, MarkDoneToValidate
  <2> QED  BY <1>8, <2>2 DEF TypeOK, StartExecution, MarkDoneToValidate
<1>9. ASSUME NEW e \in Executions, ReopenExecution(e)
      PROVE  TypeOK'
  BY <1>9, StatusType DEF TypeOK, ReopenExecution, Blocking, SignalStatuses, Active
<1>10. ASSUME NEW e \in Executions,
              MarkDone(e) \/ ValidateExecution(e) \/ CancelExecution(e)
       PROVE  TypeOK'
  BY <1>10, AdvanceType DEF MarkDone, ValidateExecution, CancelExecution, Blocking
<1> QED
  BY <1>1, <1>2, <1>3, <1>4, <1>5, <1>6, <1>7, <1>8, <1>9, <1>10
     DEF Next, SignalCommand, ExecutionCommand

-----------------------------------------------------------------------------
(* Pins, requests and work                                                 *)

(* What one execution's step does to the rows. *)
LEMMA RowsAfter ==
    ASSUME TypeOK, NEW e \in Executions, NEW to,
           exec' = [exec EXCEPT ![e].status = to]
    PROVE  \A x \in Executions :
             /\ exec'[x].signal = exec[x].signal
             /\ exec'[x].status = IF x = e THEN to ELSE exec[x].status
             /\ exec'[x].validates = exec[x].validates
BY DEF TypeOK, ExecutionRows

LEMMA RowsAfterMove ==
    ASSUME TypeOK, NEW s \in Signals, NEW t \in Signals
    PROVE  \A x \in Executions :
             /\ Moved(s, t)[x].signal = IF exec[x].signal = s THEN t ELSE exec[x].signal
             /\ Moved(s, t)[x].status = exec[x].status
BY DEF TypeOK, ExecutionRows, Moved

LEMMA RowsAfterCancel ==
    ASSUME TypeOK, NEW s \in Signals
    PROVE  \A x \in Executions :
             /\ WorkCanceled(s)[x].signal = exec[x].signal
             /\ WorkCanceled(s)[x].status =
                  IF exec[x].signal = s /\ exec[x].status \in Blocking
                  THEN "canceled" ELSE exec[x].status
BY DEF TypeOK, ExecutionRows, WorkCanceled

LEMMA RowsAfterCreate ==
    ASSUME TypeOK, NEW e \in Executions, NEW s \in Signals, NEW t \in Signals,
           NEW row \in ExecutionRows, CreateExecution(e, s, t, row)
    PROVE  /\ exec'[e].signal = t /\ exec'[e].status \in Blocking
           /\ \A x \in Executions \ {e} :
                /\ exec'[x].signal = IF exec[x].signal = s THEN t ELSE exec[x].signal
                /\ exec'[x].status = exec[x].status
           /\ \A r \in Signals \ {s, t} : status'[r] = status[r]
           /\ status'[t] = "in_progress"
           /\ s # t => status'[s] = "merged"
<1>1. Moved(s, t) \in [Executions -> ExecutionRows]
  BY RowsType
<1>2. exec' = [Moved(s, t) EXCEPT ![e] = row]
  BY DEF CreateExecution
<1>3. row.signal = t /\ row.status \in Blocking
  BY DEF CreateExecution, Blocking
<1>4. exec'[e] = row /\ \A x \in Executions \ {e} : exec'[x] = Moved(s, t)[x]
  BY <1>1, <1>2
<1>5. status' = [r \in Signals |-> CASE r = t -> "in_progress"
                                      [] r = s /\ r # t -> "merged"
                                      [] OTHER -> status[r]]
  BY DEF CreateExecution
<1> QED  BY <1>3, <1>4, <1>5, RowsAfterMove

(* Executions stay linked to signals. *)
LEMMA LinkedStep == TypeOK /\ RowsLinked /\ [Next]_vars => RowsLinked'
<1> SUFFICES ASSUME TypeOK, RowsLinked, [Next]_vars PROVE RowsLinked'
  OBVIOUS
<1>1. CASE UNCHANGED exec
  BY <1>1 DEF RowsLinked
<1>2. ASSUME NEW e \in Executions, exec[e].status # "absent", NEW to,
             exec' = [exec EXCEPT ![e].status = to]
      PROVE  RowsLinked'
  BY <1>2, RowsAfter DEF RowsLinked
<1>3. ASSUME NEW s \in Signals, exec' = WorkCanceled(s)
      PROVE  RowsLinked'
  BY <1>3, RowsAfterCancel DEF RowsLinked
<1>4. ASSUME NEW s \in Signals, NEW t \in Signals, exec' = Moved(s, t)
      PROVE  RowsLinked'
  BY <1>4, RowsAfterMove DEF RowsLinked
<1>5. ASSUME NEW e \in Executions, NEW s \in Signals, NEW t \in Signals,
             NEW row \in ExecutionRows, CreateExecution(e, s, t, row)
      PROVE  RowsLinked'
  BY <1>5, RowsAfterCreate DEF RowsLinked
<1>6. CASE SignalCommand
  BY <1>1, <1>3, <1>4, <1>6
     DEF SignalCommand, ApplyPipelineOutput, Pin, Unpin, MarkInteresting,
         CancelSignal, ResolveSignal, RequestResolution, ApproveRequest,
         CloseRequest, ReplacePin, Merge
<1>7. ASSUME NEW e \in Executions,
             \/ StartExecution(e) \/ MarkDone(e) \/ MarkDoneToValidate(e)
             \/ ValidateExecution(e) \/ ReopenExecution(e) \/ CancelExecution(e)
      PROVE  RowsLinked'
  BY <1>2, <1>7 DEF StartExecution, MarkDone, MarkDoneToValidate, ValidateExecution,
      ReopenExecution, CancelExecution, Advance, SyncSignal, Blocking
<1> QED
  BY <1>1, <1>5, <1>6, <1>7 DEF Next, vars, ExecutionCommand

(* TypeOK: every reachable state is well typed. *)
THEOREM TypeCorrect == Spec => []TypeOK
<1>1. Init => TypeOK /\ RowsLinked
  BY DEF Init, TypeOK, RowsLinked, SignalStatuses, ExecutionRows, Active
<1>2. TypeOK /\ RowsLinked /\ [Next]_vars => (TypeOK /\ RowsLinked)'
  BY TypeStep, LinkedStep
<1> QED  BY <1>1, <1>2, PTL DEF Spec
-----------------------------------------------------------------------------
Work == InProgressHasWork /\ ResolvedHasNoWork

(* Work in progress and resolved signals stay consistent through every     *)
(* command that leaves the executions as they are.                         *)
LEMMA WorkSignalStep ==
    ASSUME TypeOK, RowsLinked, Work, SignalCommand
    PROVE  Work'
<1>1. ASSUME NEW o \in Observations, NEW new \in SUBSET Signals,
             NEW joins \in Orders, ApplyPipelineOutput(o, new, joins)
      PROVE  Work'
  BY <1>1 DEF TypeOK, Work, InProgressHasWork, ResolvedHasNoWork, ApplyPipelineOutput
<1>2. ASSUME NEW s \in Signals,
             Pin(s) \/ Unpin(s) \/ RequestResolution(s) \/ CloseRequest(s)
      PROVE  Work'
  BY <1>2 DEF Work, InProgressHasWork, ResolvedHasNoWork, Pin, Unpin,
              RequestResolution, CloseRequest
<1>3. ASSUME NEW s \in Signals, MarkInteresting(s) \/ CancelSignal(s)
      PROVE  Work'
  <2>1. UNCHANGED exec /\ \E to \in {"interesting", "canceled"} :
            status' = [status EXCEPT ![s] = to]
    BY <1>3 DEF MarkInteresting, CancelSignal, Close
  <2> QED  BY <2>1 DEF TypeOK, Work, InProgressHasWork, ResolvedHasNoWork
<1>4. ASSUME NEW s \in Signals, ResolveSignal(s) \/ ApproveRequest(s)
      PROVE  Work'
  <2>1. exec' = WorkCanceled(s) /\ status' = [status EXCEPT ![s] = "resolved"]
    BY <1>4 DEF ResolveSignal, ApproveRequest, Close
  <2>2. ~IsBlocked(exec', s)
    BY <2>1, RowsAfterCancel DEF IsBlocked, Linked, Blocking
  <2>3. \A r \in Signals \ {s} : IsBlocked(exec', r) <=> IsBlocked(exec, r)
    BY <2>1, RowsAfterCancel DEF IsBlocked, Linked
  <2> QED  BY <2>1, <2>2, <2>3 DEF TypeOK, Work, InProgressHasWork, ResolvedHasNoWork
<1>5. ASSUME NEW s \in Signals, NEW t \in Signals, ReplacePin(s, t)
      PROVE  Work'
  BY <1>5 DEF Work, InProgressHasWork, ResolvedHasNoWork, ReplacePin
<1>6. ASSUME NEW s \in Signals, NEW t \in Signals, Merge(s, t)
      PROVE  Work'
  <2>1. /\ exec' = Moved(s, t) /\ status' = [status EXCEPT ![s] = "merged"]
        /\ s # t /\ status[t] \in Active
    BY <1>6 DEF Merge, CanMerge
  <2>2. \A r \in Signals \ {s, t} : IsBlocked(exec', r) <=> IsBlocked(exec, r)
    BY <2>1, RowsAfterMove DEF IsBlocked, Linked
  <2>3. IsBlocked(exec, t) => IsBlocked(exec', t)
    BY <2>1, RowsAfterMove DEF IsBlocked, Linked
  <2> QED
    BY <2>1, <2>2, <2>3 DEF TypeOK, Work, InProgressHasWork, ResolvedHasNoWork, Active
<1> QED  BY <1>1, <1>2, <1>3, <1>4, <1>5, <1>6 DEF SignalCommand

(* ... and through every command on an execution. *)
LEMMA WorkExecutionStep ==
    ASSUME TypeOK, RowsLinked, Work, ExecutionCommand
    PROVE  Work'
<1>1. ASSUME NEW e \in Executions, NEW s \in Signals, NEW t \in Signals,
             NEW row \in ExecutionRows, CreateExecution(e, s, t, row)
      PROVE  Work'
  <2>1. exec[e].status = "absent"
    BY <1>1 DEF CreateExecution
  <2>2. \A r \in Signals \ {s, t} : IsBlocked(exec', r) <=> IsBlocked(exec, r)
    BY <1>1, <2>1, RowsAfterCreate DEF IsBlocked, Linked, Blocking
  <2>3. IsBlocked(exec', t)
    BY <1>1, RowsAfterCreate DEF IsBlocked, Linked
  <2> QED
    BY <1>1, <2>2, <2>3, RowsAfterCreate DEF Work, InProgressHasWork, ResolvedHasNoWork
<1>2. ASSUME NEW e \in Executions,
             StartExecution(e) \/ MarkDoneToValidate(e) \/ ReopenExecution(e)
      PROVE  Work'
  <2>1. exec[e].status \in Blocking /\ \E to \in Blocking :
            exec' = [exec EXCEPT ![e].status = to]
    BY <1>2 DEF StartExecution, MarkDoneToValidate, ReopenExecution, Blocking
  <2>2. \A r \in Signals : IsBlocked(exec', r) <=> IsBlocked(exec, r)
    BY <2>1, RowsAfter DEF IsBlocked, Linked
  <2>3. exec[e].signal \in Signals
    BY <2>1 DEF RowsLinked, Blocking
  <2>4. status[exec[e].signal] # "resolved"
    BY <2>1, <2>3 DEF Work, ResolvedHasNoWork, IsBlocked, Linked
  <2>5. UNCHANGED status
    BY <1>2, <2>4 DEF StartExecution, MarkDoneToValidate, ReopenExecution
  <2> QED  BY <2>2, <2>5 DEF Work, InProgressHasWork, ResolvedHasNoWork
<1>3. ASSUME NEW e \in Executions,
             MarkDone(e) \/ ValidateExecution(e) \/ CancelExecution(e)
      PROVE  Work'
  <2> DEFINE s == exec[e].signal
  <2>1. /\ exec[e].status \in Blocking
        /\ \E to \in {"done", "canceled"} : Advance(e, to)
    BY <1>3 DEF MarkDone, ValidateExecution, CancelExecution, Blocking
  <2>2. PICK to \in {"done", "canceled"} : Advance(e, to)
    BY <2>1
  <2>3. s \in Signals
    BY <2>1 DEF RowsLinked, Blocking
  <2>4. exec' = [exec EXCEPT ![e].status = to]
    BY <2>2 DEF Advance, SyncSignal
  <2>5. \A r \in Signals \ {s} : IsBlocked(exec', r) <=> IsBlocked(exec, r)
    BY <2>4, RowsAfter DEF IsBlocked, Linked
  <2>6. IsBlocked(exec', s) => IsBlocked(exec, s)
    BY <2>1, <2>4, RowsAfter DEF IsBlocked, Linked, Blocking
  <2>7. CASE UNCHANGED status /\ (IsBlocked(exec', s) \/ status[s] \notin Syncable)
    BY <2>3, <2>5, <2>6, <2>7
       DEF Work, InProgressHasWork, ResolvedHasNoWork, Syncable
  <2>8. CASE status' = [status EXCEPT ![s] = "open"]
    BY <2>3, <2>5, <2>8 DEF TypeOK, Work, InProgressHasWork, ResolvedHasNoWork
  <2>9. CASE Close(s, "resolved") /\ ~IsBlocked(exec', s)
    BY <2>3, <2>5, <2>9 DEF TypeOK, Work, InProgressHasWork, ResolvedHasNoWork, Close
  <2> QED  BY <2>2, <2>4, <2>7, <2>8, <2>9 DEF Advance, SyncSignal
<1> QED  BY <1>1, <1>2, <1>3 DEF ExecutionCommand

IInv == TypeOK /\ RowsLinked /\ Work

LEMMA IInvInit == Init => IInv
BY DEF Init, IInv, TypeOK, RowsLinked, Work, InProgressHasWork, ResolvedHasNoWork,
       SignalStatuses, ExecutionRows, Active

LEMMA IInvStep == IInv /\ [Next]_vars => IInv'
<1> SUFFICES ASSUME IInv, [Next]_vars PROVE Work'
  BY TypeStep, LinkedStep DEF IInv
<1>1. CASE UNCHANGED vars
  BY <1>1 DEF IInv, Work, InProgressHasWork, ResolvedHasNoWork, vars
<1> QED  BY <1>1, WorkSignalStep, WorkExecutionStep DEF IInv, Next

(* InProgressHasWork: a signal in progress always has a running execution, *)
(* so some command can still close it.                                     *)
THEOREM InProgressCorrect == Spec => []InProgressHasWork
<1>1. IInv => InProgressHasWork
  BY DEF IInv, Work
<1> QED  BY <1>1, IInvInit, IInvStep, PTL DEF Spec

(* ResolvedHasNoWork: nothing runs for a resolved signal. *)
THEOREM ResolvedCorrect == Spec => []ResolvedHasNoWork
<1>1. IInv => ResolvedHasNoWork
  BY DEF IInv, Work
<1> QED  BY <1>1, IInvInit, IInvStep, PTL DEF Spec
-----------------------------------------------------------------------------
(* What a step does to the status of a signal                              *)

(* The ways one execution's end may move its signal. *)
LEMMA AdvanceMoves ==
    ASSUME IInv, NEW e \in Executions, exec[e].status \in Blocking,
           NEW to \in {"done", "canceled"}, Advance(e, to)
    PROVE  \/ UNCHANGED status
           \/ /\ status[exec[e].signal] = "in_progress"
              /\ status' = [status EXCEPT ![exec[e].signal] = "open"]
              /\ \A x \in Linked(exec', exec[e].signal) : exec'[x].status = "canceled"
           \/ /\ status[exec[e].signal] \in Syncable
              /\ status' = [status EXCEPT ![exec[e].signal] = "resolved"]
              /\ ~IsBlocked(exec', exec[e].signal)
              /\ \E x \in Linked(exec', exec[e].signal) : exec'[x].status = "done"
<1> DEFINE s == exec[e].signal
<1>1. s \in Signals
  BY DEF IInv, RowsLinked, Blocking
<1>2. CASE /\ status[s] \in Syncable
           /\ \A x \in Linked(exec', s) : exec'[x].status = "canceled"
           /\ status' = [status EXCEPT ![s] = "open"]
  <2>1. CASE status[s] = "open"
    BY <1>1, <1>2, <2>1 DEF IInv, TypeOK
  <2>2. CASE status[s] = "in_progress"
    BY <1>2, <2>2
  <2> QED  BY <1>2, <2>1, <2>2 DEF Syncable
<1>3. exec' = [exec EXCEPT ![e].status = to]
  BY DEF Advance, SyncSignal
<1> QED  BY <1>2, <1>3 DEF Advance, SyncSignal, Close

(* A reopened execution never finds its signal resolved. *)
LEMMA ReopenMoves ==
    ASSUME IInv, NEW e \in Executions, ReopenExecution(e)
    PROVE  UNCHANGED status
<1>1. exec[e].status \in Blocking /\ exec[e].signal \in Signals
  BY DEF IInv, RowsLinked, ReopenExecution, Blocking
<1>2. status[exec[e].signal] # "resolved"
  BY <1>1 DEF IInv, Work, ResolvedHasNoWork, IsBlocked, Linked
<1> QED  BY <1>2 DEF ReopenExecution

LEMMA MovesAllowed == IInv /\ [Next]_vars => [Lifecycle!Next]_status
<1> USE DEF Lifecycle!Next, Lifecycle!Moves
<1> SUFFICES ASSUME IInv, [Next]_vars, status' # status PROVE Lifecycle!Next
  OBVIOUS
<1>1. status' \in [Signals -> Lifecycle!Statuses]
  <2>1. TypeOK'
    BY TypeStep DEF IInv
  <2>2. SignalStatuses \subseteq Lifecycle!Statuses
    <3>1. \A m \in Lifecycle!Moves : m[1] \in Lifecycle!Statuses /\ m[2] \in Lifecycle!Statuses
      BY DEF Lifecycle!Statuses
    <3> QED  BY <3>1 DEF SignalStatuses, Active
  <2> QED  BY <2>1, <2>2 DEF TypeOK
<1> SUFFICES \A s \in Signals :
        status'[s] = status[s] \/ <<status[s], status'[s]>> \in Lifecycle!Moves
  BY <1>1
<1>2. ASSUME NEW o \in Observations, NEW new \in SUBSET Signals,
             NEW joins \in Orders, ApplyPipelineOutput(o, new, joins)
      PROVE  \A s \in Signals :
                status'[s] = status[s] \/ <<status[s], status'[s]>> \in Lifecycle!Moves
  BY <1>2 DEF ApplyPipelineOutput
<1>3. ASSUME NEW s \in Signals, NEW to, status' = [status EXCEPT ![s] = to],
             <<status[s], to>> \in Lifecycle!Moves
      PROVE  \A r \in Signals :
                status'[r] = status[r] \/ <<status[r], status'[r]>> \in Lifecycle!Moves
  BY <1>3 DEF IInv, TypeOK
<1>4. ASSUME NEW e \in Executions, NEW s \in Signals, NEW t \in Signals,
             NEW row \in ExecutionRows, CreateExecution(e, s, t, row)
      PROVE  \A r \in Signals :
                status'[r] = status[r] \/ <<status[r], status'[r]>> \in Lifecycle!Moves
  <2>1. status[s] \in Active /\ status[t] \in Active
    BY <1>4 DEF CreateExecution, CanMerge
  <2> QED  BY <1>4, <2>1, RowsAfterCreate DEF IInv, Active
<1>5. ASSUME NEW s \in Signals,
             MarkInteresting(s) \/ CancelSignal(s) \/ ResolveSignal(s) \/ ApproveRequest(s)
      PROVE  \A r \in Signals :
                status'[r] = status[r] \/ <<status[r], status'[r]>> \in Lifecycle!Moves
  <2>1. \E to \in {"interesting", "canceled", "resolved"} :
            status' = [status EXCEPT ![s] = to] /\ <<status[s], to>> \in Lifecycle!Moves
    BY <1>5 DEF MarkInteresting, CancelSignal, ResolveSignal, ApproveRequest, Close
  <2> QED  BY <2>1, <1>3
<1>6. ASSUME NEW s \in Signals, NEW t \in Signals, Merge(s, t)
      PROVE  \A r \in Signals :
                status'[r] = status[r] \/ <<status[r], status'[r]>> \in Lifecycle!Moves
  <2>1. status' = [status EXCEPT ![s] = "merged"] /\ <<status[s], "merged">> \in Lifecycle!Moves
    BY <1>6 DEF Merge, CanMerge, Active
  <2> QED  BY <2>1, <1>3
<1>7. ASSUME NEW e \in Executions,
             MarkDone(e) \/ ValidateExecution(e) \/ CancelExecution(e)
      PROVE  \A r \in Signals :
                status'[r] = status[r] \/ <<status[r], status'[r]>> \in Lifecycle!Moves
  <2>1. exec[e].status \in Blocking /\ \E to \in {"done", "canceled"} : Advance(e, to)
    BY <1>7 DEF MarkDone, ValidateExecution, CancelExecution, Blocking
  <2>2. exec[e].signal \in Signals
    BY <2>1 DEF IInv, RowsLinked, Blocking
  <2>3. \E to \in {"open", "resolved"} :
            /\ status' = [status EXCEPT ![exec[e].signal] = to]
            /\ <<status[exec[e].signal], to>> \in Lifecycle!Moves
    BY <2>1, AdvanceMoves DEF Syncable
  <2> QED  BY <2>2, <2>3, <1>3
<1> QED
  BY <1>2, <1>4, <1>5, <1>6, <1>7, ReopenMoves
     DEF Next, vars, SignalCommand, ExecutionCommand, Pin, Unpin, RequestResolution,
         CloseRequest, ReplacePin, StartExecution, MarkDoneToValidate

(* LifecycleSpec: SignalExecution implements SignalLifecycle.              *)
THEOREM ImplementsLifecycle == Spec => LifecycleSpec
<1>1. Init => Lifecycle!Init
  BY DEF Init, Lifecycle!Init
<1> QED
  BY <1>1, IInvInit, IInvStep, MovesAllowed, PTL DEF Spec, LifecycleSpec, Lifecycle!Spec

(* A signal in progress is resolved only by finished work and reopened     *)
(* only when all of it was canceled.                                       *)
LEMMA DecidedByWorkStep == IInv /\ [Next]_vars => DecidedByWork
<1> SUFFICES ASSUME IInv, [Next]_vars, status' # status PROVE DecidedByWork
  BY DEF DecidedByWork
<1> USE DEF DecidedByWork
<1>1. ASSUME NEW o \in Observations, NEW new \in SUBSET Signals,
             NEW joins \in Orders, ApplyPipelineOutput(o, new, joins)
      PROVE  DecidedByWork
  BY <1>1 DEF ApplyPipelineOutput
<1>2. ASSUME NEW s \in Signals,
             MarkInteresting(s) \/ CancelSignal(s) \/ ResolveSignal(s) \/ ApproveRequest(s)
      PROVE  DecidedByWork
  BY <1>2 DEF IInv, TypeOK, MarkInteresting, CancelSignal, ResolveSignal,
              ApproveRequest, Close
<1>3. ASSUME NEW s \in Signals, NEW t \in Signals, Merge(s, t)
      PROVE  DecidedByWork
  BY <1>3 DEF IInv, TypeOK, Merge
<1>4. ASSUME NEW e \in Executions, NEW s \in Signals, NEW t \in Signals,
             NEW row \in ExecutionRows, CreateExecution(e, s, t, row)
      PROVE  DecidedByWork
  BY <1>4, RowsAfterCreate DEF IInv
<1>5. ASSUME NEW e \in Executions,
             MarkDone(e) \/ ValidateExecution(e) \/ CancelExecution(e)
      PROVE  DecidedByWork
  <2>1. exec[e].status \in Blocking /\ \E to \in {"done", "canceled"} : Advance(e, to)
    BY <1>5 DEF MarkDone, ValidateExecution, CancelExecution, Blocking
  <2>2. exec[e].signal \in Signals
    BY <2>1 DEF IInv, RowsLinked, Blocking
  <2> QED  BY <2>1, <2>2, AdvanceMoves DEF IInv, TypeOK
<1> QED
  BY <1>1, <1>2, <1>3, <1>4, <1>5, ReopenMoves
     DEF Next, vars, SignalCommand, ExecutionCommand, Pin, Unpin, RequestResolution,
         CloseRequest, ReplacePin, StartExecution, MarkDoneToValidate

(* WorkDecides holds of every execution of the specification. *)
THEOREM WorkDecidesCorrect == Spec => WorkDecides
<1>1. IInv /\ [Next]_vars => [DecidedByWork]_vars
  BY DecidedByWorkStep
<1> QED  BY <1>1, IInvInit, IInvStep, PTL DEF Spec, WorkDecides

-----------------------------------------------------------------------------
(* Pins and resolution requests                                            *)

(* Every command that takes a signal out of open ends its request.         *)
LEMMA PendingStep ==
    IInv /\ PendingOnlyWhileOpen /\ [Next]_vars => PendingOnlyWhileOpen'
<1> SUFFICES ASSUME IInv, PendingOnlyWhileOpen, [Next]_vars
             PROVE  PendingOnlyWhileOpen'
  OBVIOUS
<1> USE DEF PendingOnlyWhileOpen
<1>0. TypeOK
  BY DEF IInv
<1>1. CASE UNCHANGED <<status, pending>>
  BY <1>1
<1>2. ASSUME NEW o \in Observations, NEW new \in SUBSET Signals,
             NEW joins \in Orders, ApplyPipelineOutput(o, new, joins)
      PROVE  PendingOnlyWhileOpen'
  BY <1>0, <1>2 DEF TypeOK, ApplyPipelineOutput
<1>3. ASSUME NEW s \in Signals,
             \/ MarkInteresting(s) \/ CancelSignal(s) \/ ResolveSignal(s)
             \/ RequestResolution(s) \/ ApproveRequest(s) \/ CloseRequest(s)
      PROVE  PendingOnlyWhileOpen'
  BY <1>0, <1>3 DEF TypeOK, MarkInteresting, CancelSignal, ResolveSignal,
     RequestResolution, ApproveRequest, CloseRequest, Close
<1>4. ASSUME NEW s \in Signals, NEW t \in Signals, Merge(s, t)
      PROVE  PendingOnlyWhileOpen'
  BY <1>0, <1>4 DEF TypeOK, Merge
<1>5. ASSUME NEW e \in Executions, NEW s \in Signals, NEW t \in Signals,
             NEW row \in ExecutionRows, CreateExecution(e, s, t, row)
      PROVE  PendingOnlyWhileOpen'
  <2>1. s \notin pending' /\ t \notin pending' /\ pending' \subseteq pending
    <3>1. CASE status[t] = "open"
      BY <1>5, <3>1 DEF CreateExecution
    <3>2. CASE status[t] # "open"
      BY <1>5, <3>2 DEF CreateExecution
    <3> QED  BY <3>1, <3>2
  <2> QED  BY <1>0, <1>5, <2>1, RowsAfterCreate DEF TypeOK
<1>6. ASSUME NEW e \in Executions,
             MarkDone(e) \/ ValidateExecution(e) \/ CancelExecution(e)
      PROVE  PendingOnlyWhileOpen'
  <2>1. exec[e].status \in Blocking /\ \E to \in {"done", "canceled"} : Advance(e, to)
    BY <1>6 DEF MarkDone, ValidateExecution, CancelExecution, Blocking
  <2>2. exec[e].signal \in Signals
    BY <2>1 DEF IInv, RowsLinked, Blocking
  <2> QED  BY <1>0, <2>1, <2>2 DEF TypeOK, Advance, SyncSignal, Close
<1> QED
  BY <1>1, <1>2, <1>3, <1>4, <1>5, <1>6, ReopenMoves
     DEF Next, vars, SignalCommand, ExecutionCommand, Pin, Unpin, ReplacePin,
         StartExecution, MarkDoneToValidate, ReopenExecution

(* PendingOnlyWhileOpen: a request waits only for an open signal. *)
THEOREM PendingCorrect == Spec => []PendingOnlyWhileOpen
<1>1. Init => PendingOnlyWhileOpen
  BY DEF Init, PendingOnlyWhileOpen
<1> QED  BY <1>1, IInvInit, IInvStep, PendingStep, PTL DEF Spec

(* Only the two pin commands add a pin; each checks the limit or frees one. *)
LEMMA PinsStep == IInv /\ PinsLimited /\ [Next]_vars => PinsLimited'
<1> SUFFICES ASSUME IInv, PinsLimited, [Next]_vars PROVE PinsLimited'
  OBVIOUS
<1>0. TypeOK /\ TypeOK' /\ PinLimit \in Nat
  BY TypeStep, SignalAssumption DEF IInv
<1>1. IsFiniteSet(pinned) /\ Cardinality(pinned) \in Nat
  BY <1>0, FS_Subset, FS_CardinalityType, SignalAssumption DEF TypeOK
<1>2. ASSUME pinned' \subseteq pinned, \A s \in pinned' : status'[s] \in Pinnable
      PROVE  PinsLimited'
  <2>1. Cardinality(pinned') <= Cardinality(pinned) /\ Cardinality(pinned') \in Nat
    BY <1>1, <1>2, FS_Subset, FS_CardinalityType
  <2> QED  BY <1>0, <1>1, <1>2, <2>1 DEF PinsLimited
<1>3. ASSUME NEW s \in Signals, Pin(s)
      PROVE  PinsLimited'
  <2>1. Cardinality(pinned') = Cardinality(pinned) + 1
    BY <1>1, <1>3, FS_AddElement DEF Pin
  <2> QED  BY <1>0, <1>1, <1>3, <2>1 DEF Pin, PinsLimited
<1>4. ASSUME NEW s \in Signals, NEW r \in Signals, ReplacePin(s, r)
      PROVE  PinsLimited'
  <2>1. IsFiniteSet(pinned \ {r}) /\ Cardinality(pinned \ {r}) = Cardinality(pinned) - 1
    BY <1>1, <1>4, FS_RemoveElement DEF ReplacePin
  <2>2. Cardinality(pinned') = Cardinality(pinned \ {r}) + 1
    BY <1>4, <2>1, FS_AddElement DEF ReplacePin
  <2> QED  BY <1>0, <1>1, <1>4, <2>1, <2>2 DEF ReplacePin, PinsLimited
<1>5. CASE UNCHANGED <<status, pinned>>
  BY <1>5 DEF PinsLimited
<1>6. ASSUME NEW s \in Signals, Unpin(s)
      PROVE  PinsLimited'
  BY <1>2, <1>6 DEF Unpin, PinsLimited
<1>7. ASSUME NEW o \in Observations, NEW new \in SUBSET Signals,
             NEW joins \in Orders, ApplyPipelineOutput(o, new, joins)
      PROVE  PinsLimited'
  BY <1>0, <1>2, <1>7 DEF TypeOK, ApplyPipelineOutput, PinsLimited, Pinnable
<1>8. ASSUME NEW s \in Signals, MarkInteresting(s)
      PROVE  PinsLimited'
  BY <1>0, <1>2, <1>8 DEF TypeOK, MarkInteresting, PinsLimited, Pinnable
<1>9. ASSUME NEW s \in Signals, NEW to,
             status' = [status EXCEPT ![s] = to] /\ pinned' = pinned \ {s}
      PROVE  PinsLimited'
  BY <1>0, <1>2, <1>9 DEF TypeOK, PinsLimited
<1>10. ASSUME NEW e \in Executions, NEW s \in Signals, NEW t \in Signals,
              NEW row \in ExecutionRows, CreateExecution(e, s, t, row)
       PROVE  PinsLimited'
  <2>1. pinned' = pinned \ {s, t}
    BY <1>10 DEF CreateExecution
  <2> QED  BY <1>0, <1>2, <1>10, <2>1, RowsAfterCreate DEF TypeOK, PinsLimited
<1>11. ASSUME NEW e \in Executions,
              MarkDone(e) \/ ValidateExecution(e) \/ CancelExecution(e)
       PROVE  PinsLimited'
  <2> DEFINE s == exec[e].signal
  <2>1. exec[e].status \in Blocking /\ \E to \in {"done", "canceled"} : Advance(e, to)
    BY <1>11 DEF MarkDone, ValidateExecution, CancelExecution, Blocking
  <2>2. s \in Signals
    BY <2>1 DEF IInv, RowsLinked, Blocking
  <2>3. \/ UNCHANGED <<status, pinned>>
        \/ status' = [status EXCEPT ![s] = "open"] /\ pinned' \subseteq pinned
        \/ Close(s, "resolved")
    BY <2>1 DEF Advance, SyncSignal
  <2>4. CASE status' = [status EXCEPT ![s] = "open"] /\ pinned' \subseteq pinned
    BY <1>0, <1>2, <2>2, <2>4 DEF TypeOK, PinsLimited, Pinnable
  <2>5. CASE Close(s, "resolved")
    BY <1>9, <2>2, <2>5 DEF Close
  <2> QED  BY <1>5, <2>3, <2>4, <2>5
<1> QED
  BY <1>3, <1>4, <1>5, <1>6, <1>7, <1>8, <1>9, <1>10, <1>11, ReopenMoves
     DEF Next, vars, SignalCommand, ExecutionCommand, CancelSignal, ResolveSignal,
         ApproveRequest, Close, Merge, RequestResolution, CloseRequest,
         StartExecution, MarkDoneToValidate, ReopenExecution

(* PinsLimited: the limit holds and only pinnable signals are pinned. *)
THEOREM PinsCorrect == Spec => []PinsLimited
<1>1. Init => PinsLimited
  BY FS_EmptySet, SignalAssumption DEF Init, PinsLimited
<1> QED  BY <1>1, IInvInit, IInvStep, PinsStep, PTL DEF Spec
-----------------------------------------------------------------------------
(* Under the habits of SpecCareful, each theorem under those it needs      *)

SpecWorkHeld      == Init /\ [][Next /\ MergeKeepsWorkHeld]_vars
SpecCreatingFirst == Init /\ [][Next /\ CreatesBeforeJoining]_vars
SpecLastSpared    == Init /\ [][Next /\ MergeSparesLastActive]_vars

(* The specification a run checks allows less than each of them.           *)
LEMMA CarefulIsMore == SpecCareful => SpecWorkHeld /\ SpecCreatingFirst /\ SpecLastSpared
<1>1. [Next /\ MergeKeepsWorkHeld /\ MergeSparesLastActive /\ CreatesBeforeJoining]_vars
        => /\ [Next /\ MergeKeepsWorkHeld]_vars
           /\ [Next /\ CreatesBeforeJoining]_vars
           /\ [Next /\ MergeSparesLastActive]_vars
  OBVIOUS
<1> QED  BY <1>1, PTL DEF SpecCareful, SpecWorkHeld, SpecCreatingFirst, SpecLastSpared

(* A blocking execution belongs to a signal in progress: creating one puts *)
(* it in progress, and the signal leaves only when none is left.           *)
LEMMA HoldsStep ==
    IInv /\ BlockingHoldsSignal /\ [Next /\ MergeKeepsWorkHeld]_vars => BlockingHoldsSignal'
<1> SUFFICES ASSUME IInv, BlockingHoldsSignal, [Next /\ MergeKeepsWorkHeld]_vars
             PROVE  BlockingHoldsSignal'
  OBVIOUS
<1>0. TypeOK /\ RowsLinked
  BY DEF IInv
<1>1. CASE UNCHANGED <<status, exec>>
  BY <1>1 DEF BlockingHoldsSignal
<1>2. ASSUME NEW o \in Observations, NEW new \in SUBSET Signals,
             NEW joins \in Orders, ApplyPipelineOutput(o, new, joins)
      PROVE  BlockingHoldsSignal'
  BY <1>0, <1>2 DEF TypeOK, RowsLinked, Blocking, ApplyPipelineOutput, BlockingHoldsSignal
<1>3. ASSUME NEW s \in Signals, MarkInteresting(s) \/ CancelSignal(s)
      PROVE  BlockingHoldsSignal'
  <2>1. UNCHANGED exec /\ status[s] # "in_progress"
        /\ \A r \in Signals \ {s} : status'[r] = status[r]
    BY <1>0, <1>3 DEF TypeOK, MarkInteresting, CancelSignal, Close
  <2> QED  BY <1>0, <2>1 DEF RowsLinked, Blocking, BlockingHoldsSignal
<1>4. ASSUME NEW s \in Signals, ResolveSignal(s) \/ ApproveRequest(s)
      PROVE  BlockingHoldsSignal'
  <2>1. exec' = WorkCanceled(s) /\ \A r \in Signals \ {s} : status'[r] = status[r]
    BY <1>0, <1>4 DEF TypeOK, ResolveSignal, ApproveRequest, Close
  <2> QED
    BY <1>0, <2>1, RowsAfterCancel DEF RowsLinked, Blocking, BlockingHoldsSignal
<1>5. ASSUME NEW s \in Signals, NEW t \in Signals, Merge(s, t), MergeKeepsWorkHeld
      PROVE  BlockingHoldsSignal'
  <2>1. /\ exec' = Moved(s, t)
        /\ \A r \in Signals \ {s} : status'[r] = status[r]
    BY <1>0, <1>5 DEF TypeOK, Merge
  <2>2. \A x \in Executions :
          /\ exec'[x].signal = IF exec[x].signal = s THEN t ELSE exec[x].signal
          /\ exec'[x].status = exec[x].status
    BY <1>0, <2>1, RowsAfterMove
  <2>3. s # t
    BY <1>5 DEF Merge, CanMerge
  <2> QED
    BY <1>0, <1>5, <2>1, <2>2, <2>3
       DEF RowsLinked, Blocking, BlockingHoldsSignal, MergeKeepsWorkHeld
<1>6. ASSUME NEW e \in Executions, NEW s \in Signals, NEW t \in Signals,
             NEW row \in ExecutionRows, CreateExecution(e, s, t, row)
      PROVE  BlockingHoldsSignal'
  BY <1>0, <1>6, RowsAfterCreate DEF RowsLinked, Blocking, BlockingHoldsSignal
<1>7. ASSUME NEW e \in Executions,
             StartExecution(e) \/ MarkDoneToValidate(e) \/ ReopenExecution(e)
      PROVE  BlockingHoldsSignal'
  <2>1. /\ exec[e].status \in Blocking
        /\ \E to \in Blocking : exec' = [exec EXCEPT ![e].status = to]
    BY <1>7 DEF StartExecution, MarkDoneToValidate, ReopenExecution, Blocking
  <2>2. UNCHANGED status
    BY <1>7, ReopenMoves DEF StartExecution, MarkDoneToValidate
  <2> QED  BY <1>0, <2>1, <2>2, RowsAfter DEF BlockingHoldsSignal
<1>8. ASSUME NEW e \in Executions,
             MarkDone(e) \/ ValidateExecution(e) \/ CancelExecution(e)
      PROVE  BlockingHoldsSignal'
  <2> DEFINE s == exec[e].signal
  <2>1. exec[e].status \in Blocking /\ \E to \in {"done", "canceled"} : Advance(e, to)
    BY <1>8 DEF MarkDone, ValidateExecution, CancelExecution, Blocking
  <2>2. PICK to \in {"done", "canceled"} : Advance(e, to)
    BY <2>1
  <2>3. exec' = [exec EXCEPT ![e].status = to]
    BY <2>2 DEF Advance, SyncSignal
  <2>4. \A x \in Executions :
          /\ exec'[x].signal = exec[x].signal
          /\ exec'[x].status = IF x = e THEN to ELSE exec[x].status
    BY <1>0, <2>3 DEF TypeOK, ExecutionRows
  <2>5. CASE UNCHANGED status
    BY <2>4, <2>5 DEF BlockingHoldsSignal, Blocking
  <2>6. CASE /\ \E new \in {"open", "resolved"} : status' = [status EXCEPT ![s] = new]
             /\ ~IsBlocked(exec', s)
    BY <1>0, <2>4, <2>6
       DEF TypeOK, RowsLinked, BlockingHoldsSignal, IsBlocked, Linked, Blocking
  <2>7. (\A x \in Linked(exec', s) : exec'[x].status = "canceled") => ~IsBlocked(exec', s)
    BY DEF IsBlocked, Blocking
  <2> QED  BY <2>1, <2>2, <2>5, <2>6, <2>7, AdvanceMoves
<1> QED
  BY <1>1, <1>2, <1>3, <1>4, <1>5, <1>6, <1>7, <1>8
     DEF Next, vars, SignalCommand, ExecutionCommand, Pin, Unpin,
         RequestResolution, CloseRequest, ReplacePin

(* BlockingHoldsSignal: with merges that keep work held, running work      *)
(* always shows as a signal in progress.                                   *)
THEOREM BlockingHolds == SpecWorkHeld => []BlockingHoldsSignal
<1>1. Init => BlockingHoldsSignal
  BY DEF Init, BlockingHoldsSignal, Blocking
<1>2. IInv /\ [Next /\ MergeKeepsWorkHeld]_vars => IInv'
  BY IInvStep
<1> QED  BY <1>1, <1>2, IInvInit, HoldsStep, PTL DEF SpecWorkHeld

-----------------------------------------------------------------------------
(* Photos.  A signal exists only once the output of its observation is     *)
(* applied.                                                                *)
ExistsProcessed ==
    \A s \in Signals : status[s] # "absent" => CreatedFrom[s] \in processed

(* A step that touches no photo: at most one signal, s, is merged away,    *)
(* and the others that were active stay active.                            *)
PhotosAlone(s) ==
    /\ UNCHANGED <<processed, media>>
    /\ \A r \in Signals \ {s} :
        \/ status'[r] = status[r]
        \/ status[r] \in Active /\ status'[r] \in Active
    /\ \/ status'[s] = status[s]
       \/ status[s] \in Active /\ status'[s] \in Active \cup {"merged"}

ClosesSignal(s) ==
    status[s] \in Active /\ \E to \in {"resolved", "canceled"} : Close(s, to)

(* What the commands do to photos: an output is applied, a signal closed,  *)
(* or nothing.                                                             *)
LEMMA PhotoMoves ==
    ASSUME IInv, [Next]_vars
    PROVE  \/ UNCHANGED <<processed, media, status>>
           \/ \E o \in Observations, new \in SUBSET Signals, joins \in Orders :
                ApplyPipelineOutput(o, new, joins)
           \/ \E s \in Signals : ClosesSignal(s) \/ PhotosAlone(s)
<1>0. TypeOK /\ RowsLinked
  BY DEF IInv
<1>1. ASSUME NEW s \in Signals, CancelSignal(s) \/ ResolveSignal(s) \/ ApproveRequest(s)
      PROVE  ClosesSignal(s)
  BY <1>1 DEF CancelSignal, ResolveSignal, ApproveRequest, Active, ClosesSignal
<1>2. ASSUME NEW s \in Signals, MarkInteresting(s)
      PROVE  PhotosAlone(s)
  BY <1>0, <1>2 DEF TypeOK, MarkInteresting, Active, PhotosAlone
<1>3. ASSUME NEW s \in Signals, NEW t \in Signals, Merge(s, t)
      PROVE  PhotosAlone(s)
  BY <1>0, <1>3 DEF TypeOK, Merge, CanMerge, PhotosAlone
<1>4. ASSUME NEW e \in Executions, NEW s \in Signals, NEW t \in Signals,
             NEW row \in ExecutionRows, CreateExecution(e, s, t, row)
      PROVE  PhotosAlone(s)
  <2>1. /\ UNCHANGED <<processed, media>>
        /\ status[s] \in Active /\ status[t] \in Active
    BY <1>4 DEF CreateExecution, CanMerge
  <2>2. /\ \A r \in Signals \ {s, t} : status'[r] = status[r]
        /\ status'[t] \in Active
        /\ s # t => status'[s] = "merged"
    BY <1>0, <1>4, RowsAfterCreate DEF Active
  <2> QED  BY <2>1, <2>2 DEF PhotosAlone
<1>5. ASSUME NEW e \in Executions,
             MarkDone(e) \/ ValidateExecution(e) \/ CancelExecution(e)
      PROVE  \/ UNCHANGED <<processed, media, status>>
             \/ \E s \in Signals : ClosesSignal(s) \/ PhotosAlone(s)
  <2> DEFINE s == exec[e].signal
  <2>1. exec[e].status \in Blocking /\ \E to \in {"done", "canceled"} : Advance(e, to)
    BY <1>5 DEF MarkDone, ValidateExecution, CancelExecution, Blocking
  <2>2. s \in Signals
    BY <1>0, <2>1 DEF RowsLinked, Blocking
  <2>3. \/ UNCHANGED <<processed, media, status>>
        \/ /\ status[s] \in Syncable /\ status' = [status EXCEPT ![s] = "open"]
           /\ UNCHANGED <<processed, media>>
        \/ status[s] \in Syncable /\ Close(s, "resolved")
    BY <2>1 DEF Advance, SyncSignal
  <2>4. CASE /\ status[s] \in Syncable /\ status' = [status EXCEPT ![s] = "open"]
             /\ UNCHANGED <<processed, media>>
    <3>1. PhotosAlone(s)
      BY <1>0, <2>2, <2>4 DEF TypeOK, Syncable, Active, PhotosAlone
    <3> QED  BY <2>2, <3>1
  <2>5. CASE status[s] \in Syncable /\ Close(s, "resolved")
    <3>1. ClosesSignal(s)
      BY <2>5 DEF Syncable, Active, ClosesSignal
    <3> QED  BY <2>2, <3>1
  <2> QED  BY <2>3, <2>4, <2>5
<1> QED
  BY <1>1, <1>2, <1>3, <1>4, <1>5, ReopenMoves
     DEF Next, vars, SignalCommand, ExecutionCommand, Pin, Unpin,
         RequestResolution, CloseRequest, ReplacePin, StartExecution,
         MarkDoneToValidate, ReopenExecution

(* Closing a signal leaves the others as they are, and deletes the photos  *)
(* of its observation exactly when no other signal from it is active.      *)
LEMMA ClosingEffect ==
    ASSUME TypeOK, NEW s \in Signals, ClosesSignal(s)
    PROVE  /\ processed' = processed /\ status'[s] \in {"resolved", "canceled"}
           /\ \A r \in Signals \ {s} : status'[r] = status[r]
           /\ LastActive(s) => media' = media \ {CreatedFrom[s]}
           /\ ~LastActive(s) => media' = media
BY DEF TypeOK, ClosesSignal, Close, MediaAfterClosing

LEMMA OutputEffect ==
    ASSUME ExistsProcessed, NEW o \in Observations, NEW new \in SUBSET Signals,
           NEW joins \in Orders, ApplyPipelineOutput(o, new, joins)
    PROVE  /\ processed' = processed \cup {o} /\ o \notin processed
           /\ \A s \in new : status[s] = "absent" /\ CreatedFrom[s] = o
           /\ \A s \in Signals : status'[s] = IF s \in new THEN "open" ELSE status[s]
           /\ \A s \in Signals : CreatedFrom[s] = o => status[s] = "absent"
           /\ media \ {o} \subseteq media' /\ media' \subseteq media
BY DEF ApplyPipelineOutput, ExistsProcessed

LEMMA ExistsStep == IInv /\ ExistsProcessed /\ [Next]_vars => ExistsProcessed'
<1> SUFFICES ASSUME IInv, ExistsProcessed, [Next]_vars PROVE ExistsProcessed'
  OBVIOUS
<1> USE DEF ExistsProcessed
<1>0. TypeOK
  BY DEF IInv
<1>1. CASE UNCHANGED <<processed, media, status>>
  BY <1>1
<1>2. ASSUME NEW o \in Observations, NEW new \in SUBSET Signals,
             NEW joins \in Orders, ApplyPipelineOutput(o, new, joins)
      PROVE  ExistsProcessed'
  BY <1>2, OutputEffect
<1>3. ASSUME NEW s \in Signals, ClosesSignal(s) PROVE ExistsProcessed'
  BY <1>0, <1>3, ClosingEffect DEF ClosesSignal, Active
<1>4. ASSUME NEW s \in Signals, PhotosAlone(s) PROVE ExistsProcessed'
  BY <1>4 DEF PhotosAlone, Active
<1> QED  BY <1>1, <1>2, <1>3, <1>4, PhotoMoves

(* While the AI lists creating candidates first, ...                       *)
LEMMA KeptStep ==
    IInv /\ ExistsProcessed /\ PhotosKeptWhileActive /\ [Next /\ CreatesBeforeJoining]_vars
        => PhotosKeptWhileActive'
<1> SUFFICES ASSUME IInv, ExistsProcessed, PhotosKeptWhileActive,
                    [Next /\ CreatesBeforeJoining]_vars
             PROVE  PhotosKeptWhileActive'
  OBVIOUS
<1> USE DEF PhotosKeptWhileActive
<1>0. TypeOK
  BY DEF IInv
<1>1. CASE UNCHANGED <<processed, media, status>>
  BY <1>1
<1>2. ASSUME NEW o \in Observations, NEW new \in SUBSET Signals,
             NEW joins \in Orders, ApplyPipelineOutput(o, new, joins)
      PROVE  PhotosKeptWhileActive'
  <2>1. \A s \in new : CreatedFrom[s] \in media'
    BY <1>2, OutputEffect DEF vars, CreatesBeforeJoining
  <2> QED  BY <1>2, <2>1, OutputEffect DEF Active
<1>3. ASSUME NEW s \in Signals, ClosesSignal(s) PROVE PhotosKeptWhileActive'
  <2>1. status'[s] \notin Active
    BY <1>0, <1>3, ClosingEffect DEF Active
  <2> QED  BY <1>0, <1>3, <2>1, ClosingEffect DEF LastActive
<1>4. ASSUME NEW s \in Signals, PhotosAlone(s) PROVE PhotosKeptWhileActive'
  BY <1>4 DEF PhotosAlone, Active
<1> QED  BY <1>1, <1>2, <1>3, <1>4, PhotoMoves

(* ... and while the last active signal of an observation is not merged    *)
(* away.                                                                   *)
LEMMA GoStep ==
    IInv /\ ExistsProcessed /\ PhotosGoWithLastSignal /\ [Next /\ MergeSparesLastActive]_vars
        => PhotosGoWithLastSignal'
<1> SUFFICES ASSUME IInv, ExistsProcessed, PhotosGoWithLastSignal,
                    [Next /\ MergeSparesLastActive]_vars,
                    NEW s \in Signals, status'[s] # "absent",
                    \A r \in Signals : CreatedFrom[r] = CreatedFrom[s] => status'[r] \notin Active
             PROVE  CreatedFrom[s] \notin media'
  BY DEF PhotosGoWithLastSignal
<1>0. TypeOK
  BY DEF IInv
(* When none of the signals was active before either, the photos had gone. *)
<1>1. ASSUME status[s] # "absent", media' \subseteq media,
             \A r \in Signals : CreatedFrom[r] = CreatedFrom[s] => status[r] \notin Active
      PROVE  CreatedFrom[s] \notin media'
  BY <1>1 DEF PhotosGoWithLastSignal
<1>2. CASE UNCHANGED <<processed, media, status>>
  BY <1>1, <1>2
<1>3. ASSUME NEW o \in Observations, NEW new \in SUBSET Signals,
             NEW joins \in Orders, ApplyPipelineOutput(o, new, joins)
      PROVE  CreatedFrom[s] \notin media'
  <2>1. status'[s] = status[s]
    BY <1>3, OutputEffect DEF Active
  <2>2. CreatedFrom[s] # o
    <3>1. \A r \in Signals : CreatedFrom[r] = o => status[r] = "absent"
      BY <1>3, OutputEffect
    <3> QED  BY <2>1, <3>1
  <2>3. \A r \in Signals : CreatedFrom[r] = CreatedFrom[s] => status'[r] = status[r]
    BY <1>3, <2>2, OutputEffect
  <2> QED  BY <1>1, <1>3, <2>3, OutputEffect
<1>4. ASSUME NEW c \in Signals, ClosesSignal(c) PROVE CreatedFrom[s] \notin media'
  <2>1. media' \subseteq media /\ \A r \in Signals \ {c} : status'[r] = status[r]
    BY <1>0, <1>4, ClosingEffect
  <2>2. CASE CreatedFrom[c] # CreatedFrom[s]
    BY <1>1, <2>1, <2>2
  <2>3. CASE CreatedFrom[c] = CreatedFrom[s]
    BY <1>0, <1>4, <2>1, <2>3, ClosingEffect DEF LastActive
  <2> QED  BY <2>2, <2>3
<1>5. ASSUME NEW c \in Signals, PhotosAlone(c) PROVE CreatedFrom[s] \notin media'
  <2>1. CASE status'[c] = "merged" /\ status[c] # "merged"
    <3>1. PICK q \in Signals \ {c} : CreatedFrom[q] = CreatedFrom[c] /\ status[q] \in Active
      BY <2>1 DEF vars, MergeSparesLastActive, LastActive
    <3>2. status'[q] \in Active
      BY <1>5, <3>1 DEF PhotosAlone
    <3>3. CreatedFrom[c] # CreatedFrom[s]
      BY <3>1, <3>2
    <3> QED  BY <1>1, <1>5, <3>3 DEF PhotosAlone
  <2>2. CASE ~(status'[c] = "merged" /\ status[c] # "merged")
    BY <1>1, <1>5, <2>2 DEF PhotosAlone, Active
  <2> QED  BY <2>1, <2>2
<1> QED  BY <1>2, <1>3, <1>4, <1>5, PhotoMoves

LEMMA PhotosInit ==
    Init => ExistsProcessed /\ PhotosKeptWhileActive /\ PhotosGoWithLastSignal
BY SignalAssumption DEF Init, ExistsProcessed, PhotosKeptWhileActive,
   PhotosGoWithLastSignal, Active

(* PhotosKeptWhileActive: an active signal keeps the photos it came with,  *)
(* whatever is merged, when outputs create before they join.               *)
THEOREM PhotosKept == SpecCreatingFirst => []PhotosKeptWhileActive
<1>1. [Next /\ CreatesBeforeJoining]_vars => [Next]_vars
  OBVIOUS
<1> QED
  BY <1>1, IInvInit, IInvStep, PhotosInit, ExistsStep, KeptStep, PTL DEF SpecCreatingFirst

(* PhotosGoWithLastSignal: no photo outlives the signals created from it,  *)
(* when the last active one of them is not merged away.                    *)
THEOREM PhotosGo == SpecLastSpared => []PhotosGoWithLastSignal
<1>1. [Next /\ MergeSparesLastActive]_vars => [Next]_vars
  OBVIOUS
<1> QED
  BY <1>1, IInvInit, IInvStep, PhotosInit, ExistsStep, GoStep, PTL DEF SpecLastSpared
=============================================================================
