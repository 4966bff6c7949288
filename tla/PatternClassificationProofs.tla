--------------------- MODULE PatternClassificationProofs ---------------------
(***************************************************************************)
(* Theorems about PatternClassification, for any number of signals,        *)
(* patterns, labels, runs and owners, and any budget.                      *)
(***************************************************************************)
EXTENDS PatternClassification, TLAPS

LEMMA Constants ==
    /\ LastContent \in Nat /\ 0 \in Contents /\ Contents \subseteq Int
    /\ MaxProviderCalls \in Nat /\ NoContent \notin Contents
    /\ NoPattern \notin Patterns /\ NoLabel \notin Labels
  BY PatternAssumption DEF Contents, NoContent

LEMMA BlankTypes ==
    /\ NoRun \in RunRows
    /\ NoMerge \in MergeRows
    /\ NewAssignment \in Assignments
    /\ NoPatternRow \in PatternRows
    /\ \A l \in Labels : NewPattern(l) \in PatternRows
<1>1. (CHOOSE s \in Signals : TRUE) \in Signals
  BY PatternAssumption
<1>2. NoRun \in RunRows
  BY <1>1, Constants DEF NoRun, RunRows, RunSteps
<1>3. NoMerge \in MergeRows
  BY DEF NoMerge, MergeRows
<1>4. NewAssignment \in Assignments
  BY DEF NewAssignment, Assignments, Statuses, Sources, Errors
<1>5. NoPatternRow \in PatternRows /\ \A l \in Labels : NewPattern(l) \in PatternRows
  BY DEF NoPatternRow, NewPattern, PatternRows
<1> QED
  BY <1>2, <1>3, <1>4, <1>5

(* The pattern a run is about to write, and the two of a merge, are known. *)
Named ==
    /\ \A w \in Runs : run[w].at = "writing" => run[w].pattern \in Patterns
    /\ \A o \in Owners :
         merge[o].open => /\ merge[o].source \in Patterns /\ merge[o].target \in Patterns
                          /\ merge[o].source # merge[o].target

-----------------------------------------------------------------------------
(* What becomes of a row and of a run                                      *)

LEMMA TimedType ==
    ASSUME NEW r \in Assignments, NEW b \in BOOLEAN
    PROVE  [r EXCEPT !.published = b] \in Assignments /\ [r EXCEPT !.ripe = b] \in Assignments
  BY DEF Assignments

LEMMA FailedType ==
    ASSUME NEW r \in Assignments, NEW status \in Statuses, NEW error \in Errors
    PROVE  /\ Failed(r, status, error) \in Assignments
           /\ \A c \in Contents :
                [Failed(r, status, error) EXCEPT !.pending = c] \in Assignments
           /\ \A b \in BOOLEAN :
                [Failed(r, status, error) EXCEPT !.published = b] \in Assignments
  BY DEF Failed, Assignments

LEMMA ClaimedType ==
    ASSUME NEW r \in Assignments, NEW c \in Contents
    PROVE  Claimed(r, c) \in Assignments
<1>1. r.attempts + 1 \in Nat
  BY DEF Assignments
<1>2. \A n \in Nat : [r EXCEPT !.status = "processing", !.pending = c, !.attempts = n,
                               !.error = "none", !.ripe = FALSE] \in Assignments
  BY DEF Assignments, Statuses, Errors
<1> QED
  BY <1>1, <1>2 DEF Claimed

LEMMA AssignedType ==
    ASSUME NEW r \in Assignments, NEW p \in Patterns, NEW source \in Sources, NEW c \in Contents
    PROVE  Assigned(r, p, source, c) \in Assignments
  BY DEF Assigned, Assignments, Statuses, Errors

LEMMA CorrectedType ==
    ASSUME TypeOK, NEW s \in Signals, NEW p \in Patterns
    PROVE  Corrected(s, p) \in Assignments
<1> DEFINE r == assignment[s]
           bumped == [r EXCEPT !.attempts = IF r.status = "processing" THEN @ + 1 ELSE @]
<1>1. r \in Assignments /\ content[s] \in Contents
  BY DEF TypeOK
<1>2. bumped \in Assignments
  BY <1>1 DEF Assignments
<1>3. Assigned(bumped, p, "owner_correction", content[s]) \in Assignments
  BY <1>1, <1>2, AssignedType DEF Sources
<1> QED
  BY <1>3 DEF Corrected

LEMMA MovedType ==
    ASSUME TypeOK, NEW moved \in SUBSET Signals, NEW p \in Patterns
    PROVE  /\ Moved(moved, p) \in [Signals -> Assignments]
           /\ Seen(moved, p) \subseteq Patterns \X Establishments
<1>1. Moved(moved, p) \in [Signals -> Assignments]
  BY CorrectedType DEF Moved, TypeOK
<1>2. Seen(moved, p) \subseteq Patterns \X Establishments
  BY PatternAssumption DEF Seen
<1> QED
  BY <1>1, <1>2

(* The patterns an answer may reuse are active.                            *)
LEMMA ReusableActive ==
    ASSUME TypeOK, NEW w \in Runs
    PROVE  Reusable(w) \subseteq Active
<1>1. run[w].pattern \in Patterns \cup {NoPattern}
  BY DEF TypeOK, RunRows
<1> QED
  BY <1>1 DEF Reusable, ActiveTarget, Active

LEMMA RunType ==
    ASSUME TypeOK, NEW w \in Runs, NEW row \in RunRows
    PROVE  [run EXCEPT ![w] = row] \in [Runs -> RunRows]
  BY DEF TypeOK

LEMMA StepType ==
    ASSUME TypeOK, NEW w \in Runs, NEW step \in RunSteps
    PROVE  /\ [run[w] EXCEPT !.at = step] \in RunRows
           /\ [run[w] EXCEPT !.at = step, !.label = NoLabel, !.pattern = NoPattern] \in RunRows
           /\ \A p \in Patterns \cup {NoPattern} :
                /\ [run[w] EXCEPT !.at = step, !.pattern = p] \in RunRows
                /\ \A l \in Labels :
                     [run[w] EXCEPT !.at = step, !.label = l, !.pattern = p] \in RunRows
  BY DEF TypeOK, RunRows

LEMMA LoadsType ==
    ASSUME TypeOK, NEW w \in Runs, NEW s \in Signals, Loads(w, s)
    PROVE  run' \in [Runs -> RunRows]
<1> DEFINE row == [NoRun EXCEPT !.at = "loaded", !.signal = s, !.read = content[s]]
<1>1. content[s] \in Contents
  BY DEF TypeOK
<1>2. row \in RunRows
  BY <1>1, BlankTypes DEF RunRows, RunSteps
<1> QED
  BY <1>2, RunType DEF Loads

LEMMA EndType ==
    ASSUME TypeOK, NEW w \in Runs, End(w)
    PROVE  run' \in [Runs -> RunRows]
  BY BlankTypes, RunType DEF End

LEMMA RowType ==
    ASSUME TypeOK, NEW s \in Signals, NEW row \in Assignments
    PROVE  [assignment EXCEPT ![s] = row] \in [Signals -> Assignments]
  BY DEF TypeOK

LEMMA SendType ==
    ASSUME TypeOK, NEW s \in Signals, Send(s) \/ SendFails
    PROVE  waiting' \in [Signals -> Nat] /\ unconfirmed' \subseteq Signals
  BY DEF TypeOK, Send, SendFails

LEMMA SucceedsType ==
    ASSUME TypeOK, NEW w \in Runs, NEW s \in Signals, NEW p \in Patterns, Succeeds(w, s, p)
    PROVE  /\ assignment' \in [Signals -> Assignments]
           /\ sightings' \subseteq Patterns \X Establishments
           /\ run' \in [Runs -> RunRows]
<1>1. run[w].read \in Contents /\ assignment[s] \in Assignments
  BY DEF TypeOK, RunRows
<1>2. Assigned(assignment[s], p, "classifier", run[w].read) \in Assignments
  BY <1>1, AssignedType DEF Sources
<1>3. assignment' \in [Signals -> Assignments]
  BY <1>2, RowType DEF Succeeds
<1>5. Home[s] \in Establishments /\ sightings' = sightings \cup {<<p, Home[s]>>}
  BY PatternAssumption DEF Succeeds
<1>4. sightings' \subseteq Patterns \X Establishments
  BY <1>5 DEF TypeOK
<1> QED
  BY <1>3, <1>4, EndType DEF Succeeds

LEMMA CreatedType ==
    ASSUME TypeOK, NEW p \in Patterns, NEW l \in Labels, Created(p, l)
    PROVE  pattern' \in [Patterns -> PatternRows]
  BY BlankTypes DEF TypeOK, Created

-----------------------------------------------------------------------------
(* Type correctness                                                        *)

LEMMA TypeInit == Init => TypeOK
<1> SUFFICES ASSUME Init PROVE TypeOK
  OBVIOUS
<1>1. pattern \in [Patterns -> PatternRows]
  <2>1. \A p \in DOMAIN FirstLabel : NewPattern(FirstLabel[p]) \in PatternRows
    BY BlankTypes, PatternAssumption
  <2> QED
    BY <2>1, BlankTypes DEF Init
<1>2. assignment \in [Signals -> Assignments] /\ run \in [Runs -> RunRows]
      /\ merge \in [Owners -> MergeRows]
  BY BlankTypes DEF Init
<1>3. content \in [Signals -> Contents] /\ waiting \in [Signals -> Nat]
  BY Constants DEF Init
<1> QED
  BY <1>1, <1>2, <1>3 DEF Init, TypeOK

LEMMA TypeSignal ==
    ASSUME TypeOK, NEW s \in Signals,
           \/ Edit(s) \/ OnCommit(s) \/ Confirm(s) \/ NeverConfirmed(s) \/ Sweep(s)
           \/ LoseMessage(s) \/ ConfirmAges(s) \/ Ripen(s)
    PROVE  TypeOK'
<1>r. assignment[s] \in Assignments
  BY DEF TypeOK
<1>1. CASE Edit(s)
  BY <1>1 DEF Edit, TypeOK
<1>2. CASE OnCommit(s)
  BY <1>2, SendType DEF OnCommit, TypeOK
<1>3. CASE Confirm(s)
  <2>1. assignment' = [assignment EXCEPT ![s] = [assignment[s] EXCEPT !.published = TRUE]]
    BY <1>3 DEF Confirm
  <2>2. assignment' \in [Signals -> Assignments]
    BY <1>r, <2>1, TimedType, RowType
  <2> QED
    BY <1>3, <2>2 DEF Confirm, TypeOK
<1>4. CASE NeverConfirmed(s)
  BY <1>4 DEF NeverConfirmed, TypeOK
<1>5. CASE Sweep(s)
  BY <1>5, SendType DEF Sweep, TypeOK
<1>6. CASE LoseMessage(s)
  BY <1>6 DEF LoseMessage, TypeOK
<1>7. CASE ConfirmAges(s)
  <2>1. assignment' = [assignment EXCEPT ![s] = [assignment[s] EXCEPT !.published = FALSE]]
    BY <1>7 DEF ConfirmAges
  <2>2. assignment' \in [Signals -> Assignments]
    BY <1>r, <2>1, TimedType, RowType
  <2> QED
    BY <1>7, <2>2 DEF ConfirmAges, TypeOK, queues
<1>8. CASE Ripen(s)
  <2>1. assignment' = [assignment EXCEPT ![s] = [assignment[s] EXCEPT !.ripe = TRUE]]
    BY <1>8 DEF Ripen
  <2>2. assignment' \in [Signals -> Assignments]
    BY <1>r, <2>1, TimedType, RowType
  <2> QED
    BY <1>8, <2>2 DEF Ripen, TypeOK, queues
<1> QED
  BY <1>1, <1>2, <1>3, <1>4, <1>5, <1>6, <1>7, <1>8

LEMMA TypeStart ==
    ASSUME TypeOK, NEW s \in Signals, NEW w \in Runs, Deliver(w, s) \/ Classify(w, s)
    PROVE  TypeOK'
<1>1. CASE Deliver(w, s)
  <2>1. run' \in [Runs -> RunRows]
    BY <1>1, LoadsType DEF Deliver, TypeOK
  <2> QED
    BY <1>1, <2>1 DEF Deliver, TypeOK
<1>2. CASE Classify(w, s)
  BY <1>2, LoadsType DEF Classify, TypeOK, queues
<1> QED
  BY <1>1, <1>2

LEMMA TypeEarly ==
    ASSUME TypeOK, NEW w \in Runs, SkipForConsent(w) \/ Claim(w) \/ Answer(w)
    PROVE  TypeOK'
<1> DEFINE s == run[w].signal
           r == assignment[s]
<1>r. run[w] \in RunRows /\ s \in Signals /\ r \in Assignments /\ run[w].read \in Contents
  BY DEF TypeOK, RunRows
<1>1. CASE SkipForConsent(w)
  <2> DEFINE row == [Failed(r, "permanently_failed", "ai_consent_required")
                        EXCEPT !.pending = run[w].read]
  <2>1. row \in Assignments
    BY <1>r, FailedType DEF Statuses, Errors
  <2>2. assignment' \in [Signals -> Assignments]
    <3>1. assignment' = assignment \/ assignment' = [assignment EXCEPT ![s] = row]
      BY <1>1 DEF SkipForConsent
    <3> QED
      BY <1>r, <2>1, <3>1, RowType DEF TypeOK
  <2>3. run' \in [Runs -> RunRows]
    BY <1>1, EndType DEF SkipForConsent
  <2> QED
    BY <1>1, <2>2, <2>3 DEF SkipForConsent, TypeOK, queues
<1>2. CASE Claim(w)
  <2> DEFINE error == IF r.error = "none" THEN "other" ELSE r.error
             failed == Failed(r, "permanently_failed", error)
             claimed == Claimed(r, run[w].read)
             called == [run[w] EXCEPT !.at = "called", !.attempt = r.attempts + 1]
  <2>1. error \in Errors
    BY <1>r DEF Assignments, Errors
  <2>2. failed \in Assignments /\ claimed \in Assignments
    BY <1>r, <2>1, FailedType, ClaimedType DEF Statuses
  <2>3. called \in RunRows
    <3>1. r.attempts + 1 \in Nat
      BY <1>r DEF Assignments
    <3> QED
      BY <1>r, <3>1 DEF RunRows, RunSteps
  <2>4. \/ assignment' = assignment
        \/ assignment' = [assignment EXCEPT ![s] = failed]
        \/ assignment' = [assignment EXCEPT ![s] = claimed]
    BY <1>2 DEF Claim
  <2>5. assignment' \in [Signals -> Assignments]
    <3>1. CASE assignment' = assignment
      BY <3>1 DEF TypeOK
    <3>2. CASE assignment' = [assignment EXCEPT ![s] = failed]
      BY <1>r, <2>2, <3>2, RowType
    <3>3. CASE assignment' = [assignment EXCEPT ![s] = claimed]
      BY <1>r, <2>2, <3>3, RowType
    <3> QED
      BY <2>4, <3>1, <3>2, <3>3
  <2>6. End(w) \/ run' = [run EXCEPT ![w] = called]
    BY <1>2 DEF Claim
  <2>7. run' \in [Runs -> RunRows]
    BY <2>3, <2>6, EndType, RunType
  <2> QED
    BY <1>2, <2>5, <2>7 DEF Claim, TypeOK, queues
<1>3. CASE Answer(w)
  <2>1. PICK l \in Labels, step \in {"resolved", "failed"}, p \in Patterns \cup {NoPattern} :
            run' = [run EXCEPT ![w] = [run[w] EXCEPT !.at = step, !.label = l, !.pattern = p]]
    BY <1>3 DEF Answer
  <2>2. [run[w] EXCEPT !.at = step, !.label = l, !.pattern = p] \in RunRows
    BY <1>r DEF RunRows, RunSteps
  <2>3. run' \in [Runs -> RunRows]
    BY <2>1, <2>2, RunType
  <2> QED
    BY <1>3, <2>3 DEF Answer, TypeOK, queues
<1> QED
  BY <1>1, <1>2, <1>3

LEMMA TypeLate ==
    ASSUME TypeOK, Named, NEW w \in Runs,
           \/ FailRetryable(w) \/ FailForGood(w) \/ Finalize(w) \/ WriteAlias(w)
           \/ RecordFailure(w) \/ PublishRetry(w) \/ Kill(w)
    PROVE  TypeOK'
<1> DEFINE s == run[w].signal
           r == assignment[s]
<1>r. run[w] \in RunRows /\ s \in Signals /\ r \in Assignments
  BY DEF TypeOK, RunRows
<1>1. CASE FailRetryable(w)
  <2>1. "failed" \in RunSteps
    BY DEF RunSteps
  <2>2. run' \in [Runs -> RunRows]
    BY <1>1, <2>1, StepType, RunType DEF FailRetryable
  <2> QED
    BY <1>1, <2>2 DEF FailRetryable, TypeOK, queues
<1>2. CASE FailForGood(w)
  <2> DEFINE row == Failed(r, "permanently_failed", "other")
  <2>1. row \in Assignments
    BY <1>r, FailedType DEF Statuses, Errors
  <2>2. assignment' = assignment \/ assignment' = [assignment EXCEPT ![s] = row]
    BY <1>2 DEF FailForGood
  <2>3. assignment' \in [Signals -> Assignments]
    BY <1>r, <2>1, <2>2, RowType DEF TypeOK
  <2> QED
    BY <1>2, <2>3, EndType DEF FailForGood, TypeOK, queues
<1>3. CASE Finalize(w)
  <2>1. Reusable(w) \subseteq Patterns /\ ActiveAlias(run[w].label) \subseteq Patterns
    BY ReusableActive DEF Active, ActiveAlias, Single, Known
  <2>2. CASE End(w) /\ UNCHANGED <<assignment, pattern, sightings>>
    BY <1>3, <2>2, EndType DEF Finalize, TypeOK, queues
  <2>3. CASE \E p \in Reusable(w) : Succeeds(w, s, p) /\ UNCHANGED pattern
    BY <1>r, <1>3, <2>1, <2>3, SucceedsType DEF Finalize, TypeOK, queues
  <2>4. CASE \E p \in Patterns : Created(p, run[w].label) /\ Succeeds(w, s, p)
    <3>1. PICK p \in Patterns : Created(p, run[w].label) /\ Succeeds(w, s, p)
      BY <2>4
    <3>2. assignment' \in [Signals -> Assignments] /\ sightings' \subseteq Patterns \X Establishments
          /\ run' \in [Runs -> RunRows]
      BY <1>r, <3>1, SucceedsType
    <3>3. pattern' \in [Patterns -> PatternRows]
      <4>1. run[w].label \in Labels \cup {NoLabel}
        BY <1>r DEF RunRows
      <4>2. NewPattern(run[w].label) \in PatternRows
        BY <4>1 DEF NewPattern, PatternRows
      <4>3. pattern' = [pattern EXCEPT ![p] = NewPattern(run[w].label)]
        BY <3>1 DEF Created
      <4> QED
        BY <4>2, <4>3 DEF TypeOK
    <3> QED
      BY <1>3, <3>2, <3>3 DEF Finalize, TypeOK, queues
  <2>5. CASE /\ \E p \in ActiveAlias(run[w].label) :
                  run' = [run EXCEPT ![w] = [run[w] EXCEPT !.at = "writing", !.pattern = p]]
             /\ UNCHANGED <<assignment, pattern, sightings>>
    <3>1. PICK p \in Patterns :
              run' = [run EXCEPT ![w] = [run[w] EXCEPT !.at = "writing", !.pattern = p]]
      BY <2>1, <2>5
    <3>2. [run[w] EXCEPT !.at = "writing", !.pattern = p] \in RunRows
      BY <1>r DEF RunRows, RunSteps
    <3>3. run' \in [Runs -> RunRows]
      BY <3>1, <3>2, RunType
    <3> QED
      BY <1>3, <2>5, <3>3 DEF Finalize, TypeOK, queues
  <2> QED
    BY <1>3, <2>2, <2>3, <2>4, <2>5 DEF Finalize
<1>4. CASE WriteAlias(w)
  <2>1. run[w].pattern \in Patterns
    BY <1>4 DEF WriteAlias, Named
  <2> QED
    BY <1>r, <1>4, <2>1, SucceedsType DEF WriteAlias, TypeOK, queues
<1>5. CASE RecordFailure(w)
  <2> DEFINE status == RetryStatus(run[w].attempt)
             row == [Failed(r, status, "other") EXCEPT
                        !.published = r.published /\ status = "permanently_failed"]
  <2>1. row \in Assignments
    <3>1. status \in Statuses /\ "other" \in Errors
      BY DEF RetryStatus, Statuses, Errors
    <3>2. (r.published /\ status = "permanently_failed") \in BOOLEAN
      BY <1>r DEF Assignments
    <3> QED
      BY <1>r, <3>1, <3>2, FailedType
  <2>2. assignment' = assignment \/ assignment' = [assignment EXCEPT ![s] = row]
    BY <1>5 DEF RecordFailure
  <2>3. assignment' \in [Signals -> Assignments]
    BY <1>r, <2>1, <2>2, RowType DEF TypeOK
  <2>4. End(w) \/ run' = [run EXCEPT ![w] = [run[w] EXCEPT !.at = "retrying"]]
    BY <1>5 DEF RecordFailure
  <2>5. run' \in [Runs -> RunRows]
    <3>1. [run[w] EXCEPT !.at = "retrying"] \in RunRows
      BY <1>r DEF RunRows, RunSteps
    <3> QED
      BY <2>4, <3>1, EndType, RunType
  <2> QED
    BY <1>5, <2>3, <2>5 DEF RecordFailure, TypeOK, queues
<1>6. CASE PublishRetry(w)
  BY <1>r, <1>6, EndType, SendType DEF PublishRetry, TypeOK
<1>7. CASE Kill(w)
  BY <1>7, EndType DEF Kill, TypeOK, queues
<1> QED
  BY <1>1, <1>2, <1>3, <1>4, <1>5, <1>6, <1>7

LEMMA TypeOwner ==
    ASSUME TypeOK, NEW p \in Patterns, NEW q \in Patterns,
           Rename(p) \/ Move(p, q) \/ SplitToNew(p, q)
    PROVE  TypeOK'
<1>1. CASE Rename(p)
  <2>1. PICK l \in Labels : pattern' = [pattern EXCEPT ![p] = [pattern[p] EXCEPT !.name = l]]
    BY <1>1 DEF Rename
  <2>2. [pattern[p] EXCEPT !.name = l] \in PatternRows
    BY DEF TypeOK, PatternRows
  <2>3. pattern' \in [Patterns -> PatternRows]
    BY <2>1, <2>2 DEF TypeOK
  <2> QED
    BY <1>1, <2>3 DEF Rename, TypeOK, queues
<1>2. CASE Move(p, q)
  <2>1. PICK moved \in SUBSET Signals :
            assignment' = Moved(moved, q) /\ sightings' = sightings \cup Seen(moved, q)
    BY <1>2 DEF Move, On
  <2> QED
    BY <1>2, <2>1, MovedType DEF Move, TypeOK, queues
<1>3. CASE SplitToNew(p, q)
  <2>1. PICK moved \in SUBSET Signals :
            assignment' = Moved(moved, q) /\ sightings' = sightings \cup Seen(moved, q)
    BY <1>3 DEF SplitToNew, On
  <2>2. pattern' \in [Patterns -> PatternRows]
    BY <1>3, CreatedType DEF SplitToNew
  <2> QED
    BY <1>3, <2>1, <2>2, MovedType DEF SplitToNew, TypeOK, queues
<1> QED
  BY <1>1, <1>2, <1>3

LEMMA TypeMerge ==
    ASSUME TypeOK, Named, NEW o \in Owners,
           \/ \E p, q \in Patterns : BeginMerge(o, p, q)
           \/ CommitMerge(o) \/ DropMerge(o)
    PROVE  TypeOK'
<1>1. CASE \E p, q \in Patterns : BeginMerge(o, p, q)
  <2>1. PICK p \in Patterns, q \in Patterns : BeginMerge(o, p, q)
    BY <1>1
  <2>2. [open |-> TRUE, source |-> p, target |-> q, listed |-> On(p)] \in MergeRows
    BY DEF MergeRows, On
  <2>3. merge' \in [Owners -> MergeRows]
    BY <2>1, <2>2 DEF BeginMerge, TypeOK
  <2> QED
    BY <2>1, <2>3 DEF BeginMerge, TypeOK, queues
<1>2. CASE CommitMerge(o)
  <2> DEFINE source == merge[o].source
             target == merge[o].target
             moved == merge[o].listed
  <2>1. source \in Patterns /\ target \in Patterns /\ moved \in SUBSET Signals
    BY <1>2 DEF CommitMerge, Named, TypeOK, MergeRows
  <2>2. merge' \in [Owners -> MergeRows]
    BY <1>2, BlankTypes DEF CommitMerge, TypeOK
  <2>3. CASE UNCHANGED <<assignment, pattern, sightings>>
    BY <1>2, <2>2, <2>3 DEF CommitMerge, TypeOK, queues
  <2>4. CASE /\ assignment' = Moved(moved, target)
             /\ pattern' = [pattern EXCEPT ![source] =
                               [pattern[source] EXCEPT !.status = "merged", !.into = target]]
             /\ sightings' = MovedSightings(source, target) \cup Seen(moved, target)
    <3>1. [pattern[source] EXCEPT !.status = "merged", !.into = target] \in PatternRows
      <4>1. pattern[source] \in PatternRows
        BY <2>1 DEF TypeOK
      <4>2. \A row \in PatternRows, p \in Patterns :
                [row EXCEPT !.status = "merged", !.into = p] \in PatternRows
        BY DEF PatternRows
      <4> QED
        BY <2>1, <4>1, <4>2
    <3>2. pattern' \in [Patterns -> PatternRows]
      BY <2>4, <3>1 DEF TypeOK
    <3>3. MovedSightings(source, target) \subseteq Patterns \X Establishments
      BY <2>1 DEF MovedSightings, TypeOK
    <3>4. /\ assignment' \in [Signals -> Assignments]
          /\ sightings' \subseteq Patterns \X Establishments
      BY <2>1, <2>4, <3>3, MovedType
    <3> QED
      BY <1>2, <2>2, <3>2, <3>4 DEF CommitMerge, TypeOK, queues
  <2> QED
    BY <1>2, <2>3, <2>4 DEF CommitMerge
<1>3. CASE DropMerge(o)
  BY <1>3, BlankTypes DEF DropMerge, TypeOK, queues
<1> QED
  BY <1>1, <1>2, <1>3

(* Only a finalize starts an unlocked write, and it has found its pattern. *)
LEMMA WriterStep ==
    ASSUME TypeOK, Next, NEW w \in Runs, run'[w].at = "writing"
    PROVE  \/ run'[w] = run[w]
           \/ /\ Finalize(w) /\ CurrentAttempt(w) /\ UNCHANGED <<assignment, pattern>>
              /\ run'[w].pattern \in Active
              /\ run'[w].signal = run[w].signal /\ run'[w].read = run[w].read
              /\ run'[w].attempt = run[w].attempt
              /\ \A v \in Runs \ {w} : run'[v] = run[v]
<1>e. \A v \in Runs : End(v) => run' = [run EXCEPT ![v] = NoRun] /\ NoRun.at = "idle"
  BY DEF End, NoRun
<1>d. \A v \in Runs : v \in DOMAIN run
  BY DEF TypeOK
<1>1. ASSUME NEW s \in Signals,
             \/ Edit(s) \/ OnCommit(s) \/ Confirm(s) \/ NeverConfirmed(s) \/ Sweep(s)
             \/ LoseMessage(s) \/ ConfirmAges(s) \/ Ripen(s)
      PROVE  run'[w] = run[w]
  BY <1>1 DEF Edit, OnCommit, Confirm, NeverConfirmed, Sweep, LoseMessage, ConfirmAges, Ripen
<1>2. ASSUME NEW s \in Signals, NEW v \in Runs, Deliver(v, s) \/ Classify(v, s)
      PROVE  run'[w] = run[w]
  <2>1. CASE UNCHANGED run
    BY <2>1
  <2>2. CASE Loads(v, s)
    <3>1. run' = [run EXCEPT ![v] = [NoRun EXCEPT !.at = "loaded", !.signal = s,
                                                  !.read = content[s]]]
      BY <2>2 DEF Loads
    <3>2. v # w
      BY <1>d, <3>1 DEF NoRun
    <3> QED
      BY <3>1, <3>2
  <2> QED
    BY <1>2, <2>1, <2>2 DEF Deliver, Classify
<1>3. ASSUME NEW v \in Runs,
             \/ SkipForConsent(v) \/ FailForGood(v) \/ WriteAlias(v) \/ PublishRetry(v)
             \/ Kill(v)
      PROVE  run'[w] = run[w]
  <2>1. End(v)
    BY <1>3 DEF SkipForConsent, FailForGood, WriteAlias, Succeeds, PublishRetry, Kill
  <2> QED
    BY <1>d, <1>e, <2>1
<1>4. ASSUME NEW v \in Runs, Claim(v)
      PROVE  run'[w] = run[w]
  <2>1. CASE End(v)
    BY <1>d, <1>e, <2>1
  <2>2. CASE ~End(v)
    <3>1. run' = [run EXCEPT ![v] = [run[v] EXCEPT !.at = "called",
                        !.attempt = assignment[run[v].signal].attempts + 1]]
      BY <1>4, <2>2 DEF Claim
    <3>2. run[v] \in RunRows
      BY DEF TypeOK
    <3>3. v # w
      BY <1>d, <3>1, <3>2 DEF RunRows
    <3> QED
      BY <3>1, <3>3
  <2> QED
    BY <2>1, <2>2
<1>5. ASSUME NEW v \in Runs, Answer(v) \/ FailRetryable(v)
      PROVE  run'[w] = run[w]
  <2>1. PICK step \in {"resolved", "failed"}, l \in Labels \cup {NoLabel},
             p \in Patterns \cup {NoPattern} :
            run' = [run EXCEPT ![v] = [run[v] EXCEPT !.at = step, !.label = l, !.pattern = p]]
    BY <1>5 DEF Answer, FailRetryable
  <2>2. run[v] \in RunRows
    BY DEF TypeOK
  <2>3. v # w
    BY <1>d, <2>1, <2>2 DEF RunRows
  <2> QED
    BY <2>1, <2>3
<1>6. ASSUME NEW v \in Runs, RecordFailure(v)
      PROVE  run'[w] = run[w]
  <2>1. CASE End(v)
    BY <1>d, <1>e, <2>1
  <2>2. CASE ~End(v)
    <3>1. run' = [run EXCEPT ![v] = [run[v] EXCEPT !.at = "retrying"]]
      BY <1>6, <2>2 DEF RecordFailure
    <3>2. run[v] \in RunRows
      BY DEF TypeOK
    <3>3. v # w
      BY <1>d, <3>1, <3>2 DEF RunRows
    <3> QED
      BY <3>1, <3>3
  <2> QED
    BY <2>1, <2>2
<1>7. ASSUME NEW v \in Runs, Finalize(v), run'[w] # run[w]
      PROVE  /\ Finalize(w) /\ CurrentAttempt(w) /\ UNCHANGED <<assignment, pattern>>
             /\ run'[w].pattern \in Active
             /\ run'[w].signal = run[w].signal /\ run'[w].read = run[w].read
             /\ run'[w].attempt = run[w].attempt
             /\ \A u \in Runs \ {w} : run'[u] = run[u]
  <2>1. CASE End(v)
    BY <1>d, <1>e, <1>7, <2>1
  <2>2. CASE ~End(v)
    <3>1. PICK p \in ActiveAlias(run[v].label) :
              run' = [run EXCEPT ![v] = [run[v] EXCEPT !.at = "writing", !.pattern = p]]
      BY <1>7, <2>2 DEF Finalize, Succeeds
    <3>2. CurrentAttempt(v) /\ UNCHANGED <<assignment, pattern>>
      BY <1>7, <2>2 DEF Finalize, Succeeds
    <3>3. p \in Active
      BY DEF ActiveAlias, Single, Known
    <3>4. v = w
      BY <1>7, <3>1
    <3>5. run[w] \in RunRows
      BY DEF TypeOK
    <3>6. run'[w] = [run[w] EXCEPT !.at = "writing", !.pattern = p]
      BY <1>d, <3>1, <3>4
    <3>7. /\ run'[w].pattern = p /\ run'[w].signal = run[w].signal
          /\ run'[w].read = run[w].read /\ run'[w].attempt = run[w].attempt
      BY <3>5, <3>6 DEF RunRows
    <3>8. \A u \in Runs \ {w} : run'[u] = run[u]
      BY <3>1, <3>4
    <3> QED
      BY <1>7, <3>2, <3>3, <3>4, <3>7, <3>8
  <2> QED
    BY <2>1, <2>2
<1>8. ASSUME NEW p \in Patterns, NEW q \in Patterns,
             \/ Rename(p) \/ Move(p, q) \/ SplitToNew(p, q)
             \/ \E o \in Owners : BeginMerge(o, p, q)
      PROVE  run'[w] = run[w]
  BY <1>8 DEF Rename, Move, SplitToNew, BeginMerge
<1>9. ASSUME NEW o \in Owners, CommitMerge(o) \/ DropMerge(o)
      PROVE  run'[w] = run[w]
  BY <1>9 DEF CommitMerge, DropMerge
<1> QED
  BY <1>1, <1>2, <1>3, <1>4, <1>5, <1>6, <1>7, <1>8, <1>9 DEF Next, Works, Runs

(* A merge that is open is the one there was, or has just begun.           *)
LEMMA MergeStep ==
    ASSUME TypeOK, Next, NEW o \in Owners, merge'[o].open
    PROVE  \/ merge'[o] = merge[o]
           \/ merge'[o].source \in Patterns /\ merge'[o].target \in Patterns
              /\ merge'[o].source # merge'[o].target
<1>d. \A u \in Owners : u \in DOMAIN merge
  BY DEF TypeOK
<1>1. CASE UNCHANGED merge
  BY <1>1
<1>2. CASE \E u \in Owners, p, q \in Patterns : BeginMerge(u, p, q)
  <2>1. PICK u \in Owners, p \in Patterns, q \in Patterns : BeginMerge(u, p, q)
    BY <1>2
  <2>2. CASE u = o
    BY <1>d, <2>1, <2>2 DEF BeginMerge
  <2>3. CASE u # o
    BY <2>1, <2>3 DEF BeginMerge
  <2> QED
    BY <2>2, <2>3
<1>3. CASE \E u \in Owners : CommitMerge(u) \/ DropMerge(u)
  <2>1. PICK u \in Owners : merge' = [merge EXCEPT ![u] = NoMerge]
    BY <1>3 DEF CommitMerge, DropMerge
  <2>2. u # o
    BY <1>d, <2>1 DEF NoMerge
  <2> QED
    BY <2>1, <2>2
<1> QED
  BY <1>1, <1>2, <1>3
  DEF Next, Works, Edit, OnCommit, Confirm, NeverConfirmed, Sweep, LoseMessage, ConfirmAges,
      Ripen, Deliver, Classify, SkipForConsent, Claim, Answer, FailRetryable, FailForGood,
      Finalize, WriteAlias, RecordFailure, PublishRetry, Kill, Rename, Move, SplitToNew

LEMMA NamedStep ==
    ASSUME TypeOK, Named, Next
    PROVE  Named'
<1>1. ASSUME NEW w \in Runs, run'[w].at = "writing"
      PROVE  run'[w].pattern \in Patterns
  BY <1>1, WriterStep DEF Named, Active
<1>2. ASSUME NEW o \in Owners, merge'[o].open
      PROVE  /\ merge'[o].source \in Patterns /\ merge'[o].target \in Patterns
             /\ merge'[o].source # merge'[o].target
  BY <1>2, MergeStep DEF Named
<1> QED
  BY <1>1, <1>2 DEF Named

LEMMA TypeStep ==
    ASSUME TypeOK, Named, Next
    PROVE  TypeOK'
  BY TypeSignal, TypeStart, TypeEarly, TypeLate, TypeOwner, TypeMerge DEF Next, Works, Runs

LEMMA Stutter == UNCHANGED vars /\ TypeOK /\ Named => TypeOK' /\ Named'
  BY DEF vars, TypeOK, Named

LEMMA NamedInit == Init => Named
  BY DEF Init, Named, NoRun, NoMerge

LEMMA TypesCorrect == Spec => [](TypeOK /\ Named)
<1>1. TypeOK /\ Named /\ [Next]_vars => TypeOK' /\ Named'
  BY TypeStep, NamedStep, Stutter
<1> QED
  BY <1>1, TypeInit, NamedInit, PTL DEF Spec

(* Whatever classifications, sweeps and owners do, every value stays one   *)
(* the program knows, and no write of a classification or of a merge is    *)
(* ever about to use a pattern it has not found.                           *)
THEOREM TypeCorrect == Spec => []TypeOK
  BY TypesCorrect, PTL

-----------------------------------------------------------------------------
(* What one step does to the row of a signal                               *)

RowSame(s) ==
    /\ assignment'[s].status = assignment[s].status
    /\ assignment'[s].pattern = assignment[s].pattern
    /\ assignment'[s].source = assignment[s].source
    /\ assignment'[s].assigned = assignment[s].assigned
    /\ assignment'[s].pending = assignment[s].pending
    /\ assignment'[s].attempts = assignment[s].attempts

RowFailed(s) ==
    /\ ~Locked(s)
    /\ assignment[s].status # "succeeded"
    /\ assignment'[s].status \in {"temporary_failed", "permanently_failed"}
    /\ assignment'[s].pattern = assignment[s].pattern
    /\ assignment'[s].source = assignment[s].source
    /\ assignment'[s].assigned = assignment[s].assigned
    /\ assignment'[s].attempts = assignment[s].attempts
    /\ \/ assignment'[s].pending = assignment[s].pending
       \/ \E w \in Runs : /\ run[w].at = "loaded" /\ run[w].signal = s
                          /\ assignment'[s].pending = run[w].read

RowClaimed(s) ==
    /\ ~Locked(s)
    /\ \E w \in Runs :
         /\ run[w].at = "loaded" /\ run[w].signal = s
         /\ ~AlreadyAssigned(assignment[s], run[w].read)
         /\ ~Terminal(assignment[s], run[w].read)
         /\ ~Spent(assignment[s], run[w].read)
         /\ assignment'[s] = Claimed(assignment[s], run[w].read)

RowSucceeded(s) ==
    \E w \in Runs, p \in Patterns :
       /\ run[w].signal = s
       /\ \/ run[w].at = "resolved" /\ ~Locked(s) /\ CurrentAttempt(w) /\ p \in Active'
          \/ run[w].at = "writing" /\ p = run[w].pattern /\ UNCHANGED pattern
       /\ assignment'[s] = Assigned(assignment[s], p, "classifier", run[w].read)
       /\ <<p, Home[s]>> \in sightings'
       /\ run'[w].at = "idle"

RowCorrected(s) ==
    \E p \in Patterns :
       /\ ~Locked(s) /\ UNCHANGED content
       /\ p \in Active'
       /\ assignment'[s] = Corrected(s, p)
       /\ <<p, Home[s]>> \in sightings'

(* Only the row written changes.                                           *)
LEMMA OtherRow ==
    ASSUME NEW s \in Signals, NEW t \in Signals, s # t, NEW row,
           assignment' = [assignment EXCEPT ![t] = row]
    PROVE  RowSame(s)
<1>1. assignment'[s] = assignment[s]
  OBVIOUS
<1> QED
  BY <1>1 DEF RowSame

LEMMA TimedRow ==
    ASSUME TypeOK, NEW s \in Signals, NEW t \in Signals, NEW b \in BOOLEAN,
           \/ assignment' = [assignment EXCEPT ![t] = [assignment[t] EXCEPT !.published = b]]
           \/ assignment' = [assignment EXCEPT ![t] = [assignment[t] EXCEPT !.ripe = b]]
    PROVE  RowSame(s)
<1>1. assignment[t] \in Assignments /\ t \in DOMAIN assignment
  BY DEF TypeOK
<1>2. CASE s = t
  BY <1>1, <1>2 DEF Assignments, RowSame
<1>3. CASE s # t
  BY <1>3, OtherRow
<1> QED
  BY <1>2, <1>3

LEMMA FailedRow ==
    ASSUME TypeOK, NEW s \in Signals, NEW t \in Signals, ~Locked(t),
           assignment[t].status # "succeeded",
           NEW status \in {"temporary_failed", "permanently_failed"}, NEW error, NEW b,
           NEW w \in Runs,
           \/ assignment' = [assignment EXCEPT ![t] = Failed(assignment[t], status, error)]
           \/ assignment' = [assignment EXCEPT ![t] =
                                [Failed(assignment[t], status, error) EXCEPT !.published = b]]
           \/ /\ run[w].at = "loaded" /\ run[w].signal = t
              /\ assignment' = [assignment EXCEPT ![t] =
                    [Failed(assignment[t], status, error) EXCEPT !.pending = run[w].read]]
    PROVE  RowSame(s) \/ RowFailed(s)
<1> DEFINE r == assignment[t]
           f == Failed(r, status, error)
<1>1. r \in Assignments /\ t \in DOMAIN assignment
  BY DEF TypeOK
<1>2. PICK row \in {f, [f EXCEPT !.published = b], [f EXCEPT !.pending = run[w].read]} :
         /\ assignment' = [assignment EXCEPT ![t] = row]
         /\ \/ row \in {f, [f EXCEPT !.published = b]}
            \/ run[w].at = "loaded" /\ run[w].signal = t
  OBVIOUS
<1>3. CASE s = t
  <2>1. assignment'[s] = row
    BY <1>1, <1>2, <1>3
  <2>2. /\ row.status = status /\ row.pattern = r.pattern /\ row.source = r.source
        /\ row.assigned = r.assigned /\ row.attempts = r.attempts
    BY <1>1, <1>2 DEF Assignments, Failed
  <2>3. row \in {f, [f EXCEPT !.published = b]} => row.pending = r.pending
    BY <1>1 DEF Assignments, Failed
  <2>4. row = [f EXCEPT !.pending = run[w].read] => row.pending = run[w].read
    BY <1>1 DEF Assignments, Failed
  <2> QED
    BY <1>2, <1>3, <2>1, <2>2, <2>3, <2>4 DEF RowFailed
<1>4. CASE s # t
  BY <1>2, <1>4, OtherRow
<1> QED
  BY <1>3, <1>4

LEMMA SucceedsRow ==
    ASSUME TypeOK, NEW s \in Signals, NEW w \in Runs, NEW p \in Patterns,
           Succeeds(w, run[w].signal, p),
           \/ run[w].at = "resolved" /\ ~Locked(run[w].signal) /\ CurrentAttempt(w) /\ p \in Active'
           \/ run[w].at = "writing" /\ p = run[w].pattern /\ UNCHANGED pattern
    PROVE  RowSame(s) \/ RowSucceeded(s)
<1>1. run[w].signal \in DOMAIN assignment /\ w \in DOMAIN run
  BY DEF TypeOK, RunRows
<1>2. CASE s = run[w].signal
  <2>1. assignment'[s] = Assigned(assignment[s], p, "classifier", run[w].read)
    BY <1>1, <1>2 DEF Succeeds
  <2>2. <<p, Home[s]>> \in sightings' /\ run'[w].at = "idle"
    BY <1>1, <1>2 DEF Succeeds, End, NoRun
  <2> QED
    BY <1>2, <2>1, <2>2 DEF RowSucceeded
<1>3. CASE s # run[w].signal
  BY <1>3 DEF RowSame, Succeeds
<1> QED
  BY <1>2, <1>3

LEMMA MovedRow ==
    ASSUME TypeOK, NEW s \in Signals, NEW moved \in SUBSET Signals, NEW p \in Patterns,
           \A t \in moved : ~Locked(t),
           assignment' = Moved(moved, p), UNCHANGED content, p \in Active',
           Seen(moved, p) \subseteq sightings'
    PROVE  RowSame(s) \/ RowCorrected(s)
<1>1. CASE s \in moved
  <2>1. assignment'[s] = Corrected(s, p)
    BY <1>1 DEF Moved
  <2>2. <<p, Home[s]>> \in sightings'
    BY <1>1 DEF Seen
  <2> QED
    BY <1>1, <2>1, <2>2 DEF RowCorrected
<1>2. CASE s \notin moved
  BY <1>2 DEF Moved, RowSame
<1> QED
  BY <1>1, <1>2

LEMMA RowOfRun ==
    ASSUME TypeOK, Named, NEW s \in Signals, NEW w \in Runs,
           \/ SkipForConsent(w) \/ Claim(w) \/ FailForGood(w) \/ Finalize(w)
           \/ WriteAlias(w) \/ RecordFailure(w)
    PROVE  RowSame(s) \/ RowFailed(s) \/ RowClaimed(s) \/ RowSucceeded(s)
<1> DEFINE t == run[w].signal
           r == assignment[t]
<1>r. run[w] \in RunRows /\ t \in Signals /\ r \in Assignments
  BY DEF TypeOK, RunRows
<1>0. UNCHANGED assignment => RowSame(s)
  BY DEF RowSame
<1>1. CASE SkipForConsent(w)
  <2>1. CASE UNCHANGED assignment
    BY <1>0, <2>1
  <2>2. CASE assignment' = [assignment EXCEPT ![t] =
                [Failed(r, "permanently_failed", "ai_consent_required")
                    EXCEPT !.pending = run[w].read]]
    <3>1. ~Locked(t) /\ run[w].at = "loaded"
      BY <1>1 DEF SkipForConsent
    <3>2. r.status # "succeeded" \/ UNCHANGED assignment
      BY <1>1 DEF SkipForConsent, Skips
    <3> QED
      BY <1>0, <1>r, <2>2, <3>1, <3>2, FailedRow
  <2> QED
    BY <1>1, <2>1, <2>2 DEF SkipForConsent
<1>2. CASE Claim(w)
  <2>0. ~Locked(t) /\ run[w].at = "loaded"
    BY <1>2 DEF Claim
  <2>1. CASE UNCHANGED assignment
    BY <1>0, <2>1
  <2>2. CASE /\ Spent(r, run[w].read)
             /\ \E error : assignment' = [assignment EXCEPT ![t] =
                               Failed(r, "permanently_failed", error)]
    <3>1. r.status # "succeeded"
      BY <2>2 DEF Spent
    <3> QED
      BY <1>r, <2>0, <2>2, <3>1, FailedRow
  <2>3. CASE /\ ~AlreadyAssigned(r, run[w].read) /\ ~Terminal(r, run[w].read)
             /\ ~Spent(r, run[w].read)
             /\ assignment' = [assignment EXCEPT ![t] = Claimed(r, run[w].read)]
    <3>1. CASE s = t
      BY <1>r, <2>0, <2>3, <3>1 DEF RowClaimed, TypeOK
    <3>2. CASE s # t
      BY <1>r, <2>3, <3>2, OtherRow
    <3> QED
      BY <3>1, <3>2
  <2> QED
    BY <1>2, <2>1, <2>2, <2>3 DEF Claim
<1>3. CASE FailForGood(w)
  <2>1. CASE UNCHANGED assignment
    BY <1>0, <2>1
  <2>2. CASE assignment' = [assignment EXCEPT ![t] = Failed(r, "permanently_failed", "other")]
    <3>1. ~Locked(t) /\ (r.status # "succeeded" \/ UNCHANGED assignment)
      BY <1>3 DEF FailForGood, Holds
    <3> QED
      BY <1>0, <1>r, <2>2, <3>1, FailedRow
  <2> QED
    BY <1>3, <2>1, <2>2 DEF FailForGood
<1>4. CASE Finalize(w)
  <2>0. ~Locked(t) /\ run[w].at = "resolved"
    BY <1>4 DEF Finalize
  <2>1. CASE UNCHANGED assignment
    BY <1>0, <2>1
  <2>2. CASE CurrentAttempt(w) /\ (\E p \in Reusable(w) : Succeeds(w, t, p)) /\ UNCHANGED pattern
    <3>1. PICK p \in Reusable(w) : Succeeds(w, t, p)
      BY <2>2
    <3>2. p \in Patterns /\ p \in Active'
      BY <2>2, ReusableActive DEF Active
    <3> QED
      BY <2>0, <2>2, <3>1, <3>2, SucceedsRow
  <2>3. CASE /\ CurrentAttempt(w)
             /\ \E p \in Patterns : Created(p, run[w].label) /\ Succeeds(w, t, p)
    <3>1. PICK p \in Patterns : Created(p, run[w].label) /\ Succeeds(w, t, p)
      BY <2>3
    <3>2. p \in Active'
      BY <3>1 DEF Created, Active, NewPattern, TypeOK
    <3> QED
      BY <2>0, <2>3, <3>1, <3>2, SucceedsRow
  <2> QED
    BY <1>4, <2>1, <2>2, <2>3 DEF Finalize
<1>5. CASE WriteAlias(w)
  <2>1. run[w].pattern \in Patterns
    BY <1>5 DEF WriteAlias, Named
  <2> QED
    BY <1>5, <2>1, SucceedsRow DEF WriteAlias
<1>6. CASE RecordFailure(w)
  <2>1. CASE UNCHANGED assignment
    BY <1>0, <2>1
  <2>2. CASE ~UNCHANGED assignment
    <3> DEFINE status == RetryStatus(run[w].attempt)
               kept == r.published /\ status = "permanently_failed"
    <3>1. /\ ~Locked(t) /\ r.status # "succeeded"
          /\ assignment' = [assignment EXCEPT ![t] =
                [Failed(r, status, "other") EXCEPT !.published = kept]]
      BY <1>6, <2>2 DEF RecordFailure, Holds
    <3>2. status \in {"temporary_failed", "permanently_failed"}
      BY DEF RetryStatus
    <3> HIDE DEF status, kept
    <3> QED
      BY <1>r, <3>1, <3>2, FailedRow
  <2> QED
    BY <2>1, <2>2
<1> QED
  BY <1>1, <1>2, <1>3, <1>4, <1>5, <1>6

LEMMA RowOfOwner ==
    ASSUME TypeOK, Named, NEW s \in Signals,
           \/ \E p, q \in Patterns : Move(p, q) \/ SplitToNew(p, q)
           \/ \E o \in Owners : CommitMerge(o)
    PROVE  RowSame(s) \/ RowCorrected(s)
<1>1. ASSUME NEW p \in Patterns, NEW q \in Patterns, Move(p, q)
      PROVE  RowSame(s) \/ RowCorrected(s)
  <2>1. PICK moved \in SUBSET On(p) : /\ \A t \in moved : ~Locked(t)
                                     /\ assignment' = Moved(moved, q)
                                     /\ sightings' = sightings \cup Seen(moved, q)
    BY <1>1 DEF Move
  <2>2. q \in Active' /\ UNCHANGED content
    BY <1>1 DEF Move, Active
  <2>3. moved \in SUBSET Signals
    BY DEF On
  <2> QED
    BY <2>1, <2>2, <2>3, MovedRow
<1>2. ASSUME NEW p \in Patterns, NEW q \in Patterns, SplitToNew(p, q)
      PROVE  RowSame(s) \/ RowCorrected(s)
  <2>1. PICK moved \in SUBSET On(p) : /\ \A t \in moved : ~Locked(t)
                                     /\ assignment' = Moved(moved, q)
                                     /\ sightings' = sightings \cup Seen(moved, q)
    BY <1>2 DEF SplitToNew
  <2>2. q \in Active' /\ UNCHANGED content
    BY <1>2 DEF SplitToNew, Active, Created, NewPattern, TypeOK
  <2>3. moved \in SUBSET Signals
    BY DEF On
  <2> QED
    BY <2>1, <2>2, <2>3, MovedRow
<1>3. ASSUME NEW o \in Owners, CommitMerge(o)
      PROVE  RowSame(s) \/ RowCorrected(s)
  <2> DEFINE source == merge[o].source
             target == merge[o].target
             moved == merge[o].listed
  <2>1. CASE UNCHANGED assignment
    BY <2>1 DEF RowSame
  <2>2. CASE ~UNCHANGED assignment
    <3>1. /\ target \in Active
          /\ assignment' = Moved(moved, target)
          /\ pattern' = [pattern EXCEPT ![source] =
                            [pattern[source] EXCEPT !.status = "merged", !.into = target]]
          /\ Seen(moved, target) \subseteq sightings'
          /\ \A t \in moved : ~Locked(t)
          /\ UNCHANGED content
      BY <1>3, <2>2 DEF CommitMerge
    <3>2. /\ source # target /\ source \in Patterns /\ target \in Patterns
          /\ moved \in SUBSET Signals
      BY <1>3 DEF CommitMerge, Named, TypeOK, MergeRows
    <3>3. target \in Active'
      BY <3>1, <3>2 DEF Active
    <3> HIDE DEF source, target, moved
    <3> QED
      BY <3>1, <3>2, <3>3, MovedRow
  <2> QED
    BY <2>1, <2>2
<1> QED
  BY <1>1, <1>2, <1>3

LEMMA RowStep ==
    ASSUME TypeOK, Named, Next, NEW s \in Signals
    PROVE  RowSame(s) \/ RowFailed(s) \/ RowClaimed(s) \/ RowSucceeded(s) \/ RowCorrected(s)
<1>0. UNCHANGED assignment => RowSame(s)
  BY DEF RowSame
<1>1. ASSUME NEW t \in Signals, Confirm(t) \/ ConfirmAges(t) \/ Ripen(t)
      PROVE  RowSame(s)
  <2>1. \/ assignment' = [assignment EXCEPT ![t] = [assignment[t] EXCEPT !.published = TRUE]]
        \/ assignment' = [assignment EXCEPT ![t] = [assignment[t] EXCEPT !.published = FALSE]]
        \/ assignment' = [assignment EXCEPT ![t] = [assignment[t] EXCEPT !.ripe = TRUE]]
    BY <1>1 DEF Confirm, ConfirmAges, Ripen
  <2> QED
    BY <2>1, TimedRow
<1>2. ASSUME NEW t \in Signals,
             \/ Edit(t) \/ OnCommit(t) \/ NeverConfirmed(t) \/ Sweep(t) \/ LoseMessage(t)
             \/ \E w \in Runs : Deliver(w, t) \/ Classify(w, t)
      PROVE  UNCHANGED assignment
  BY <1>2 DEF Edit, OnCommit, NeverConfirmed, Sweep, LoseMessage, Deliver, Classify
<1>3. ASSUME NEW w \in Runs, Answer(w) \/ FailRetryable(w) \/ PublishRetry(w) \/ Kill(w)
      PROVE  UNCHANGED assignment
  BY <1>3 DEF Answer, FailRetryable, PublishRetry, Kill
<1>4. ASSUME NEW p \in Patterns, NEW q \in Patterns, NEW o \in Owners,
             Rename(p) \/ BeginMerge(o, p, q) \/ DropMerge(o)
      PROVE  UNCHANGED assignment
  BY <1>4 DEF Rename, BeginMerge, DropMerge
<1>5. (\E p \in Patterns : Rename(p)) => UNCHANGED assignment
  BY DEF Rename
<1>6. (\E o \in Owners : DropMerge(o)) => UNCHANGED assignment
  BY DEF DropMerge
<1> QED
  BY <1>0, <1>1, <1>2, <1>3, <1>4, <1>5, <1>6, RowOfRun, RowOfOwner DEF Next, Works, Runs

-----------------------------------------------------------------------------
(* The budget of a content                                                 *)

(* A row waits for an answer exactly while it is claimed or has failed.    *)
PendingKnown ==
    \A s \in Signals :
        /\ assignment[s].status \in {"not_started", "succeeded"} => assignment[s].pending = NoContent
        /\ assignment[s].status = "processing" => assignment[s].pending \in Contents

(* The fields that a claim, an answer and a correction give to a row.      *)
LEMMA ClaimedRow ==
    ASSUME NEW r \in Assignments, NEW c \in Contents
    PROVE  /\ Claimed(r, c).status = "processing" /\ Claimed(r, c).pending = c
           /\ Claimed(r, c).pattern = r.pattern /\ Claimed(r, c).source = r.source
           /\ Claimed(r, c).assigned = r.assigned /\ Claimed(r, c).attempts = r.attempts + 1
  BY DEF Claimed, Assignments

LEMMA AssignedRow ==
    ASSUME NEW r \in Assignments, NEW p, NEW source, NEW c
    PROVE  /\ Assigned(r, p, source, c).status = "succeeded"
           /\ Assigned(r, p, source, c).pending = NoContent
           /\ Assigned(r, p, source, c).pattern = p
           /\ Assigned(r, p, source, c).source = source
           /\ Assigned(r, p, source, c).assigned = c
           /\ Assigned(r, p, source, c).attempts = r.attempts
  BY DEF Assigned, Assignments

LEMMA CorrectedRow ==
    ASSUME TypeOK, NEW s \in Signals, NEW p
    PROVE  /\ Corrected(s, p).status = "succeeded" /\ Corrected(s, p).pending = NoContent
           /\ Corrected(s, p).pattern = p /\ Corrected(s, p).source = "owner_correction"
           /\ Corrected(s, p).assigned = content[s]
           /\ assignment[s].status # "processing" =>
                 Corrected(s, p).attempts = assignment[s].attempts
<1> DEFINE r == assignment[s]
           bumped == [r EXCEPT !.attempts = IF r.status = "processing" THEN @ + 1 ELSE @]
<1>1. r \in Assignments
  BY DEF TypeOK
<1>2. bumped \in Assignments /\ (r.status # "processing" => bumped.attempts = r.attempts)
  BY <1>1 DEF Assignments
<1>3. Corrected(s, p) = Assigned(bumped, p, "owner_correction", content[s])
  BY DEF Corrected
<1> HIDE DEF bumped
<1> QED
  BY <1>2, <1>3, AssignedRow

LEMMA PendingInit == Init => PendingKnown
  BY DEF Init, PendingKnown, NewAssignment

LEMMA PendingStep ==
    ASSUME TypeOK, Named, PendingKnown, Next
    PROVE  PendingKnown'
<1> SUFFICES ASSUME NEW s \in Signals
             PROVE  /\ assignment'[s].status \in {"not_started", "succeeded"} =>
                          assignment'[s].pending = NoContent
                    /\ assignment'[s].status = "processing" => assignment'[s].pending \in Contents
  BY DEF PendingKnown
<1>r. assignment[s] \in Assignments /\ \A w \in Runs : run[w].read \in Contents
  BY DEF TypeOK, RunRows
<1>1. CASE RowSame(s)
  BY <1>1 DEF RowSame, PendingKnown
<1>2. CASE RowFailed(s)
  BY <1>2 DEF RowFailed
<1>3. CASE RowClaimed(s)
  BY <1>r, <1>3, ClaimedRow DEF RowClaimed
<1>4. CASE RowSucceeded(s)
  BY <1>r, <1>4, AssignedRow DEF RowSucceeded
<1>5. CASE RowCorrected(s)
  BY <1>5, CorrectedRow DEF RowCorrected
<1> QED
  BY <1>1, <1>2, <1>3, <1>4, <1>5, RowStep

LEMMA BudgetStep ==
    ASSUME TypeOK, Named, PendingKnown, Next, NEW s \in Signals,
           assignment'[s].attempts > assignment[s].attempts,
           assignment'[s].pending = assignment[s].pending
    PROVE  assignment[s].attempts < MaxProviderCalls
<1>r. assignment[s] \in Assignments /\ assignment[s].attempts \in Nat
      /\ \A w \in Runs : run[w].read \in Contents
  BY DEF TypeOK, RunRows, Assignments
<1>1. CASE RowSame(s) \/ RowFailed(s)
  BY <1>r, <1>1 DEF RowSame, RowFailed
<1>2. CASE RowClaimed(s)
  <2>1. PICK w \in Runs : /\ ~Terminal(assignment[s], run[w].read)
                          /\ ~Spent(assignment[s], run[w].read)
                          /\ assignment'[s] = Claimed(assignment[s], run[w].read)
    BY <1>2 DEF RowClaimed
  <2>2. assignment[s].pending = run[w].read /\ run[w].read # NoContent
    BY <1>r, <2>1, ClaimedRow, Constants
  <2>3. assignment[s].status \in Statuses \ {"not_started", "succeeded"}
    BY <1>r, <2>2 DEF PendingKnown, Assignments
  <2> QED
    BY <1>r, <2>1, <2>2, <2>3, Constants DEF Terminal, Spent, ResumesAfterConsent, Statuses
<1>3. CASE RowSucceeded(s)
  BY <1>r, <1>3, AssignedRow DEF RowSucceeded
<1>4. CASE RowCorrected(s)
  <2>1. assignment[s].pending = NoContent
    BY <1>4, CorrectedRow DEF RowCorrected
  <2>2. assignment[s].status # "processing"
    BY <2>1, Constants DEF PendingKnown
  <2> QED
    BY <1>r, <1>4, <2>2, CorrectedRow DEF RowCorrected
<1> QED
  BY <1>1, <1>2, <1>3, <1>4, RowStep

LEMMA PendingCorrect == Spec => []PendingKnown
<1>1. TypeOK /\ Named /\ PendingKnown /\ [Next]_vars => PendingKnown'
  <2>1. UNCHANGED vars /\ PendingKnown => PendingKnown'
    BY DEF vars, PendingKnown
  <2> QED
    BY <2>1, PendingStep
<1> QED
  BY <1>1, PendingInit, TypesCorrect, PTL DEF Spec

(* Whatever crashes, redeliveries, sweeps and consents lead to, a content  *)
(* already claimed is claimed again only while the budget lasts.           *)
THEOREM RepeatsBounded == Spec => RepeatsWithinBudget
<1> DEFINE Within == \A s \in Signals :
               /\ assignment'[s].attempts > assignment[s].attempts
               /\ assignment'[s].pending = assignment[s].pending
               => assignment[s].attempts < MaxProviderCalls
<1>1. TypeOK /\ Named /\ PendingKnown /\ [Next]_vars => [Within]_vars
  BY BudgetStep
<1> QED
  BY <1>1, TypesCorrect, PendingCorrect, PTL DEF Spec, RepeatsWithinBudget

-----------------------------------------------------------------------------
(* Writes are the current attempt's                                        *)

(* A run about to write holds the current attempt, and is alone to.        *)
WritersHold ==
    \A w \in Runs : run[w].at = "writing" => CurrentAttempt(w)
OneWriter ==
    \A w, v \in Runs :
        run[w].at = "writing" /\ run[v].at = "writing" /\ run[w].signal = run[v].signal => w = v
Writers == WritersHold /\ OneWriter

LEMMA WritersInit == Init => Writers
  BY DEF Init, Writers, WritersHold, OneWriter, NoRun

LEMMA WritersStep ==
    ASSUME TypeOK, Named, Writers, Next
    PROVE  Writers'
<1>1. ASSUME NEW w \in Runs, run'[w].at = "writing"
      PROVE  CurrentAttempt(w)'
  <2> DEFINE s == run[w].signal
  <2>s. s \in Signals
    BY DEF TypeOK, RunRows
  <2>1. CASE run'[w] = run[w]
    <3>1. Locked(s) /\ CurrentAttempt(w)
      BY <1>1, <2>1 DEF Locked, Writers, WritersHold
    <3>2. ~RowSucceeded(s)
      <4>1. SUFFICES ASSUME RowSucceeded(s) PROVE FALSE
        OBVIOUS
      <4>2. PICK v \in Runs : /\ run[v].signal = s /\ run[v].at = "writing"
                              /\ run'[v].at = "idle"
        BY <3>1, <4>1 DEF RowSucceeded
      <4>3. v = w
        BY <1>1, <2>1, <4>2 DEF Writers, OneWriter
      <4> QED
        BY <1>1, <4>2, <4>3
    <3>3. RowSame(s)
      BY <2>s, <3>1, <3>2, RowStep DEF RowFailed, RowClaimed, RowCorrected
    <3> QED
      BY <2>1, <3>1, <3>3 DEF RowSame, CurrentAttempt, Holds
  <2>2. CASE run'[w] # run[w]
    <3>1. /\ CurrentAttempt(w) /\ UNCHANGED assignment
          /\ run'[w].signal = s /\ run'[w].read = run[w].read /\ run'[w].attempt = run[w].attempt
      BY <1>1, <2>2, WriterStep
    <3> QED
      BY <3>1 DEF CurrentAttempt, Holds
  <2> QED
    BY <2>1, <2>2
<1>2. ASSUME NEW w \in Runs, NEW v \in Runs, run'[w].at = "writing", run'[v].at = "writing",
             run'[w].signal = run'[v].signal, w # v
      PROVE  FALSE
  <2>1. ASSUME NEW a \in Runs, NEW b \in Runs, a # b, run'[b].at = "writing",
               run'[a].at = "writing", run'[a].signal = run'[b].signal, run'[a] # run[a]
        PROVE  FALSE
    <3>1. Finalize(a) /\ run'[a].signal = run[a].signal /\ run'[b] = run[b]
      BY <2>1, WriterStep
    <3>2. ~Locked(run[a].signal)
      BY <3>1 DEF Finalize
    <3> QED
      BY <2>1, <3>1, <3>2 DEF Locked
  <2>2. run'[w] = run[w] /\ run'[v] = run[v]
    BY <1>2, <2>1
  <2> QED
    BY <1>2, <2>2 DEF Writers, OneWriter
<1> QED
  BY <1>1, <1>2 DEF Writers, WritersHold, OneWriter

(* An alias is written by the attempt that holds the row, and by one run   *)
(* at a time, whatever is killed, delivered twice or corrected meanwhile.  *)
THEOREM WritersCorrect == Spec => []Writers
<1>1. TypeOK /\ Named /\ Writers /\ [Next]_vars => Writers'
  <2>1. UNCHANGED vars /\ Writers => Writers'
    BY DEF vars, Writers, WritersHold, OneWriter, CurrentAttempt, Holds
  <2> QED
    BY <2>1, WritersStep
<1> QED
  BY <1>1, WritersInit, TypesCorrect, PTL DEF Spec

(* An answer from the provider is for the content the row was claimed for, *)
(* and a correction for what the signal says: nothing else changes what a  *)
(* row has an answer for.                                                  *)
AnswersClaimed ==
    [][\A s \in Signals :
         assignment'[s].assigned # assignment[s].assigned =>
            \/ /\ assignment[s].status = "processing"
               /\ assignment'[s].assigned = assignment[s].pending
               /\ assignment'[s].source = "classifier"
            \/ /\ assignment'[s].assigned = content[s]
               /\ assignment'[s].source = "owner_correction"]_vars

LEMMA ClaimedAnswerStep ==
    ASSUME TypeOK, Named, Writers, Next, NEW s \in Signals,
           assignment'[s].assigned # assignment[s].assigned
    PROVE  \/ /\ assignment[s].status = "processing"
              /\ assignment'[s].assigned = assignment[s].pending
              /\ assignment'[s].source = "classifier"
           \/ /\ assignment'[s].assigned = content[s]
              /\ assignment'[s].source = "owner_correction"
<1>r. assignment[s] \in Assignments
  BY DEF TypeOK
<1>1. ~RowSame(s) /\ ~RowFailed(s)
  BY DEF RowSame, RowFailed
<1>2. ~RowClaimed(s)
  <2>1. \A w \in Runs : run[w].read \in Contents
    BY DEF TypeOK, RunRows
  <2> QED
    BY <1>r, <2>1, ClaimedRow DEF RowClaimed
<1>3. CASE RowSucceeded(s)
  <2>1. PICK w \in Runs, p \in Patterns :
            /\ run[w].signal = s /\ (CurrentAttempt(w) \/ run[w].at = "writing")
            /\ assignment'[s] = Assigned(assignment[s], p, "classifier", run[w].read)
    BY <1>3 DEF RowSucceeded
  <2>2. assignment[s].pending = run[w].read /\ assignment[s].status = "processing"
    BY <2>1 DEF CurrentAttempt, Holds, Writers, WritersHold
  <2> QED
    BY <1>r, <2>1, <2>2, AssignedRow
<1>4. CASE RowCorrected(s)
  BY <1>4, CorrectedRow DEF RowCorrected
<1> QED
  BY <1>1, <1>2, <1>3, <1>4, RowStep

(* In every behaviour of the code, as the claim is checked again under the *)
(* lock of the row before an answer is written.                            *)
THEOREM AnswersAreClaimed == Spec => AnswersClaimed
<1> DEFINE Step == \A s \in Signals :
         assignment'[s].assigned # assignment[s].assigned =>
            \/ /\ assignment[s].status = "processing"
               /\ assignment'[s].assigned = assignment[s].pending
               /\ assignment'[s].source = "classifier"
            \/ /\ assignment'[s].assigned = content[s]
               /\ assignment'[s].source = "owner_correction"
<1>1. TypeOK /\ Named /\ Writers /\ [Next]_vars => [Step]_vars
  BY ClaimedAnswerStep
<1> QED
  BY <1>1, TypesCorrect, WritersCorrect, PTL DEF Spec, AnswersClaimed

-----------------------------------------------------------------------------
(* When reads are fresh and contents new                                   *)

(* What was read is what the signal says, until the run claims.            *)
ReadsCurrent ==
    \A w \in Runs : run[w].at = "loaded" => run[w].read = content[run[w].signal]

(* A row never has an answer, nor waits for one, for a content to come; and*)
(* it waits for a newer one than it has.                                   *)
RowsInOrder ==
    \A s \in Signals :
        /\ assignment[s].pattern = NoPattern => assignment[s].assigned = NoContent
        /\ assignment[s].assigned <= content[s]
        /\ assignment[s].pending <= content[s]
        /\ assignment[s].status = "processing" => assignment[s].assigned < assignment[s].pending

(* Only a delivery or a command reads a signal.                            *)
LEMMA LoadedStep ==
    ASSUME TypeOK, Next, NEW w \in Runs, run'[w].at = "loaded"
    PROVE  \/ run'[w] = run[w]
           \/ UNCHANGED content /\ run'[w].read = content[run'[w].signal]
<1>d. \A v \in Runs : v \in DOMAIN run
  BY DEF TypeOK
<1>e. \A v \in Runs : End(v) => run'[w] = run[w]
  BY <1>d DEF End, NoRun
<1>1. ASSUME NEW s \in Signals, NEW v \in Runs, Deliver(v, s) \/ Classify(v, s)
      PROVE  \/ run'[w] = run[w]
             \/ UNCHANGED content /\ run'[w].read = content[run'[w].signal]
  <2>1. UNCHANGED content /\ (UNCHANGED run \/ Loads(v, s))
    BY <1>1 DEF Deliver, Classify
  <2>2. CASE Loads(v, s)
    <3>1. run' = [run EXCEPT ![v] = [NoRun EXCEPT !.at = "loaded", !.signal = s,
                                                  !.read = content[s]]]
      BY <2>2 DEF Loads
    <3>2. CASE v = w
      BY <1>d, <2>1, <3>1, <3>2 DEF NoRun
    <3> QED
      BY <3>1, <3>2
  <2> QED
    BY <2>1, <2>2
<1>2. ASSUME NEW v \in Runs,
             NEW row, run' = [run EXCEPT ![v] = row], row.at # "loaded"
      PROVE  run'[w] = run[w]
  BY <1>d, <1>2
<1>3. ASSUME NEW v \in Runs,
             \/ Claim(v) \/ Answer(v) \/ FailRetryable(v) \/ Finalize(v) \/ RecordFailure(v)
      PROVE  run'[w] = run[w]
  <2>r. run[v] \in RunRows
    BY DEF TypeOK
  <2>1. CASE Claim(v) /\ ~End(v)
    <3> DEFINE row == [run[v] EXCEPT !.at = "called",
                                     !.attempt = assignment[run[v].signal].attempts + 1]
    <3>1. run' = [run EXCEPT ![v] = row] /\ row.at = "called"
      BY <2>r, <2>1 DEF Claim, RunRows
    <3> HIDE DEF row
    <3> QED
      BY <1>2, <3>1
  <2>2. CASE Answer(v) \/ FailRetryable(v)
    <3>1. PICK step \in {"resolved", "failed"}, l \in Labels \cup {NoLabel},
               p \in Patterns \cup {NoPattern} :
              run' = [run EXCEPT ![v] = [run[v] EXCEPT !.at = step, !.label = l, !.pattern = p]]
      BY <2>2 DEF Answer, FailRetryable
    <3>2. [run[v] EXCEPT !.at = step, !.label = l, !.pattern = p].at = step
      BY <2>r DEF RunRows
    <3> QED
      BY <1>2, <3>1, <3>2
  <2>3. CASE Finalize(v) /\ ~End(v)
    <3>1. PICK p : run' = [run EXCEPT ![v] = [run[v] EXCEPT !.at = "writing", !.pattern = p]]
      BY <2>3 DEF Finalize, Succeeds
    <3>2. [run[v] EXCEPT !.at = "writing", !.pattern = p].at = "writing"
      BY <2>r DEF RunRows
    <3> QED
      BY <1>2, <3>1, <3>2
  <2>4. CASE RecordFailure(v) /\ ~End(v)
    <3>1. run' = [run EXCEPT ![v] = [run[v] EXCEPT !.at = "retrying"]]
      BY <2>4 DEF RecordFailure
    <3>2. [run[v] EXCEPT !.at = "retrying"].at = "retrying"
      BY <2>r DEF RunRows
    <3> QED
      BY <1>2, <3>1, <3>2
  <2> QED
    BY <1>e, <1>3, <2>1, <2>2, <2>3, <2>4
<1>4. ASSUME NEW v \in Runs,
             \/ SkipForConsent(v) \/ FailForGood(v) \/ WriteAlias(v) \/ PublishRetry(v)
             \/ Kill(v)
      PROVE  run'[w] = run[w]
  BY <1>e, <1>4 DEF SkipForConsent, FailForGood, WriteAlias, Succeeds, PublishRetry, Kill
<1>5. UNCHANGED run => run'[w] = run[w]
  OBVIOUS
<1>6. ASSUME NEW s \in Signals,
             \/ Edit(s) \/ OnCommit(s) \/ Confirm(s) \/ NeverConfirmed(s) \/ Sweep(s)
             \/ LoseMessage(s) \/ ConfirmAges(s) \/ Ripen(s)
      PROVE  UNCHANGED run
  BY <1>6 DEF Edit, OnCommit, Confirm, NeverConfirmed, Sweep, LoseMessage, ConfirmAges, Ripen
<1>7. ASSUME NEW p \in Patterns, NEW q \in Patterns,
             \/ Rename(p) \/ Move(p, q) \/ SplitToNew(p, q)
             \/ \E o \in Owners : BeginMerge(o, p, q)
      PROVE  UNCHANGED run
  BY <1>7 DEF Rename, Move, SplitToNew, BeginMerge
<1>8. ASSUME NEW o \in Owners, CommitMerge(o) \/ DropMerge(o)
      PROVE  UNCHANGED run
  BY <1>8 DEF CommitMerge, DropMerge
<1> QED
  BY <1>1, <1>3, <1>4, <1>5, <1>6, <1>7, <1>8 DEF Next, Works, Runs

LEMMA Numbers ==
    ASSUME TypeOK, NEW s \in Signals
    PROVE  /\ content[s] \in Int /\ content[s] >= 0
           /\ assignment[s].assigned \in Int /\ assignment[s].pending \in Int
           /\ \A w \in Runs : run[w].read \in Int /\ run[w].read > NoContent
  BY Constants DEF TypeOK, Assignments, RunRows, Contents, NoContent

LEMMA OrderInit == Init => RowsInOrder /\ ReadsCurrent
  BY DEF Init, RowsInOrder, ReadsCurrent, NewAssignment, NoRun, NoContent

LEMMA ReadsStep ==
    ASSUME TypeOK, ReadsCurrent, Next, ReadsAreFresh
    PROVE  ReadsCurrent'
<1> SUFFICES ASSUME NEW w \in Runs, run'[w].at = "loaded"
             PROVE  run'[w].read = content'[run'[w].signal]
  BY DEF ReadsCurrent
<1>1. CASE run'[w] = run[w]
  BY <1>1 DEF ReadsCurrent, ReadsAreFresh
<1>2. CASE run'[w] # run[w]
  BY <1>2, LoadedStep
<1> QED
  BY <1>1, <1>2

LEMMA OrderStep ==
    ASSUME TypeOK, TypeOK', Named, Writers, ReadsCurrent, RowsInOrder, Next, EditsAreNew
    PROVE  RowsInOrder'
<1> SUFFICES ASSUME NEW s \in Signals
             PROVE  /\ assignment'[s].pattern = NoPattern => assignment'[s].assigned = NoContent
                    /\ assignment'[s].assigned <= content'[s]
                    /\ assignment'[s].pending <= content'[s]
                    /\ assignment'[s].status = "processing" =>
                          assignment'[s].assigned < assignment'[s].pending
  BY DEF RowsInOrder
<1>r. assignment[s] \in Assignments
  BY DEF TypeOK
<1>n. /\ content[s] \in Int /\ content[s] >= 0
      /\ assignment[s].assigned \in Int /\ assignment[s].pending \in Int
      /\ \A w \in Runs : run[w].read \in Int /\ run[w].read > NoContent
  BY Numbers
<1>c. content'[s] \in Int /\ content'[s] >= content[s]
  BY Constants DEF TypeOK, EditsAreNew
<1>o. /\ assignment[s].pattern = NoPattern => assignment[s].assigned = NoContent
      /\ assignment[s].assigned <= content[s] /\ assignment[s].pending <= content[s]
      /\ assignment[s].status = "processing" => assignment[s].assigned < assignment[s].pending
  BY DEF RowsInOrder
<1>1. CASE RowSame(s)
  BY <1>n, <1>c, <1>o, <1>1 DEF RowSame
<1>2. CASE RowFailed(s)
  <2>1. assignment'[s].pending <= content[s] /\ assignment'[s].pending \in Int
    BY <1>n, <1>o, <1>2 DEF RowFailed, ReadsCurrent
  <2> QED
    BY <1>n, <1>c, <1>o, <1>2, <2>1 DEF RowFailed
<1>3. CASE RowClaimed(s)
  <2>1. PICK w \in Runs : /\ run[w].at = "loaded" /\ run[w].signal = s
                          /\ ~AlreadyAssigned(assignment[s], run[w].read)
                          /\ assignment'[s] = Claimed(assignment[s], run[w].read)
    BY <1>3 DEF RowClaimed
  <2>2. run[w].read = content[s]
    BY <2>1 DEF ReadsCurrent
  <2>3. assignment[s].assigned < content[s]
    BY <1>n, <1>o, <2>1, <2>2 DEF AlreadyAssigned
  <2>4. /\ assignment'[s].pattern = assignment[s].pattern
        /\ assignment'[s].assigned = assignment[s].assigned
        /\ assignment'[s].pending = content[s]
    BY <1>r, <2>1, <2>2, ClaimedRow DEF TypeOK
  <2> QED
    BY <1>n, <1>c, <1>o, <2>3, <2>4
<1>4. CASE RowSucceeded(s)
  <2>1. PICK w \in Runs, p \in Patterns :
            /\ run[w].signal = s /\ (CurrentAttempt(w) \/ run[w].at = "writing")
            /\ assignment'[s] = Assigned(assignment[s], p, "classifier", run[w].read)
    BY <1>4 DEF RowSucceeded
  <2>2. assignment[s].pending = run[w].read
    BY <2>1 DEF CurrentAttempt, Writers, WritersHold
  <2>3. /\ assignment'[s].pattern = p /\ assignment'[s].assigned = run[w].read
        /\ assignment'[s].pending = NoContent /\ assignment'[s].status = "succeeded"
    BY <1>r, <2>1, AssignedRow
  <2> QED
    BY <1>n, <1>c, <1>o, <2>2, <2>3, Constants DEF NoContent
<1>5. CASE RowCorrected(s)
  <2>1. PICK p \in Patterns : assignment'[s] = Corrected(s, p)
    BY <1>5 DEF RowCorrected
  <2>2. /\ assignment'[s].pattern = p /\ assignment'[s].assigned = content[s]
        /\ assignment'[s].pending = NoContent /\ assignment'[s].status = "succeeded"
    BY <2>1, CorrectedRow
  <2> QED
    BY <1>n, <1>c, <2>2, Constants DEF NoContent
<1> QED
  BY <1>1, <1>2, <1>3, <1>4, <1>5, RowStep

(* An answer is written for a content newer than what the row has.         *)
LEMMA NewerStep ==
    ASSUME TypeOK, Named, Writers, RowsInOrder, Next, NEW s \in Signals,
           assignment'[s].assigned # assignment[s].assigned
    PROVE  /\ assignment'[s].assigned > assignment[s].assigned
           /\ assignment'[s].assigned >= assignment[s].pending
<1>r. assignment[s] \in Assignments
  BY DEF TypeOK
<1>n. /\ content[s] \in Int
      /\ assignment[s].assigned \in Int /\ assignment[s].pending \in Int
      /\ \A w \in Runs : run[w].read \in Int
  BY Numbers
<1>1. CASE RowSame(s) \/ RowFailed(s)
  BY <1>1 DEF RowSame, RowFailed
<1>2. CASE RowClaimed(s)
  <2>1. \A w \in Runs : run[w].read \in Contents
    BY DEF TypeOK, RunRows
  <2> QED
    BY <1>r, <1>2, <2>1, ClaimedRow DEF RowClaimed
<1>3. CASE RowSucceeded(s)
  <2>1. PICK w \in Runs, p \in Patterns :
            /\ run[w].signal = s /\ (CurrentAttempt(w) \/ run[w].at = "writing")
            /\ assignment'[s] = Assigned(assignment[s], p, "classifier", run[w].read)
    BY <1>3 DEF RowSucceeded
  <2>2. assignment[s].pending = run[w].read /\ assignment[s].status = "processing"
    BY <2>1 DEF CurrentAttempt, Holds, Writers, WritersHold
  <2>3. assignment[s].assigned < assignment[s].pending
    BY <2>2 DEF RowsInOrder
  <2> QED
    BY <1>r, <1>n, <2>1, <2>2, <2>3, AssignedRow
<1>4. CASE RowCorrected(s)
  <2>1. assignment'[s].assigned = content[s]
    BY <1>4, CorrectedRow DEF RowCorrected
  <2> QED
    BY <1>n, <2>1 DEF RowsInOrder
<1> QED
  BY <1>1, <1>2, <1>3, <1>4, RowStep

(* A correction for what the signal says now is only replaced by another.  *)
LEMMA KeptStep ==
    ASSUME TypeOK, Named, Writers, RowsInOrder, Next, NEW s \in Signals,
           assignment[s].source = "owner_correction", assignment[s].assigned = content[s]
    PROVE  assignment'[s].source = "owner_correction"
<1>r. assignment[s] \in Assignments
  BY DEF TypeOK
<1>1. CASE RowSame(s) \/ RowFailed(s)
  BY <1>1 DEF RowSame, RowFailed
<1>2. CASE RowClaimed(s)
  <2>1. \A w \in Runs : run[w].read \in Contents
    BY DEF TypeOK, RunRows
  <2> QED
    BY <1>r, <1>2, <2>1, ClaimedRow DEF RowClaimed
<1>3. CASE RowSucceeded(s)
  <2>1. assignment[s].status = "processing"
    BY <1>3 DEF RowSucceeded, CurrentAttempt, Holds, Writers, WritersHold
  <2>2. assignment[s].assigned < assignment[s].pending /\ assignment[s].pending <= content[s]
    BY <2>1 DEF RowsInOrder
  <2> QED
    BY <2>2, Numbers
<1>4. CASE RowCorrected(s)
  BY <1>4, CorrectedRow DEF RowCorrected
<1> QED
  BY <1>1, <1>2, <1>3, <1>4, RowStep

OrderInv  == TypeOK /\ Named /\ Writers /\ ReadsCurrent /\ RowsInOrder
OrderNext == Next /\ ReadsAreFresh /\ EditsAreNew

SpecInOrder     == Init /\ [][OrderNext]_vars
SpecAliasesStay == Init /\ [][Next /\ AliasesStay]_vars

(* The specification the runs check allows less than both.                 *)
LEMMA CarefulIsMore == SpecCareful => SpecInOrder /\ SpecAliasesStay
<1>1. [Next /\ ReadsAreFresh /\ EditsAreNew /\ AliasesStay]_vars
        => [OrderNext]_vars /\ [Next /\ AliasesStay]_vars
  BY DEF OrderNext
<1> QED
  BY <1>1, PTL DEF SpecCareful, SpecInOrder, SpecAliasesStay

LEMMA OrderCorrect == SpecInOrder => []OrderInv
<1>1. Init => OrderInv
  BY TypeInit, NamedInit, WritersInit, OrderInit DEF OrderInv
<1>2. OrderInv /\ OrderNext => OrderInv'
  <2> SUFFICES ASSUME OrderInv, OrderNext PROVE OrderInv'
    OBVIOUS
  <2>1. TypeOK' /\ Named'
    BY TypeStep, NamedStep DEF OrderInv, OrderNext
  <2>2. Writers' /\ ReadsCurrent'
    BY WritersStep, ReadsStep DEF OrderInv, OrderNext
  <2>3. RowsInOrder'
    BY <2>1, OrderStep DEF OrderInv, OrderNext
  <2> QED
    BY <2>1, <2>2, <2>3 DEF OrderInv
<1>3. OrderInv /\ UNCHANGED vars => OrderInv'
  BY DEF OrderInv, vars, TypeOK, Named, Writers, WritersHold, OneWriter, CurrentAttempt, Holds,
         ReadsCurrent, RowsInOrder
<1> QED
  BY <1>1, <1>2, <1>3, PTL DEF SpecInOrder

(* However late an answer comes, what it writes is for a newer content than*)
(* the pattern the row has, and no older than the one last claimed.        *)
THEOREM NewerContentKept == SpecInOrder => NewerContentStays
<1> DEFINE Newer == \A s \in Signals :
               LET old == assignment[s]
                   new == assignment'[s].assigned
               IN new # old.assigned => new > old.assigned /\ new >= old.pending
<1>1. OrderInv /\ OrderNext => Newer
  BY NewerStep DEF OrderInv, OrderNext
<1> QED
  BY <1>1, OrderCorrect, PTL DEF SpecInOrder, NewerContentStays

(* No classification replaces an owner's correction of what the signal     *)
(* says now.                                                               *)
THEOREM CorrectionsKept == SpecInOrder => OwnerCorrectionKept
<1> DEFINE Kept == \A s \in Signals :
               /\ assignment[s].source = "owner_correction"
               /\ assignment[s].assigned = content[s]
               => assignment'[s].source = "owner_correction"
<1>1. OrderInv /\ OrderNext => Kept
  BY KeptStep DEF OrderInv, OrderNext
<1> QED
  BY <1>1, OrderCorrect, PTL DEF SpecInOrder, OwnerCorrectionKept

-----------------------------------------------------------------------------
(* Patterns merged away                                                    *)

WritesActive ==
    \A w \in Runs : run[w].at = "writing" => run[w].pattern \in Active
OnActive == AssignedToActive /\ WritesActive

(* Only the merge of a pattern ends it, and it moves the signals it listed.*)
LEMMA PatternEnds ==
    ASSUME TypeOK, Named, Next, NEW p \in Active, p \notin Active'
    PROVE  \E o \in Owners, q \in Patterns :
              /\ p # q
              /\ assignment' = Moved(On(p), q)
<1>p. p \in Patterns /\ pattern[p].status = "active"
  BY DEF Active
<1>1. ~UNCHANGED pattern
  BY DEF Active
<1>2. ~\E q \in Patterns, l \in Labels \cup {NoLabel} : Created(q, l)
  BY <1>p DEF Created, Active, NewPattern, TypeOK
<1>3. ~\E q \in Patterns : Rename(q)
  BY <1>p DEF Rename, Active, TypeOK, PatternRows
<1>4. ~\E w \in Runs : Finalize(w)
  <2>1. \A w \in Runs : run[w].label \in Labels \cup {NoLabel}
    BY DEF TypeOK, RunRows
  <2> QED
    BY <1>1, <1>2, <2>1 DEF Finalize
<1>5. ~\E q, t \in Patterns : SplitToNew(q, t)
  BY <1>2 DEF SplitToNew
<1>6. \E o \in Owners : CommitMerge(o)
  BY <1>1, <1>3, <1>4, <1>5
  DEF Next, Works, Edit, OnCommit, Confirm, NeverConfirmed, Sweep, LoseMessage, ConfirmAges,
      Ripen, Deliver, Classify, SkipForConsent, Claim, Answer, FailRetryable, FailForGood,
      WriteAlias, RecordFailure, PublishRetry, Kill, Move, BeginMerge, DropMerge
<1>7. PICK o \in Owners : CommitMerge(o)
  BY <1>6
<1> DEFINE source == merge[o].source
           target == merge[o].target
<1>8. /\ Unchanged(o) /\ assignment' = Moved(merge[o].listed, target)
      /\ pattern' = [pattern EXCEPT ![source] =
                        [pattern[source] EXCEPT !.status = "merged", !.into = target]]
  BY <1>1, <1>7 DEF CommitMerge
<1>9. source # target /\ target \in Patterns
  BY <1>7 DEF CommitMerge, Named
<1>10. p = source
  <2> HIDE DEF source, target
  <2> QED
    BY <1>p, <1>8 DEF Active
<1> QED
  BY <1>8, <1>9, <1>10 DEF Unchanged

LEMMA ActiveInit == Init => OnActive
  BY DEF Init, OnActive, AssignedToActive, WritesActive, NewAssignment, NoRun

LEMMA ActiveStep ==
    ASSUME TypeOK, Named, OnActive, Next, AliasesStay
    PROVE  OnActive'
<1>1. ASSUME NEW s \in Signals, assignment'[s].pattern # NoPattern
      PROVE  assignment'[s].pattern \in Active'
  <2>r. assignment[s] \in Assignments /\ \A w \in Runs : run[w].read \in Contents
    BY DEF TypeOK, RunRows
  <2>1. CASE assignment'[s].pattern = assignment[s].pattern
    <3> DEFINE p == assignment[s].pattern
    <3>1. p \in Active
      BY <1>1, <2>1 DEF OnActive, AssignedToActive
    <3>2. SUFFICES ASSUME p \notin Active' PROVE FALSE
      BY <2>1
    <3>3. PICK q \in Patterns : p # q /\ assignment' = Moved(On(p), q)
      BY <3>1, <3>2, PatternEnds
    <3>4. s \in On(p)
      BY DEF On
    <3>5. assignment'[s] = Corrected(s, q)
      BY <3>3, <3>4 DEF Moved
    <3> QED
      BY <2>1, <3>3, <3>5, CorrectedRow
  <2>2. CASE RowSame(s) \/ RowFailed(s) \/ RowClaimed(s)
    BY <2>r, <2>1, <2>2, ClaimedRow DEF RowSame, RowFailed, RowClaimed
  <2>3. CASE RowSucceeded(s)
    <3>1. PICK w \in Runs, p \in Patterns :
              /\ \/ p \in Active'
                 \/ run[w].at = "writing" /\ p = run[w].pattern /\ UNCHANGED pattern
              /\ assignment'[s] = Assigned(assignment[s], p, "classifier", run[w].read)
      BY <2>3 DEF RowSucceeded
    <3>2. p \in Active'
      BY <3>1 DEF OnActive, WritesActive, Active
    <3> QED
      BY <2>r, <3>1, <3>2, AssignedRow
  <2>4. CASE RowCorrected(s)
    BY <2>4, CorrectedRow DEF RowCorrected
  <2> QED
    BY <2>2, <2>3, <2>4, RowStep
<1>2. ASSUME NEW w \in Runs, run'[w].at = "writing"
      PROVE  run'[w].pattern \in Active'
  <2>1. CASE run'[w] = run[w]
    BY <1>2, <2>1 DEF AliasesStay, Active, Named
  <2>2. CASE run'[w] # run[w]
    BY <1>2, <2>2, WriterStep DEF Active
  <2> QED
    BY <2>1, <2>2
<1> QED
  BY <1>1, <1>2 DEF OnActive, AssignedToActive, WritesActive

LEMMA ActiveCorrect == SpecAliasesStay => []OnActive
<1>1. TypeOK /\ Named /\ OnActive /\ [Next /\ AliasesStay]_vars => OnActive'
  <2>1. OnActive /\ UNCHANGED vars => OnActive'
    BY DEF OnActive, AssignedToActive, WritesActive, Active, vars
  <2> QED
    BY <2>1, ActiveStep
<1>2. [Next /\ AliasesStay]_vars => [Next]_vars
  OBVIOUS
<1>3. SpecAliasesStay => Spec
  BY <1>2, PTL DEF SpecAliasesStay, Spec
<1> QED
  BY <1>1, <1>3, ActiveInit, TypesCorrect, PTL DEF SpecAliasesStay

(* No signal is left on a pattern that was merged away, however its claims *)
(* and moves overlap the merge, stale reads and returning contents         *)
(* included, unless a merge commits just before an alias is written.       *)
THEOREM AssignmentsActive == SpecAliasesStay => []AssignedToActive
<1>1. OnActive => AssignedToActive
  BY DEF OnActive
<1> QED
  BY <1>1, ActiveCorrect, PTL

-----------------------------------------------------------------------------
(* Sightings                                                               *)

(* Only a merge takes a sighting away, from the pattern it ends.           *)
LEMMA SightingEnds ==
    ASSUME TypeOK, Named, Next, NEW p \in Patterns, NEW e,
           <<p, e>> \in sightings, <<p, e>> \notin sightings'
    PROVE  \E q \in Patterns : p # q /\ assignment' = Moved(On(p), q)
<1>1. ~(sightings \subseteq sightings')
  OBVIOUS
<1>2. ~\E w \in Runs : Finalize(w) \/ WriteAlias(w)
  BY <1>1 DEF Finalize, WriteAlias, Succeeds
<1>3. ~\E q, t \in Patterns : Move(q, t) \/ SplitToNew(q, t)
  BY <1>1 DEF Move, SplitToNew
<1>4. \E o \in Owners : CommitMerge(o)
  BY <1>1, <1>2, <1>3
  DEF Next, Works, Edit, OnCommit, Confirm, NeverConfirmed, Sweep, LoseMessage, ConfirmAges,
      Ripen, Deliver, Classify, SkipForConsent, Claim, Answer, FailRetryable, FailForGood,
      RecordFailure, PublishRetry, Kill, Rename, BeginMerge, DropMerge
<1>5. PICK o \in Owners : CommitMerge(o)
  BY <1>4
<1> DEFINE source == merge[o].source
           target == merge[o].target
<1>6. /\ Unchanged(o) /\ assignment' = Moved(merge[o].listed, target)
      /\ MovedSightings(source, target) \subseteq sightings'
  BY <1>1, <1>5 DEF CommitMerge
<1>7. source # target /\ target \in Patterns
  BY <1>5 DEF CommitMerge, Named
<1>8. p = source
  <2> HIDE DEF source, target
  <2>1. p # source => <<p, e>> \in MovedSightings(source, target)
    <3>1. p # source => <<p, e>> = <<IF <<p, e>>[1] = source THEN target ELSE <<p, e>>[1], <<p, e>>[2]>>
      OBVIOUS
    <3> QED
      BY <3>1 DEF MovedSightings
  <2> QED
    BY <1>6, <2>1
<1> QED
  BY <1>6, <1>7, <1>8 DEF Unchanged

LEMMA SightedStep ==
    ASSUME TypeOK, Named, SightedWhereAssigned, Next
    PROVE  SightedWhereAssigned'
<1> SUFFICES ASSUME NEW s \in Signals, assignment'[s].pattern # NoPattern
             PROVE  <<assignment'[s].pattern, Home[s]>> \in sightings'
  BY DEF SightedWhereAssigned
<1>r. assignment[s] \in Assignments /\ \A w \in Runs : run[w].read \in Contents
  BY DEF TypeOK, RunRows
<1>1. CASE assignment'[s].pattern = assignment[s].pattern
  <2> DEFINE p == assignment[s].pattern
  <2>1. p \in Patterns /\ <<p, Home[s]>> \in sightings
    BY <1>r, <1>1 DEF SightedWhereAssigned, Assignments
  <2>2. SUFFICES ASSUME <<p, Home[s]>> \notin sightings' PROVE FALSE
    BY <1>1
  <2>3. PICK q \in Patterns : p # q /\ assignment' = Moved(On(p), q)
    BY <2>1, <2>2, SightingEnds
  <2>4. assignment'[s] = Corrected(s, q)
    BY <2>3 DEF Moved, On
  <2> QED
    BY <1>1, <2>3, <2>4, CorrectedRow
<1>2. CASE RowSame(s) \/ RowFailed(s) \/ RowClaimed(s)
  BY <1>r, <1>1, <1>2, ClaimedRow DEF RowSame, RowFailed, RowClaimed
<1>3. CASE RowSucceeded(s)
  BY <1>r, <1>3, AssignedRow DEF RowSucceeded
<1>4. CASE RowCorrected(s)
  BY <1>4, CorrectedRow DEF RowCorrected
<1> QED
  BY <1>2, <1>3, <1>4, RowStep

(* Every signal that has a pattern has been seen under it, through every   *)
(* overlap of classifications, moves, splits and merges.                   *)
THEOREM AssignmentsSighted == Spec => []SightedWhereAssigned
<1>1. Init => SightedWhereAssigned
  BY DEF Init, SightedWhereAssigned, NewAssignment
<1>2. TypeOK /\ Named /\ SightedWhereAssigned /\ [Next]_vars => SightedWhereAssigned'
  <2>1. UNCHANGED vars /\ SightedWhereAssigned => SightedWhereAssigned'
    BY DEF vars, SightedWhereAssigned
  <2> QED
    BY <2>1, SightedStep
<1> QED
  BY <1>1, <1>2, TypesCorrect, PTL DEF Spec

-----------------------------------------------------------------------------
(* SignalClassification                                                    *)

(* The row of a signal as SignalClassification sees it, and the life of a  *)
(* pattern.                                                                *)
SeenSame(s) == RowOf(assignment'[s]) = RowOf(assignment[s])
LifeSame    == \A p \in Patterns : pattern'[p].status = pattern[p].status

LEMMA SameSeen == ASSUME NEW s \in Signals, RowSame(s) PROVE SeenSame(s)
  BY DEF RowSame, SeenSame, RowOf

LEMMA AssignedSeen ==
    ASSUME NEW r \in Assignments, NEW p, NEW source, NEW c
    PROVE  RowOf(Assigned(r, p, source, c)) = Classification!Answered(p, source, c)
<1>1. PhaseOf("succeeded") = "answered" /\ Classification!NoContent = NoContent
  BY DEF PhaseOf, Classification!NoContent, NoContent
<1> QED
  BY <1>1, AssignedRow DEF RowOf, Classification!Answered

LEMMA CorrectedSeen ==
    ASSUME TypeOK, NEW s \in Signals, NEW p
    PROVE  RowOf(Corrected(s, p)) = Classification!Answered(p, "owner_correction", content[s])
<1>1. PhaseOf("succeeded") = "answered" /\ Classification!NoContent = NoContent
  BY DEF PhaseOf, Classification!NoContent, NoContent
<1> QED
  BY <1>1, CorrectedRow DEF RowOf, Classification!Answered

LEMMA Stutters ==
    ASSUME UNCHANGED content, LifeSame, \A s \in Signals : SeenSame(s)
    PROVE  UNCHANGED Classification!vars
  BY DEF LifeSame, SeenSame, Classification!vars

(* Whoever changes a pattern and leaves its status alone.                  *)
LEMMA RenameLives == ASSUME TypeOK, NEW p \in Patterns, Rename(p) PROVE LifeSame
<1>1. PICK l : pattern' = [pattern EXCEPT ![p] = [pattern[p] EXCEPT !.name = l]]
  BY DEF Rename
<1>2. pattern[p] \in PatternRows /\ p \in DOMAIN pattern
  BY DEF TypeOK
<1>3. [pattern[p] EXCEPT !.name = l].status = pattern[p].status
  BY <1>2 DEF PatternRows
<1> QED
  BY <1>1, <1>2, <1>3 DEF LifeSame

LEMMA CreatedLives ==
    ASSUME TypeOK, NEW p \in Patterns, NEW l, Created(p, l)
    PROVE  Classification!Takes(p)
<1>1. pattern[p].status = "absent" /\ pattern' = [pattern EXCEPT ![p] = NewPattern(l)]
  BY DEF Created
<1>2. NewPattern(l).status = "active" /\ DOMAIN pattern = Patterns
  BY DEF NewPattern, TypeOK
<1>3. \A q \in Patterns : pattern'[q].status = IF q = p THEN "active" ELSE pattern[q].status
  BY <1>1, <1>2
<1> QED
  BY <1>1, <1>3 DEF Classification!Takes

(* What a run does to one signal, when it creates no pattern.              *)
LEMMA RowRefines ==
    ASSUME OrderInv, OnActive, NEW s \in Signals, UNCHANGED content, UNCHANGED pattern,
           \A t \in Signals : t # s => SeenSame(t),
           RowSame(s) \/ RowFailed(s) \/ RowClaimed(s) \/ RowSucceeded(s)
    PROVE  [Classification!Next]_Classification!vars
<1> DEFINE r == assignment[s]
<1>0. /\ TypeOK /\ Writers /\ ReadsCurrent /\ RowsInOrder
      /\ r \in Assignments /\ \A w \in Runs : run[w].read \in Contents
  BY DEF OrderInv, TypeOK, RunRows
<1>1. CASE RowSame(s)
  BY <1>1, SameSeen, Stutters DEF LifeSame
<1>2. CASE RowFailed(s)
  <2>1. PICK c \in {r.pending, content[s]} : assignment'[s].pending = c
    BY <1>0, <1>2 DEF RowFailed, ReadsCurrent
  <2>2. RowOf(assignment'[s]) = Classification!Still(RowOf(r), "failed", c)
    <3>1. PhaseOf(assignment'[s].status) = "failed"
      BY <1>2 DEF RowFailed, PhaseOf
    <3>2. /\ assignment'[s].pattern = r.pattern /\ assignment'[s].source = r.source
          /\ assignment'[s].assigned = r.assigned
      BY <1>2 DEF RowFailed
    <3> QED
      BY <2>1, <3>1, <3>2 DEF RowOf, Classification!Still
  <2>3. RowOf(r).phase # "answered" /\ RowOf(r).asked = r.pending
    BY <1>2 DEF RowOf, RowFailed, PhaseOf
  <2>4. Classification!Fail(s)
    BY <2>2, <2>3 DEF Classification!Fail, SeenSame
  <2> QED
    BY <2>4 DEF Classification!Next
<1>3. CASE RowClaimed(s)
  <2>1. PICK w \in Runs : /\ run[w].at = "loaded" /\ run[w].signal = s
                          /\ ~AlreadyAssigned(r, run[w].read)
                          /\ assignment'[s] = Claimed(r, run[w].read)
    BY <1>3 DEF RowClaimed
  <2>2. run[w].read = content[s]
    BY <1>0, <2>1 DEF ReadsCurrent
  <2>3. r.assigned < content[s]
    BY <1>0, <2>1, <2>2, Numbers DEF AlreadyAssigned, RowsInOrder, NoContent
  <2>4. RowOf(assignment'[s]) = Classification!Still(RowOf(r), "asked", content[s])
    <3>1. /\ assignment'[s].status = "processing" /\ assignment'[s].pending = content[s]
          /\ assignment'[s].pattern = r.pattern /\ assignment'[s].source = r.source
          /\ assignment'[s].assigned = r.assigned
      BY <1>0, <2>1, <2>2, ClaimedRow
    <3>2. PhaseOf("processing") = "asked"
      BY DEF PhaseOf
    <3> QED
      BY <3>1, <3>2 DEF RowOf, Classification!Still
  <2>5. RowOf(r).about = r.assigned
    BY DEF RowOf
  <2>6. Classification!Ask(s)
    BY <2>3, <2>4, <2>5 DEF Classification!Ask, SeenSame
  <2> QED
    BY <2>6 DEF Classification!Next
<1>4. CASE RowSucceeded(s)
  <2>1. PICK w \in Runs, p \in Patterns :
            /\ run[w].signal = s
            /\ \/ CurrentAttempt(w) /\ p \in Active'
               \/ run[w].at = "writing" /\ p = run[w].pattern
            /\ assignment'[s] = Assigned(r, p, "classifier", run[w].read)
    BY <1>4 DEF RowSucceeded
  <2>2. r.status = "processing" /\ r.pending = run[w].read
    BY <1>0, <2>1 DEF CurrentAttempt, Holds, Writers, WritersHold
  <2>3. p \in Active
    BY <2>1 DEF OnActive, WritesActive, Active
  <2>4. RowOf(r).phase = "asked" /\ RowOf(r).asked = run[w].read
    BY <2>2 DEF RowOf, PhaseOf
  <2>5. RowOf(assignment'[s]) = Classification!Answered(p, "classifier", run[w].read)
    BY <1>0, <2>1, AssignedSeen
  <2>6. Classification!Takes(p)
    BY <2>3 DEF Classification!Takes, Active
  <2>7. Classification!Answer(s)
    BY <2>4, <2>5, <2>6 DEF Classification!Answer, SeenSame
  <2> QED
    BY <2>7 DEF Classification!Next
<1> QED
  BY <1>1, <1>2, <1>3, <1>4

LEMMA RunRefines ==
    ASSUME OrderInv, OnActive, NEW w \in Runs, Works(w) \/ Kill(w)
    PROVE  [Classification!Next]_Classification!vars
<1>s. PICK s \in Signals : s = run[w].signal
  BY DEF OrderInv, TypeOK, RunRows
<1> DEFINE r == assignment[s]
<1>0. TypeOK /\ Named /\ r \in Assignments /\ UNCHANGED content
  BY DEF OrderInv, TypeOK, RunRows, Works, SkipForConsent, Claim, Answer, FailRetryable,
         FailForGood, Finalize, WriteAlias, RecordFailure, PublishRetry, Kill
<1>1. \A t \in Signals : t # s => SeenSame(t)
  <2>1. UNCHANGED assignment \/ \E row : assignment' = [assignment EXCEPT ![s] = row]
    BY <1>s DEF Works, SkipForConsent, Claim, Answer, FailRetryable, FailForGood, Finalize,
           WriteAlias, Succeeds, RecordFailure, PublishRetry, Kill
  <2>2. DOMAIN assignment = Signals
    BY <1>0 DEF TypeOK
  <2> QED
    BY <2>1, <2>2 DEF SeenSame
<1>2. CASE UNCHANGED pattern
  <2>1. CASE UNCHANGED assignment
    BY <1>0, <1>2, <2>1, Stutters DEF LifeSame, SeenSame
  <2>2. CASE ~UNCHANGED assignment
    <3>1. \/ SkipForConsent(w) \/ Claim(w) \/ FailForGood(w) \/ Finalize(w)
          \/ WriteAlias(w) \/ RecordFailure(w)
      BY <2>2 DEF Works, Answer, FailRetryable, PublishRetry, Kill
    <3>2. RowSame(s) \/ RowFailed(s) \/ RowClaimed(s) \/ RowSucceeded(s)
      BY <1>0, <3>1, RowOfRun
    <3> QED
      BY <1>0, <1>1, <1>2, <3>2, RowRefines
  <2> QED
    BY <2>1, <2>2
<1>3. CASE ~UNCHANGED pattern
  <2>1. PICK p \in Patterns : /\ CurrentAttempt(w) /\ Created(p, run[w].label)
                              /\ Succeeds(w, s, p)
    BY <1>s, <1>3 DEF Works, SkipForConsent, Claim, Answer, FailRetryable, FailForGood, Finalize,
                WriteAlias, RecordFailure, PublishRetry, Kill
  <2>2. assignment'[s] = Assigned(r, p, "classifier", run[w].read)
    BY <1>0, <1>s, <2>1 DEF Succeeds, TypeOK
  <2>3. RowOf(r).phase = "asked" /\ RowOf(r).asked = run[w].read
    BY <1>s, <2>1 DEF RowOf, PhaseOf, CurrentAttempt, Holds
  <2>4. RowOf(assignment'[s]) = Classification!Answered(p, "classifier", run[w].read)
    BY <1>0, <2>2, AssignedSeen
  <2>5. Classification!Takes(p)
    BY <1>0, <2>1, CreatedLives
  <2>6. Classification!Answer(s)
    BY <1>0, <1>1, <2>3, <2>4, <2>5 DEF Classification!Answer, SeenSame
  <2> QED
    BY <1>0, <2>6 DEF Classification!Next
<1> QED
  BY <1>2, <1>3

LEMMA MovedSeen ==
    ASSUME TypeOK, NEW moved \in SUBSET Signals, NEW p, assignment' = Moved(moved, p)
    PROVE  Classification!Corrected(moved, p)
<1>1. \A s \in Signals :
        RowOf(assignment'[s]) = IF s \in moved
                                THEN Classification!Answered(p, "owner_correction", content[s])
                                ELSE RowOf(assignment[s])
  BY CorrectedSeen DEF Moved
<1> QED
  BY <1>1 DEF Classification!Corrected

LEMMA OnSeen == ASSUME NEW p PROVE Classification!On(p) = On(p)
  BY DEF Classification!On, On, RowOf

LEMMA OwnerRefines ==
    ASSUME TypeOK, Named,
           \/ \E p, q \in Patterns : Move(p, q) \/ SplitToNew(p, q)
           \/ \E o \in Owners : CommitMerge(o)
    PROVE  [Classification!Next]_Classification!vars
<1>1. ASSUME NEW p \in Patterns, NEW q \in Patterns, Move(p, q) \/ SplitToNew(p, q)
      PROVE  Classification!Move(p, q)
  <2>1. PICK moved \in SUBSET On(p) : assignment' = Moved(moved, q)
    BY <1>1 DEF Move, SplitToNew
  <2>2. moved \in SUBSET Signals /\ moved \in SUBSET Classification!On(p)
    BY OnSeen DEF On
  <2>3. Classification!Corrected(moved, q)
    BY <2>1, <2>2, MovedSeen
  <2>4. Classification!Takes(q) /\ p # q
    <3>1. CASE Move(p, q)
      BY <3>1 DEF Move, Active, Classification!Takes
    <3>2. CASE SplitToNew(p, q)
      <4>1. PICK l \in Labels : Created(q, l)
        BY <3>2 DEF SplitToNew
      <4>2. p # q
        BY <3>2, <4>1 DEF SplitToNew, Active, Created
      <4> QED
        BY <4>1, <4>2, CreatedLives
    <3> QED
      BY <1>1, <3>1, <3>2
  <2>5. pattern[p].status = "active" /\ UNCHANGED content
    BY <1>1 DEF Move, SplitToNew, Active
  <2> QED
    BY <2>2, <2>3, <2>4, <2>5 DEF Classification!Move
<1>2. ASSUME NEW o \in Owners, CommitMerge(o)
      PROVE  UNCHANGED Classification!vars
             \/ \E source, target \in Patterns : Classification!Merge(source, target)
  <2>1. PICK p \in Patterns, q \in Patterns :
            p = merge[o].source /\ q = merge[o].target /\ p # q /\ UNCHANGED content
    BY <1>2 DEF CommitMerge, Named
  <2>2. CASE UNCHANGED <<assignment, pattern>>
    BY <2>1, <2>2, Stutters DEF LifeSame, SeenSame
  <2>3. CASE ~UNCHANGED <<assignment, pattern>>
    <3>1. /\ {p, q} \subseteq Active /\ assignment' = Moved(On(p), q)
          /\ pattern' = [pattern EXCEPT ![p] = [pattern[p] EXCEPT !.status = "merged", !.into = q]]
      BY <1>2, <2>1, <2>3 DEF CommitMerge, Unchanged
    <3>2. Classification!Corrected(Classification!On(p), q)
      BY <3>1, MovedSeen, OnSeen DEF On
    <3>3. \A x \in Patterns : pattern'[x].status = IF x = p THEN "merged" ELSE pattern[x].status
      <4>1. pattern[p] \in PatternRows /\ DOMAIN pattern = Patterns
        BY <2>1 DEF TypeOK
      <4>2. [pattern[p] EXCEPT !.status = "merged", !.into = q].status = "merged"
        BY <4>1 DEF PatternRows
      <4> QED
        BY <3>1, <4>1, <4>2
    <3>4. Classification!Merge(p, q)
      BY <2>1, <3>1, <3>2, <3>3 DEF Classification!Merge, Active
    <3> QED
      BY <2>1, <3>4
  <2> QED
    BY <2>2, <2>3
<1> QED
  BY <1>1, <1>2 DEF Classification!Next

LEMMA EditRefines ==
    ASSUME TypeOK, EditsAreNew, NEW s \in Signals, Edit(s) PROVE Classification!Edit(s)
<1>1. PICK c \in Contents \ {content[s]} : content' = [content EXCEPT ![s] = c]
  BY DEF Edit
<1>2. content'[s] = c /\ c \in Int /\ content[s] \in Int /\ c > content[s]
  BY <1>1, Constants DEF TypeOK, EditsAreNew, Contents
<1>3. UNCHANGED <<assignment, pattern>>
  BY DEF Edit
<1> QED
  BY <1>1, <1>2, <1>3 DEF Classification!Edit, Classification!Contents, Contents

LEMMA ClassificationStep ==
    ASSUME OrderInv, OnActive, [Next /\ EditsAreNew]_vars
    PROVE  [Classification!Next]_Classification!vars
<1>0. TypeOK /\ Named
  BY DEF OrderInv
<1>1. ASSUME NEW t \in Signals, Confirm(t) \/ ConfirmAges(t) \/ Ripen(t)
      PROVE  UNCHANGED Classification!vars
  <2>1. \/ assignment' = [assignment EXCEPT ![t] = [assignment[t] EXCEPT !.published = TRUE]]
        \/ assignment' = [assignment EXCEPT ![t] = [assignment[t] EXCEPT !.published = FALSE]]
        \/ assignment' = [assignment EXCEPT ![t] = [assignment[t] EXCEPT !.ripe = TRUE]]
    BY <1>1 DEF Confirm, ConfirmAges, Ripen
  <2>2. UNCHANGED content /\ UNCHANGED pattern
    BY <1>1 DEF Confirm, ConfirmAges, Ripen
  <2> QED
    BY <1>0, <2>1, <2>2, TimedRow, SameSeen, Stutters DEF LifeSame
<1>2. CASE UNCHANGED <<content, assignment, pattern>>
  BY <1>2, Stutters DEF LifeSame, SeenSame
<1>3. ASSUME NEW t \in Signals,
             \/ OnCommit(t) \/ NeverConfirmed(t) \/ Sweep(t) \/ LoseMessage(t)
             \/ \E w \in Runs : Deliver(w, t) \/ Classify(w, t)
      PROVE  UNCHANGED <<content, assignment, pattern>>
  BY <1>3 DEF OnCommit, NeverConfirmed, Sweep, LoseMessage, Deliver, Classify
<1>4. ASSUME NEW p \in Patterns, Rename(p) PROVE UNCHANGED Classification!vars
  BY <1>0, <1>4, RenameLives, Stutters DEF Rename, SeenSame
<1>5. ASSUME NEW p \in Patterns, NEW q \in Patterns, NEW o \in Owners, BeginMerge(o, p, q)
      PROVE  UNCHANGED <<content, assignment, pattern>>
  BY <1>5 DEF BeginMerge
<1>6. ASSUME NEW o \in Owners, DropMerge(o) PROVE UNCHANGED <<content, assignment, pattern>>
  BY <1>6 DEF DropMerge
<1>7. ASSUME EditsAreNew, NEW s \in Signals, Edit(s) PROVE Classification!Next
  BY <1>0, <1>7, EditRefines DEF Classification!Next
<1>8. UNCHANGED vars => UNCHANGED <<content, assignment, pattern>>
  BY DEF vars
<1> QED
  BY <1>0, <1>1, <1>2, <1>3, <1>4, <1>5, <1>6, <1>7, <1>8, RunRefines, OwnerRefines
     DEF Next, Runs

(* ClassificationSpec: under the three conditions, tasks, commands, sweeps *)
(* and owners together implement SignalClassification: a content of a      *)
(* signal is classified once at most, an owner's answer is not replaced    *)
(* before the signal changes, and no signal is on a pattern merged away.   *)
THEOREM ImplementsClassification == SpecCareful => ClassificationSpec
<1>1. Init => Classification!Init
  <2> SUFFICES ASSUME Init PROVE Classification!Init
    OBVIOUS
  <2>1. \A s \in Signals :
            RowOf(assignment[s]) = [phase |-> "new", on |-> NoPattern, by |-> "classifier",
                                    about |-> Classification!NoContent,
                                    asked |-> Classification!NoContent]
    BY DEF Init, NewAssignment, RowOf, PhaseOf, Classification!NoContent, NoContent
  <2>2. \A p \in Patterns :
            pattern[p].status = IF p \in DOMAIN FirstLabel THEN "active" ELSE "absent"
    BY DEF Init, NewPattern, NoPatternRow
  <2> QED
    BY <2>1, <2>2 DEF Init, Classification!Init
<1>2. OrderInv /\ OnActive /\ [Next /\ ReadsAreFresh /\ EditsAreNew /\ AliasesStay]_vars
        => [Classification!Next]_Classification!vars
  BY ClassificationStep
<1> QED
  BY <1>1, <1>2, CarefulIsMore, OrderCorrect, ActiveCorrect, PTL
     DEF SpecCareful, ClassificationSpec, Classification!Spec
=============================================================================
