------------------------ MODULE PatternClassification ------------------------
(***************************************************************************)
(* The operational pattern of each signal.  A task claims the signal's     *)
(* assignment for the content it read, asks a provider for a label with no *)
(* transaction open, and writes the pattern if its claim is still the      *)
(* current one.  Failures are retried within a budget, a sweep publishes   *)
(* again what was lost, and owners move signals and split and merge        *)
(* patterns meanwhile.                                                     *)
(*                                                                         *)
(* A content stands for the signature of a signal.  A run reads the signal *)
(* without a lock before it claims.  Left out: reports of a wrong pattern, *)
(* the journal of patterns, other organizations.                           *)
(***************************************************************************)
EXTENDS Integers, FiniteSets

CONSTANTS
    Signals,
    LastContent,       \* contents of a signal are 0..LastContent
    Patterns,
    Labels,
    FirstLabel,        \* the patterns there are at first, with their labels
    Establishments,
    Home,              \* the establishment of each signal
    Tasks,             \* celery tasks at work
    Directs,           \* classifications a command runs in its own process
    Owners,
    MaxProviderCalls,  \* analytics_pattern_task_retry_policy
    MaxMessages,       \* bound: messages waiting for one signal
    MaxAttempts,       \* bound: attempt_count
    NoPattern, NoLabel

MaxHops == 5

ASSUME PatternAssumption ==
    /\ LastContent \in Nat
    /\ MaxProviderCalls \in Nat \ {0}
    /\ MaxMessages \in Nat \ {0}
    /\ MaxAttempts \in Nat
    /\ Home \in [Signals -> Establishments]
    /\ Signals # {}
    /\ DOMAIN FirstLabel \subseteq Patterns
    /\ \A p \in DOMAIN FirstLabel : FirstLabel[p] \in Labels
    /\ \A p, q \in DOMAIN FirstLabel : FirstLabel[p] = FirstLabel[q] => p = q
    /\ NoPattern \notin Patterns
    /\ NoLabel \notin Labels
    /\ Tasks \cap Directs = {}

VARIABLES
    content,      \* what each signal says now
    assignment,   \* the SignalPatternAssignment rows
    pattern,      \* the OperationalPattern rows
    sightings,    \* PatternEstablishmentSighting: pattern and establishment
    run,          \* the classifications at work
    merge,        \* merges that have listed their signals
    waiting,      \* messages in the broker, by signal
    unsent,       \* signals whose on_commit publication is still to run
    unconfirmed   \* signals whose publication is not yet stamped

vars == <<content, assignment, pattern, sightings, run, merge, waiting, unsent, unconfirmed>>
queues == <<waiting, unsent, unconfirmed>>

Contents  == 0..LastContent
NoContent == -1
Runs      == Tasks \cup Directs

Statuses == {"not_started", "processing", "succeeded", "temporary_failed", "permanently_failed"}
Sources  == {"classifier", "owner_correction"}
Errors   == {"none", "ai_consent_required", "other"}

(* ripe: the stale window of the attempt, or the delay of the retry, is    *)
(* over.  The classifier's version never changes; an owner's is its source.*)
Assignments ==
    [status : Statuses, pattern : Patterns \cup {NoPattern}, source : Sources,
     assigned : Contents \cup {NoContent}, pending : Contents \cup {NoContent},
     attempts : Nat, error : Errors, ripe : BOOLEAN, published : BOOLEAN]

(* label is the semantic label, name the one that is shown.                *)
PatternRows == [status : {"absent", "active", "merged"}, label : Labels \cup {NoLabel},
                name : Labels \cup {NoLabel}, into : Patterns \cup {NoPattern}]

RunSteps == {"idle", "loaded", "called", "resolved", "writing", "failed", "retrying"}
RunRows  == [at : RunSteps, signal : Signals, read : Contents, attempt : Nat,
             label : Labels \cup {NoLabel}, pattern : Patterns \cup {NoPattern}]

MergeRows == [open : BOOLEAN, source : Patterns \cup {NoPattern},
              target : Patterns \cup {NoPattern}, listed : SUBSET Signals]

NoRun   == [at |-> "idle", signal |-> CHOOSE s \in Signals : TRUE, read |-> 0,
            attempt |-> 0, label |-> NoLabel, pattern |-> NoPattern]
NoMerge == [open |-> FALSE, source |-> NoPattern, target |-> NoPattern, listed |-> {}]

NewAssignment == [status |-> "not_started", pattern |-> NoPattern, source |-> "classifier",
                  assigned |-> NoContent, pending |-> NoContent, attempts |-> 0,
                  error |-> "none", ripe |-> FALSE, published |-> FALSE]
NoPatternRow  == [status |-> "absent", label |-> NoLabel, name |-> NoLabel, into |-> NoPattern]
NewPattern(l) == [status |-> "active", label |-> l, name |-> l, into |-> NoPattern]

(* Signals just created; some patterns, each with a label of its own.      *)
Init ==
    /\ content = [s \in Signals |-> 0]
    /\ assignment = [s \in Signals |-> NewAssignment]
    /\ pattern = [p \in Patterns |->
                    IF p \in DOMAIN FirstLabel
                    THEN NewPattern(FirstLabel[p]) ELSE NoPatternRow]
    /\ sightings = {}
    /\ run = [w \in Runs |-> NoRun]
    /\ merge = [o \in Owners |-> NoMerge]
    /\ waiting = [s \in Signals |-> 0]
    /\ unsent = Signals
    /\ unconfirmed = {}

(* Every value is one the program knows.                                   *)
TypeOK ==
    /\ content \in [Signals -> Contents]
    /\ assignment \in [Signals -> Assignments]
    /\ pattern \in [Patterns -> PatternRows]
    /\ sightings \subseteq Patterns \X Establishments
    /\ run \in [Runs -> RunRows]
    /\ merge \in [Owners -> MergeRows]
    /\ waiting \in [Signals -> Nat]
    /\ unsent \subseteq Signals
    /\ unconfirmed \subseteq Signals

-----------------------------------------------------------------------------
(* Patterns and their labels                                               *)

Active == {p \in Patterns : pattern[p].status = "active"}
Merged == {p \in Patterns : pattern[p].status = "merged"}

(* Where the merges of p lead, MaxHops merges at most.                     *)
MergeChain(p) ==
    LET hop[n \in 0..MaxHops] ==
          IF n = 0 THEN p
          ELSE IF pattern[hop[n - 1]].status = "merged" THEN pattern[hop[n - 1]].into
          ELSE hop[n - 1]
    IN hop[MaxHops]

Single(S) == IF \E x \in S : S = {x} THEN S ELSE {}

(* The one active pattern a label stands for, if it does for one.          *)
Known(l)       == {p \in Active : l \in {pattern[p].label, pattern[p].name}}
ActiveAlias(l) == Single(Known(l))
MergedAlias(l) ==
    LET targets == {MergeChain(p) : p \in {q \in Merged : pattern[q].label = l}}
    IN Single(targets) \cap Active

LabelTaken(l)  == Known(l) # {}
LabelMerged(l) == \E p \in Merged : pattern[p].label = l

ActiveTarget(p) ==
    IF pattern[p].status = "active" THEN {p}
    ELSE IF MergeChain(p) \in Active THEN {MergeChain(p)}
    ELSE {q \in Active : pattern[q].label = pattern[p].label}

Created(p, l) ==
    /\ pattern[p].status = "absent"
    /\ ~LabelTaken(l)
    /\ pattern' = [pattern EXCEPT ![p] = NewPattern(l)]

-----------------------------------------------------------------------------
(* The row of an assignment                                                *)

(* A run between its read and its write holds the signal and its row.      *)
Locked(s) == \E w \in Runs : run[w].at = "writing" /\ run[w].signal = s

(* full_clean refuses a row whose pattern is not active.                   *)
Savable(r) == r.pattern = NoPattern \/ r.pattern \in Active

Failed(r, status, error) ==
    [r EXCEPT !.status = status, !.error = error, !.ripe = FALSE]

Assigned(r, p, source, c) ==
    [r EXCEPT !.status = "succeeded", !.pattern = p, !.source = source, !.assigned = c,
              !.pending = NoContent, !.error = "none", !.ripe = FALSE]

(* The correction of an owner also makes the attempt under way obsolete.   *)
Corrected(s, p) ==
    LET r == assignment[s]
    IN Assigned([r EXCEPT !.attempts = IF r.status = "processing" THEN @ + 1 ELSE @],
                p, "owner_correction", content[s])

AlreadyAssigned_ClassifierOnly(r, c) ==
    r.pattern # NoPattern /\ r.assigned = c /\ r.source = "classifier"

AlreadyAssigned(r, c) == r.pattern # NoPattern /\ r.assigned = c

Waits(r, c) ==
    r.pending = c /\ ~r.ripe /\ r.status \in {"processing", "temporary_failed"}

ResumesAfterConsent(r, c) ==
    /\ r.error = "ai_consent_required"
    /\ r.attempts < MaxProviderCalls

Terminal(r, c) ==
    r.status = "permanently_failed" /\ r.pending = c /\ ~ResumesAfterConsent(r, c)

Spent_OneMore(r, c) ==
    /\ r.pending = c
    /\ r.attempts > MaxProviderCalls
    /\ r.status \in {"processing", "temporary_failed"}

Spent(r, c) ==
    /\ r.pending = c
    /\ r.attempts >= MaxProviderCalls
    /\ r.status \in {"processing", "temporary_failed"}

Claimed(r, c) ==
    [r EXCEPT !.status = "processing", !.pending = c, !.attempts = @ + 1,
              !.error = "none", !.ripe = FALSE]

-----------------------------------------------------------------------------
(* Publication                                                             *)

Send(s) ==
    /\ waiting[s] < MaxMessages
    /\ waiting' = [waiting EXCEPT ![s] = @ + 1]
    /\ unconfirmed' = unconfirmed \cup {s}

(* A publication the broker does not confirm is only logged.               *)
SendFails == UNCHANGED <<waiting, unconfirmed>>

(* The signal is qualified or a new observation changes what it says; the  *)
(* publication runs once that is committed.                                *)
Edit(s) ==
    /\ ~Locked(s)
    /\ \E c \in Contents \ {content[s]} : content' = [content EXCEPT ![s] = c]
    /\ unsent' = unsent \cup {s}
    /\ UNCHANGED <<assignment, pattern, sightings, run, merge, waiting, unconfirmed>>

OnCommit(s) ==
    /\ s \in unsent
    /\ unsent' = unsent \ {s}
    /\ Send(s) \/ SendFails
    /\ UNCHANGED <<content, assignment, pattern, sightings, run, merge>>

(* published_at is stamped after the broker has the message.               *)
Confirm(s) ==
    /\ s \in unconfirmed
    /\ ~Locked(s)
    /\ unconfirmed' = unconfirmed \ {s}
    /\ assignment' = [assignment EXCEPT ![s].published = TRUE]
    /\ UNCHANGED <<content, pattern, sightings, run, merge, waiting, unsent>>

(* The publisher is killed between the two.                                *)
NeverConfirmed(s) ==
    /\ s \in unconfirmed
    /\ unconfirmed' = unconfirmed \ {s}
    /\ UNCHANGED <<content, assignment, pattern, sightings, run, merge, waiting, unsent>>

Due_NoDeadTask(r) ==
    /\ ~r.published
    /\ \/ r.status = "not_started"
       \/ r.status = "temporary_failed" /\ r.ripe

Due(r) ==
    /\ ~r.published
    /\ \/ r.status = "not_started"
       \/ r.status \in {"temporary_failed", "processing"} /\ r.ripe

Sweep(s) ==
    /\ Due(assignment[s])
    /\ Send(s)
    /\ UNCHANGED <<content, assignment, pattern, sightings, run, merge, unsent>>

LoseMessage(s) ==
    /\ waiting[s] > 0
    /\ waiting' = [waiting EXCEPT ![s] = @ - 1]
    /\ UNCHANGED <<content, assignment, pattern, sightings, run, merge, unsent, unconfirmed>>

(* Time: a confirmation grows older than the stale window ...              *)
ConfirmAges(s) ==
    /\ assignment[s].published /\ ~Locked(s)
    /\ assignment' = [assignment EXCEPT ![s].published = FALSE]
    /\ UNCHANGED <<content, pattern, sightings, run, merge, queues>>

Holds(w) ==
    LET r == assignment[run[w].signal]
    IN r.status = "processing" /\ r.attempts = run[w].attempt

(* ... as does an attempt, or the retry comes due.  The window is no       *)
(* shorter than the time limit of a task, so a task at work is never stale.*)
Ripen(s) ==
    /\ ~assignment[s].ripe /\ ~Locked(s)
    /\ \/ assignment[s].status = "temporary_failed"
       \/ /\ assignment[s].status = "processing"
          /\ ~\E w \in Tasks : run[w].at # "idle" /\ run[w].signal = s /\ Holds(w)
    /\ assignment' = [assignment EXCEPT ![s].ripe = TRUE]
    /\ UNCHANGED <<content, pattern, sightings, run, merge, queues>>

-----------------------------------------------------------------------------
(* One classification                                                      *)

End(w) == run' = [run EXCEPT ![w] = NoRun]

Loads(w, s) ==
    run' = [run EXCEPT ![w] = [NoRun EXCEPT !.at = "loaded", !.signal = s, !.read = content[s]]]

(* A message that comes again after a skip for consent resumes nothing.    *)
SkippedAlready(s) ==
    LET r == assignment[s]
    IN /\ r.status = "permanently_failed"
       /\ r.error = "ai_consent_required"
       /\ r.pending = content[s]

Deliver(w, s) ==
    /\ run[w].at = "idle"
    /\ waiting[s] > 0
    /\ waiting' = [waiting EXCEPT ![s] = @ - 1]
    /\ \/ SkippedAlready(s) /\ UNCHANGED run
       \/ ~SkippedAlready(s) /\ Loads(w, s)
    /\ UNCHANGED <<content, assignment, pattern, sightings, merge, unsent, unconfirmed>>

Classify(w, s) ==
    /\ run[w].at = "idle"
    /\ Loads(w, s)
    /\ UNCHANGED <<content, assignment, pattern, sightings, merge, queues>>

Skips(r) ==
    /\ r.source = "classifier"
    /\ r.status # "succeeded"
    /\ r.status = "processing" => r.ripe
    /\ ~(r.status = "permanently_failed" /\ r.error = "ai_consent_required")
    /\ Savable(r)

(* An author of the signal's observations has not consented.               *)
SkipForConsent(w) ==
    LET s == run[w].signal
        r == assignment[s]
    IN /\ run[w].at = "loaded" /\ ~Locked(s)
       /\ End(w)
       /\ \/ /\ Skips(r)
             /\ assignment' = [assignment EXCEPT ![s] =
                   [Failed(r, "permanently_failed", "ai_consent_required")
                        EXCEPT !.pending = run[w].read]]
          \/ ~Skips(r) /\ UNCHANGED assignment
       /\ UNCHANGED <<content, pattern, sightings, merge, queues>>

Claim(w) ==
    LET s == run[w].signal
        r == assignment[s]
        c == run[w].read
        refused == AlreadyAssigned(r, c) \/ Waits(r, c) \/ Terminal(r, c) \/ ~Savable(r)
    IN /\ run[w].at = "loaded" /\ ~Locked(s)
       /\ \/ refused /\ UNCHANGED assignment /\ End(w)
          \/ /\ ~refused /\ Spent(r, c)
             /\ assignment' = [assignment EXCEPT ![s] = Failed(r, "permanently_failed",
                                   IF r.error = "none" THEN "other" ELSE r.error)]
             /\ End(w)
          \/ /\ ~refused /\ ~Spent(r, c)
             /\ r.attempts < MaxAttempts
             /\ assignment' = [assignment EXCEPT ![s] = Claimed(r, c)]
             /\ run' = [run EXCEPT ![w].at = "called", ![w].attempt = r.attempts + 1]
       /\ UNCHANGED <<content, pattern, sightings, merge, queues>>

(* The provider answers with a label.  An active alias is reused; otherwise*)
(* the duplicate guard may propose an active pattern.  Following a merged  *)
(* alias locks patterns, which raises when no transaction is open.         *)
Answer(w) ==
    /\ run[w].at = "called"
    /\ \E l \in Labels, step \in {"resolved", "failed"}, p \in Patterns \cup {NoPattern} :
         /\ run' = [run EXCEPT ![w] = [run[w] EXCEPT !.at = step, !.label = l, !.pattern = p]]
         /\ \/ step = "resolved" /\ {p} = ActiveAlias(l)
            \/ step = "failed" /\ p = NoPattern /\ ~LabelTaken(l) /\ LabelMerged(l)
            \/ /\ step = "resolved" /\ p \in Active \cup {NoPattern}
               /\ ActiveAlias(l) = {} /\ (LabelTaken(l) \/ ~LabelMerged(l))
    /\ UNCHANGED <<content, assignment, pattern, sightings, merge, queues>>

(* The provider, or anything after it, fails in a way worth another call.  *)
FailRetryable(w) ==
    /\ run[w].at \in {"called", "resolved", "writing"}
    /\ run' = [run EXCEPT ![w] = [run[w] EXCEPT !.at = "failed", !.label = NoLabel,
                                                !.pattern = NoPattern]]
    /\ UNCHANGED <<content, assignment, pattern, sightings, merge, queues>>

(* ... or in a way that is not.                                            *)
FailForGood(w) ==
    LET s == run[w].signal
    IN /\ run[w].at \in {"called", "resolved"} /\ ~Locked(s)
       /\ End(w)
       /\ \/ /\ Holds(w) /\ Savable(assignment[s])
             /\ assignment' = [assignment EXCEPT ![s] = Failed(@, "permanently_failed", "other")]
          \/ ~(Holds(w) /\ Savable(assignment[s])) /\ UNCHANGED assignment
       /\ UNCHANGED <<content, pattern, sightings, merge, queues>>

Succeeds(w, s, p) ==
    /\ assignment' = [assignment EXCEPT ![s] = Assigned(@, p, "classifier", run[w].read)]
    /\ sightings' = sightings \cup {<<p, Home[s]>>}
    /\ End(w)

CurrentAttempt_AnyAttempt(w) == assignment[run[w].signal].status = "processing"

CurrentAttempt(w) == Holds(w) /\ assignment[run[w].signal].pending = run[w].read

(* The pattern the answer asked to reuse, as it is now that it is locked.  *)
Reusable(w) == IF run[w].pattern = NoPattern THEN {} ELSE ActiveTarget(run[w].pattern)

(* The write of a success, in one transaction.  When another pattern took  *)
(* the label, that pattern is read without a lock and written later; when  *)
(* two did, only FailRetryable is left.                                    *)
Finalize(w) ==
    LET s == run[w].signal
        l == run[w].label
    IN /\ run[w].at = "resolved" /\ ~Locked(s)
       /\ \/ /\ ~CurrentAttempt(w)
             /\ End(w)
             /\ UNCHANGED <<assignment, pattern, sightings>>
          \/ /\ CurrentAttempt(w)
             /\ \E p \in Reusable(w) : Succeeds(w, s, p)
             /\ UNCHANGED pattern
          \/ /\ CurrentAttempt(w) /\ Reusable(w) = {}
             /\ \E p \in Patterns : Created(p, l) /\ Succeeds(w, s, p)
          \/ /\ CurrentAttempt(w) /\ Reusable(w) = {}
             /\ \E p \in ActiveAlias(l) :
                  run' = [run EXCEPT ![w] = [run[w] EXCEPT !.at = "writing", !.pattern = p]]
             /\ UNCHANGED <<assignment, pattern, sightings>>
       /\ UNCHANGED <<content, merge, queues>>

WriteAlias(w) ==
    /\ run[w].at = "writing"
    /\ Succeeds(w, run[w].signal, run[w].pattern)
    /\ UNCHANGED <<content, pattern, merge, queues>>

RetryStatus(n) ==
    IF n < MaxProviderCalls THEN "temporary_failed" ELSE "permanently_failed"

(* The failure is recorded if the attempt is still the current one; a task *)
(* then publishes its retry.                                               *)
RecordFailure(w) ==
    LET s == run[w].signal
        r == assignment[s]
        status == RetryStatus(run[w].attempt)
    IN /\ run[w].at = "failed" /\ ~Locked(s)
       /\ \/ /\ Holds(w) /\ Savable(r)
             /\ assignment' = [assignment EXCEPT ![s] =
                   [Failed(r, status, "other") EXCEPT
                       !.published = r.published /\ status = "permanently_failed"]]
             /\ IF status = "temporary_failed" /\ w \in Tasks
                THEN run' = [run EXCEPT ![w].at = "retrying"]
                ELSE End(w)
          \/ ~(Holds(w) /\ Savable(r)) /\ UNCHANGED assignment /\ End(w)
       /\ UNCHANGED <<content, pattern, sightings, merge, queues>>

PublishRetry(w) ==
    /\ run[w].at = "retrying"
    /\ End(w)
    /\ Send(run[w].signal) \/ SendFails
    /\ UNCHANGED <<content, assignment, pattern, sightings, merge, unsent>>

Kill(w) ==
    /\ run[w].at # "idle"
    /\ End(w)
    /\ UNCHANGED <<content, assignment, pattern, sightings, merge, queues>>

-----------------------------------------------------------------------------
(* Corrections by owners                                                   *)

On(p) == {s \in Signals : assignment[s].pattern = p}

(* The rows and sightings when the signals of moved go to p.               *)
Moved(moved, p) ==
    [s \in Signals |-> IF s \in moved THEN Corrected(s, p) ELSE assignment[s]]
Seen_ByClassifierOnly(moved, p) == {}

Seen(moved, p) == {<<p, Home[s]>> : s \in moved}

(* Signals moved to a pattern there is, alone or as a split.               *)
Move(source, target) ==
    /\ source # target /\ {source, target} \subseteq Active
    /\ \E moved \in SUBSET On(source) \ {{}} :
         /\ \A s \in moved : ~Locked(s)
         /\ assignment' = Moved(moved, target)
         /\ sightings' = sightings \cup Seen(moved, target)
    /\ UNCHANGED <<content, pattern, run, merge, queues>>

SplitToNew(source, target) ==
    /\ source \in Active
    /\ \E l \in Labels : Created(target, l)
    /\ \E moved \in SUBSET On(source) \ {{}} :
         /\ \A s \in moved : ~Locked(s)
         /\ assignment' = Moved(moved, target)
         /\ sightings' = sightings \cup Seen(moved, target)
    /\ UNCHANGED <<content, run, merge, queues>>

Rename(p) ==
    /\ p \in Active
    /\ \E l \in Labels \ {pattern[p].name} :
         /\ ~\E q \in Active \ {p} : pattern[q].name = l
         /\ pattern' = [pattern EXCEPT ![p].name = l]
    /\ UNCHANGED <<content, assignment, sightings, run, merge, queues>>

(* A merge lists the signals of the source before it locks anything.       *)
BeginMerge(o, source, target) ==
    /\ ~merge[o].open
    /\ source # target
    /\ source \in Active /\ pattern[target].status # "absent"
    /\ merge' = [merge EXCEPT ![o] = [open |-> TRUE, source |-> source, target |-> target,
                                      listed |-> On(source)]]
    /\ UNCHANGED <<content, assignment, pattern, sightings, run, queues>>

MovedSightings(source, target) ==
    {<<IF sg[1] = source THEN target ELSE sg[1], sg[2]>> : sg \in sightings}

Unchanged_NoRecheck(o) == \A s \in merge[o].listed : assignment[s].pattern = merge[o].source

(* The signals listed are still those of the source, and no others.        *)
Unchanged(o) == On(merge[o].source) = merge[o].listed

CommitMerge(o) ==
    LET source == merge[o].source
        target == merge[o].target
        moved  == merge[o].listed
    IN /\ merge[o].open
       /\ \A s \in moved : ~Locked(s)
       /\ merge' = [merge EXCEPT ![o] = NoMerge]
       /\ \/ /\ {source, target} \subseteq Active /\ Unchanged(o)
             /\ assignment' = Moved(moved, target)
             /\ pattern' = [pattern EXCEPT ![source] =
                               [pattern[source] EXCEPT !.status = "merged", !.into = target]]
             /\ sightings' = MovedSightings(source, target) \cup Seen(moved, target)
          \/ /\ ~({source, target} \subseteq Active /\ Unchanged(o))
             /\ UNCHANGED <<assignment, pattern, sightings>>
       /\ UNCHANGED <<content, run, queues>>

(* The request is killed, or waits too long for a lock.                    *)
DropMerge(o) ==
    /\ merge[o].open
    /\ merge' = [merge EXCEPT ![o] = NoMerge]
    /\ UNCHANGED <<content, assignment, pattern, sightings, run, queues>>

-----------------------------------------------------------------------------
Works(w) ==
    \/ SkipForConsent(w)
    \/ Claim(w)
    \/ Answer(w)
    \/ FailRetryable(w)
    \/ FailForGood(w)
    \/ Finalize(w)
    \/ WriteAlias(w)
    \/ RecordFailure(w)
    \/ PublishRetry(w)

Next ==
    \/ \E s \in Signals :
         \/ Edit(s)
         \/ OnCommit(s)
         \/ Confirm(s)
         \/ NeverConfirmed(s)
         \/ Sweep(s)
         \/ LoseMessage(s)
         \/ ConfirmAges(s)
         \/ Ripen(s)
         \/ \E w \in Tasks : Deliver(w, s)
         \/ \E w \in Directs : Classify(w, s)
    \/ \E w \in Runs : Works(w) \/ Kill(w)
    \/ \E p \in Patterns : Rename(p)
    \/ \E source, target \in Patterns :
         \/ Move(source, target)
         \/ SplitToNew(source, target)
         \/ \E o \in Owners : BeginMerge(o, source, target)
    \/ \E o \in Owners : CommitMerge(o) \/ DropMerge(o)

Spec == Init /\ [][Next]_vars

(* What the code leaves to luck: no signal changes between a run's read and*)
(* its claim, none goes back to what it said before, and no pattern is     *)
(* merged while a run is about to write it unlocked.                       *)
ReadsAreFresh ==
    \A w \in Runs : run[w].at = "loaded" => content'[run[w].signal] = content[run[w].signal]
EditsAreNew == \A s \in Signals : content'[s] >= content[s]
AliasesStay ==
    \A w \in Runs : run[w].at = "writing" => pattern'[run[w].pattern].status = "active"

SpecCareful == Init /\ [][Next /\ ReadsAreFresh /\ EditsAreNew /\ AliasesStay]_vars

(* Time passes, beat sweeps, the broker does not lose every message, a run *)
(* goes on unless it is killed, and not every run is killed before it      *)
(* claims.                                                                 *)
Fairness ==
    /\ \A s \in Signals :
         /\ WF_vars(Ripen(s))
         /\ WF_vars(ConfirmAges(s))
         /\ SF_vars(Sweep(s))
         /\ SF_vars(\E w \in Tasks : Deliver(w, s))
         /\ SF_vars(\E w \in Tasks : run[w].signal = s /\ Claim(w))
    /\ \A w \in Runs : WF_vars(Works(w))

FairSpec == SpecCareful /\ Fairness

-----------------------------------------------------------------------------
(* No signal is ever left on a pattern that was merged away, where neither *)
(* a claim nor an owner could move it: writes of classifications overlap   *)
(* the moves and merges of the patterns they chose.                        *)
AssignedToActive ==
    \A s \in Signals : assignment[s].pattern # NoPattern => assignment[s].pattern \in Active

(* The first sightings that the reports of new patterns read follow every  *)
(* assignment, correction and merge.                                       *)
SightedWhereAssigned ==
    \A s \in Signals :
        assignment[s].pattern # NoPattern => <<assignment[s].pattern, Home[s]>> \in sightings

(* An owner's correction made for what the signal says now is never        *)
(* replaced by a classification, however late its answer comes.            *)
OwnerCorrectionKept ==
    [][\A s \in Signals :
         /\ assignment[s].source = "owner_correction"
         /\ assignment[s].assigned = content[s]
         => assignment'[s].source = "owner_correction"]_vars

(* What is written is never an answer for an older content than the one    *)
(* the row has a pattern for, or than the one last claimed.                *)
NewerContentStays ==
    [][\A s \in Signals :
         LET old == assignment[s]
             new == assignment'[s].assigned
         IN new # old.assigned => new > old.assigned /\ new >= old.pending]_vars

PhaseOf(status) ==
    CASE status = "not_started" -> "new"
      [] status = "processing"  -> "asked"
      [] status = "succeeded"   -> "answered"
      [] OTHER                  -> "failed"

RowOf(r) == [phase |-> PhaseOf(r.status), on |-> r.pattern, by |-> r.source,
             about |-> r.assigned, asked |-> r.pending]

Classification == INSTANCE SignalClassification WITH
    FirstPatterns <- DOMAIN FirstLabel,
    row  <- [s \in Signals |-> RowOf(assignment[s])],
    life <- [p \in Patterns |-> pattern[p].status]

(* Through crashes, late answers, stale reads of patterns and owners who   *)
(* move and merge meanwhile: each content of a signal is classified once   *)
(* at most, for what it said, unless an owner has answered for it, and the *)
(* signal is always on a pattern in use.                                   *)
ClassificationSpec == Classification!Spec

(* The provider is asked again about the same content within the budget,   *)
(* whatever mixes of crashes, retries, sweeps and consent lead there.      *)
RepeatsWithinBudget ==
    [][\A s \in Signals :
         /\ assignment'[s].attempts > assignment[s].attempts
         /\ assignment'[s].pending = assignment[s].pending
         => assignment[s].attempts < MaxProviderCalls]_vars

(* A label whose pattern was merged leads to the pattern it was merged     *)
(* into.                                                                   *)
MergedLabelFollowed ==
    [][\A w \in Runs : \A l \in Labels :
         /\ run[w].at = "called" /\ run'[w].label = l
         /\ MergedAlias(l) # {} /\ ~LabelTaken(l)
         => {run'[w].pattern} = MergedAlias(l)]_vars

(* Every classification ends, with a pattern or for good without, when the *)
(* signal stops changing: a lost message, a dead task or a failed retry is *)
(* found again by the sweep.                                               *)
Settled(s) == assignment[s].status \in {"succeeded", "permanently_failed"}
Settles == \A s \in Signals : <>[]Settled(s)
=============================================================================
