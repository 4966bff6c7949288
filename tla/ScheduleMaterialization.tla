---------------------- MODULE ScheduleMaterialization ----------------------
(***************************************************************************)
(* A recurring schedule and the executions made from it.  Beat, the feeds  *)
(* and the calendar create an execution for every coming date; managers    *)
(* edit the schedule, which moves, cancels and brings back the executions  *)
(* that have not started, or deactivate it; the dates come, executions     *)
(* start, and people finish or cancel them.                                *)
(*                                                                         *)
(* Nobody locks the schedule while it is read: every command and every run *)
(* of materialization works on a copy, and saves what it concluded from    *)
(* executions it read before.  Reads and saves are steps of their own.     *)
(*                                                                         *)
(* Time is counted in ticks, DayLength to a date.  Left out: visibility,   *)
(* tasks and teams of an execution, notifications.                         *)
(***************************************************************************)
EXTENDS Integers, FiniteSets

CONSTANTS
    LastDay,       \* dates are 1..LastDay
    DayLength,
    Windows,       \* start_at of the schedule, as a tick of the day
    Horizon,       \* MATERIALIZATION_HORIZON_DAYS
    Owners,        \* the assignee of an individual chronology; one for a shared one
    Commands,      \* requests that edit or deactivate the schedule
    Materializers

ASSUME ScheduleAssumption ==
    /\ LastDay \in Nat \ {0}
    /\ DayLength \in Nat \ {0}
    /\ Windows # {} /\ Windows \subseteq 0..(DayLength - 1)
    /\ Owners # {}
    /\ Horizon \in Nat

VARIABLES
    schedule,      \* the ActionPlanSchedule row and its assignee
    executions,    \* the ActionPlanExecution rows, by date and owner
    command,
    materializer,
    now

vars == <<schedule, executions, command, materializer, now>>

Dates == 1..LastDay
Slots == Dates \X Owners

ScheduleStatuses == {"active", "inactive", "deleted"}
Fields           == {"days", "window", "owner"}
Schedules == [status : ScheduleStatuses, days : SUBSET Dates,
              window : Windows, owner : Owners]

Started  == {"in_progress", "pending_validation", "done"}
Statuses == {"none", "scheduled", "canceled"} \cup Started
Origins  == {"none", "manual", "schedule_sync"}
Executions == [status : Statuses, origin : Origins, window : Windows]

CommandKinds == {"edit", "deactivate", "catalog"}
CommandSteps == {"idle", "fetched", "syncing"}

(* mem is the copy the command works on, fields what it saves of it, rows  *)
(* the executions as it read them, since the time it compares them with.   *)
CommandRows == [at : CommandSteps, kind : CommandKinds, fields : SUBSET Fields,
                mem : Schedules, rows : [Slots -> Executions],
                since : 0..(LastDay * DayLength)]

NoExecution == [status |-> "none", origin |-> "none", window |-> CHOOSE w \in Windows : TRUE]
NoSchedule  == [status |-> "deleted", days |-> {}, window |-> CHOOSE w \in Windows : TRUE,
                owner |-> CHOOSE o \in Owners : TRUE]
NoCommand   == [at |-> "idle", kind |-> "edit", fields |-> {}, mem |-> NoSchedule,
                rows |-> [s \in Slots |-> NoExecution], since |-> 0]

MaterializerSteps == {"idle", "listed", "reactivating", "inserting"}
MaterializerRows  == [at : MaterializerSteps, reloads : BOOLEAN, todo : SUBSET Dates,
                      date : Dates, mem : Schedules]

NoRun == [at |-> "idle", reloads |-> FALSE, todo |-> {}, date |-> 1, mem |-> NoSchedule]

(* A schedule just created, with none of its executions.                   *)
Init ==
    /\ schedule \in [status : {"active"}, days : SUBSET Dates, window : Windows, owner : Owners]
    /\ executions = [s \in Slots |-> NoExecution]
    /\ command = [c \in Commands |-> NoCommand]
    /\ materializer = [m \in Materializers |-> NoRun]
    /\ now = 0

(* Every value is one the program knows.                                   *)
TypeOK ==
    /\ schedule \in Schedules
    /\ executions \in [Slots -> Executions]
    /\ command \in [Commands -> CommandRows]
    /\ materializer \in [Materializers -> MaterializerRows]
    /\ now \in 0..(LastDay * DayLength)

-----------------------------------------------------------------------------
(* Dates and windows                                                       *)

Today == now \div DayLength + 1
StartOf(date, window) == (date - 1) * DayLength + window
Due(s, e, t) == StartOf(s[1], e.window) <= t

(* initial_execution_status: what starts in the past is in progress.       *)
Fresh(s, window) ==
    [status |-> IF StartOf(s[1], window) > now THEN "scheduled" ELSE "in_progress",
     origin |-> "none", window |-> window]

CanReactivate_AnyOrigin(s, e, sched, owner, t) ==
    /\ e.status = "canceled"
    /\ s[1] \in sched.days
    /\ ~Due(s, e, t)
    /\ s[2] = owner

(* Only what the schedule canceled itself comes back, and only before it   *)
(* would have started.                                                     *)
CanReactivate(s, e, sched, owner, t) ==
    /\ e.status = "canceled"
    /\ e.origin = "schedule_sync"
    /\ s[1] \in sched.days
    /\ ~Due(s, e, t)
    /\ s[2] = owner

Promoted(s, e) ==
    IF e.status = "scheduled" /\ Due(s, e, now)
    THEN [e EXCEPT !.status = "in_progress"] ELSE e

-----------------------------------------------------------------------------
(* Edits and deactivation of the schedule                                  *)

IsIdle(c) == command[c].at = "idle"
Leave(c) == command' = [command EXCEPT ![c] = NoCommand]

(* The view reads the schedule; the command checks that copy.              *)
FetchEdit(c) ==
    /\ IsIdle(c)
    /\ schedule.status = "active"
    /\ \E target \in Schedules :
        /\ target.status = "active"
        /\ command' = [command EXCEPT ![c] = [command[c] EXCEPT !.at = "fetched",
                !.kind = "edit", !.mem = target,
                !.fields = {f \in Fields : target[f] # schedule[f]}]]
    /\ UNCHANGED <<schedule, executions, materializer, now>>

FetchDeactivation(c) ==
    /\ IsIdle(c)
    /\ schedule.status # "deleted"
    /\ \E kind \in {"deactivate", "catalog"} :
        /\ kind = "catalog" => schedule.status = "active"
        /\ command' = [command EXCEPT ![c] = [command[c] EXCEPT
                !.at = "fetched", !.kind = kind]]
    /\ UNCHANGED <<schedule, executions, materializer, now>>

(* Saving the schedule takes the lock of its row until the commit.         *)
HoldsSchedule(c) == command[c].at = "syncing" /\ command[c].kind = "edit"
ScheduleFree == \A c \in Commands : ~HoldsSchedule(c)

ReadsRows(c) ==
    /\ command' = [command EXCEPT ![c] = [command[c] EXCEPT
            !.at = "syncing", !.rows = executions, !.since = now]]
    /\ UNCHANGED <<schedule, executions, materializer, now>>

SaveEdit(c) ==
    /\ command[c].at = "fetched" /\ command[c].kind = "edit"
    /\ schedule.status # "deleted"
    /\ ScheduleFree
    /\ ReadsRows(c)

ActiveStarted ==
    \E s \in Slots : /\ executions[s].status \in {"scheduled", "in_progress"}
                     /\ Due(s, executions[s], now)

ReadForDeactivation(c) ==
    /\ command[c].at = "fetched" /\ command[c].kind # "edit"
    /\ command[c].kind = "deactivate" => ~ActiveStarted
    /\ ReadsRows(c)

Synced_KeepsWindow(c, s, owner) ==
    LET me  == command[c]
        old == me.rows[s]
        cur == executions[s]
    IN IF CanReactivate(s, old, me.mem, owner, me.since) THEN Fresh(s, me.mem.window)
       ELSE IF old.status # "scheduled" \/ Due(s, old, me.since) \/ s[1] \in me.mem.days THEN cur
       ELSE [cur EXCEPT !.status = "canceled", !.origin = "schedule_sync"]

Synced_StartedToo(c, s, owner) ==
    LET me  == command[c]
        old == me.rows[s]
        cur == executions[s]
    IN IF CanReactivate(s, old, me.mem, owner, me.since) THEN Fresh(s, me.mem.window)
       ELSE IF old.status \notin {"scheduled", "in_progress"} THEN cur
       ELSE IF old.status = "scheduled" /\ Due(s, old, me.since) THEN cur
       ELSE IF s[2] = owner /\ s[1] \in me.mem.days
            THEN [cur EXCEPT !.window = me.mem.window]
       ELSE [cur EXCEPT !.status = "canceled", !.origin = "schedule_sync"]

(* _sync_schedule_executions_after_update for one execution: old as it was *)
(* read, cur as it is when it is overwritten.                              *)
Synced(c, s, owner) ==
    LET me  == command[c]
        old == me.rows[s]
        cur == executions[s]
    IN IF CanReactivate(s, old, me.mem, owner, me.since) THEN Fresh(s, me.mem.window)
       ELSE IF old.status # "scheduled" \/ Due(s, old, me.since) THEN cur
       ELSE IF s[2] = owner /\ s[1] \in me.mem.days
            THEN [cur EXCEPT !.window = me.mem.window]
       ELSE [cur EXCEPT !.status = "canceled", !.origin = "schedule_sync"]

(* materialize_execution_from_schedule after the lookup: an insertion that *)
(* meets a row, the unique key says so, keeps or reactivates that row.     *)
Materialized(s, e, sched) ==
    IF e.status = "none" \/ CanReactivate(s, e, sched, sched.owner, now)
    THEN Fresh(s, sched.window) ELSE e

(* What the edit saves of the schedule, next to what others saved.         *)
Saved(c) == [schedule EXCEPT
    !.days   = IF "days" \in command[c].fields THEN command[c].mem.days ELSE @,
    !.window = IF "window" \in command[c].fields THEN command[c].mem.window ELSE @,
    !.owner  = IF "owner" \in command[c].fields THEN command[c].mem.owner ELSE @]

InHorizon(sched) == sched.days \cap Today..(Today + Horizon)

(* The executions after the sync, its two promotions and the new dates.    *)
AfterEdit(c) ==
    [s \in Slots |->
        LET synced == Promoted(s, Synced(c, s, Saved(c).owner))
        IN IF s[1] \in InHorizon(command[c].mem) /\ s[2] = Saved(c).owner
           THEN Materialized(s, synced, Saved(c)) ELSE synced]

CommitEdit(c) ==
    /\ HoldsSchedule(c)
    /\ schedule.status = "active" \/ InHorizon(command[c].mem) = {}
    /\ schedule' = Saved(c)
    /\ executions' = AfterEdit(c)
    /\ Leave(c)
    /\ UNCHANGED <<materializer, now>>

(* _deactivate_schedule_core: what is due by then is promoted, what has    *)
(* not started is canceled.                                                *)
AfterDeactivation(c) ==
    [s \in Slots |->
        LET old == command[c].rows[s] IN
        IF old.status # "scheduled" THEN executions[s]
        ELSE IF Due(s, old, command[c].since) THEN Promoted(s, executions[s])
        ELSE [executions[s] EXCEPT !.status = "canceled", !.origin = "schedule_sync"]]

CommitDeactivation(c) ==
    /\ command[c].at = "syncing" /\ command[c].kind # "edit"
    /\ schedule.status # "deleted"
    /\ ScheduleFree
    /\ schedule' = [schedule EXCEPT !.status = "inactive"]
    /\ executions' = AfterDeactivation(c)
    /\ Leave(c)
    /\ UNCHANGED <<materializer, now>>

(* A refusal, an error, a deadlock that the database breaks, a crash.      *)
AbortCommand(c) ==
    /\ ~IsIdle(c)
    /\ Leave(c)
    /\ UNCHANGED <<schedule, executions, materializer, now>>

(* The template goes with its schedule: what has not started is deleted,   *)
(* the rest keeps no trace of the schedule.                                *)
DeleteTemplate ==
    /\ schedule.status # "deleted"
    /\ \A c \in Commands : command[c].at # "syncing"
    /\ schedule' = [schedule EXCEPT !.status = "deleted"]
    /\ executions' = [s \in Slots |->
        IF executions[s].status = "scheduled" THEN NoExecution ELSE executions[s]]
    /\ UNCHANGED <<command, materializer, now>>

-----------------------------------------------------------------------------
(* Materialization: beat and the feeds read the schedule again for every   *)
(* date of the list they started with, the calendar reads it once.  The    *)
(* order of the dates does not matter here.                                *)

List(m, last, reloads) ==
    LET dates == schedule.days \cap Today..last IN
    /\ materializer[m].at = "idle"
    /\ schedule.status = "active"
    /\ dates # {}
    /\ materializer' = [materializer EXCEPT ![m] =
            [at |-> "listed", reloads |-> reloads, todo |-> dates, date |-> 1, mem |-> schedule]]
    /\ UNCHANGED <<schedule, executions, command, now>>

ReadOrCalendar(m) == \E last \in Dates, reloads \in BOOLEAN : List(m, last, reloads)

BeatHorizon(m) == List(m, IF Today + Horizon < LastDay THEN Today + Horizon ELSE LastDay, TRUE)

NextDate_StopsThere(run) == NoRun

(* The run after one date is dealt with.                                   *)
NextDate(run) ==
    LET left == run.todo \ {run.date} IN
    IF left = {} THEN NoRun
    ELSE [run EXCEPT !.at = "listed", !.todo = left, !.date = 1]

Loaded(run) == IF run.reloads THEN schedule ELSE run.mem

(* _resolve_existing_schedule_execution on the copy that was just loaded.  *)
Look(m) ==
    /\ materializer[m].at = "listed"
    /\ \E d \in materializer[m].todo :
       LET mem  == Loaded(materializer[m])
           run  == [materializer[m] EXCEPT !.mem = mem, !.date = d]
           s    == <<d, mem.owner>>
           e    == executions[s]
       IN materializer' = [materializer EXCEPT ![m] =
            IF mem.status # "active" THEN NoRun
            ELSE IF e.status \in {"scheduled", "in_progress"} THEN NextDate(run)
            ELSE IF CanReactivate(s, e, mem, mem.owner, now)
                 THEN [run EXCEPT !.at = "reactivating"]
            ELSE [run EXCEPT !.at = "inserting"]]
    /\ UNCHANGED <<schedule, executions, command, now>>

Writes(m, e) ==
    /\ executions' = [executions EXCEPT
            ![<<materializer[m].date, materializer[m].mem.owner>>] = e]
    /\ materializer' = [materializer EXCEPT ![m] = NextDate(@)]
    /\ UNCHANGED <<schedule, command, now>>

(* The row is saved as it was read: reactivated, whatever became of it.    *)
Reactivate(m) ==
    LET run == materializer[m]
        s   == <<run.date, run.mem.owner>>
    IN /\ run.at = "reactivating"
       /\ Writes(m, Fresh(s, run.mem.window))

Insert(m) ==
    LET run == materializer[m]
        s   == <<run.date, run.mem.owner>>
    IN /\ run.at = "inserting"
       /\ schedule.status # "deleted"
       /\ Writes(m, Materialized(s, executions[s], run.mem))

Proceed(m) == Look(m) \/ Reactivate(m) \/ Insert(m)

(* The schedule is gone, or the process is.                                *)
EndRun(m) ==
    /\ materializer[m].at # "idle"
    /\ materializer' = [materializer EXCEPT ![m] = NoRun]
    /\ UNCHANGED <<schedule, executions, command, now>>

-----------------------------------------------------------------------------
(* The clock, beat's promotion and the people who carry executions out     *)

Tick ==
    /\ now < LastDay * DayLength
    /\ now' = now + 1
    /\ UNCHANGED <<schedule, executions, command, materializer>>

SetExecution(s, e) ==
    /\ executions' = [executions EXCEPT ![s] = e]
    /\ UNCHANGED <<schedule, command, materializer, now>>

Promote(s) ==
    /\ Promoted(s, executions[s]) # executions[s]
    /\ SetExecution(s, Promoted(s, executions[s]))

MarkDone(s) ==
    /\ executions[s].status = "in_progress"
    /\ \E status \in {"pending_validation", "done"} :
        SetExecution(s, [executions[s] EXCEPT !.status = status])

Validate(s) ==
    /\ executions[s].status = "pending_validation"
    /\ SetExecution(s, [executions[s] EXCEPT !.status = "done"])

Reopen(s) ==
    /\ executions[s].status = "pending_validation"
    /\ SetExecution(s, [executions[s] EXCEPT !.status = "in_progress", !.origin = "none"])

Cancel(s) ==
    /\ executions[s].status \in {"scheduled", "in_progress", "pending_validation"}
    /\ SetExecution(s, [executions[s] EXCEPT !.status = "canceled", !.origin = "manual"])

People(s) == Promote(s) \/ MarkDone(s) \/ Validate(s) \/ Reopen(s) \/ Cancel(s)

-----------------------------------------------------------------------------

CommandStep(c) ==
    \/ FetchEdit(c) \/ FetchDeactivation(c)
    \/ SaveEdit(c) \/ ReadForDeactivation(c)
    \/ CommitEdit(c) \/ CommitDeactivation(c) \/ AbortCommand(c)

MaterializerStep(m) ==
    \/ ReadOrCalendar(m) \/ BeatHorizon(m)
    \/ Proceed(m) \/ EndRun(m)

Next ==
    \/ \E c \in Commands : CommandStep(c)
    \/ \E m \in Materializers : MaterializerStep(m)
    \/ \E s \in Slots : People(s)
    \/ DeleteTemplate
    \/ Tick

Spec == Init /\ [][Next]_vars

(* What the code does not enforce, but a schedule that one person edits at *)
(* a time mostly sees: a command, a run of materialization or a deletion   *)
(* starts while no other is under way.  People, the clock and promotion    *)
(* go on all the time.                                                     *)
Quiet == /\ \A c \in Commands : IsIdle(c)
         /\ \A m \in Materializers : materializer[m].at = "idle"

InTurn ==
    /\ \A c \in Commands : IsIdle(c) /\ command'[c].at # "idle" => Quiet
    /\ \A m \in Materializers :
        materializer[m].at = "idle" /\ materializer'[m].at # "idle" => Quiet
    /\ schedule'.status = "deleted" /\ schedule.status # "deleted" => Quiet

SpecInTurn == Init /\ [][Next /\ InTurn]_vars

(* As if, besides, a command locked the executions it reads: nobody else   *)
(* changes them before it commits or gives up.                             *)
RowsHeld ==
    \A c \in Commands :
        command[c].at = "syncing" /\ command'[c].at = "syncing" => executions' = executions

Careful(A) == A /\ InTurn /\ RowsHeld

SpecCareful == Init /\ [][Careful(Next)]_vars

(* Beat runs every day, a run goes on and is killed any number of times    *)
(* but not forever; a command that began ends.                             *)
Fairness ==
    /\ \A c \in Commands : WF_vars(Careful(AbortCommand(c)))
    /\ \A m \in Materializers :
        /\ SF_vars(Careful(BeatHorizon(m)))
        /\ WF_vars(Careful(Proceed(m)))
        /\ <>[][EndRun(m) => Proceed(m)]_vars

FairSpec == SpecCareful /\ Fairness

-----------------------------------------------------------------------------
(* Properties                                                              *)

(* What has not started is where the schedule, as it is now, wants it: on  *)
(* one of its dates, at its time, for its assignee, and nothing is left    *)
(* when the schedule is inactive or gone.  Edits, deactivation, deletion   *)
(* and reactivation by materialization have to agree for that.             *)
FollowsSchedule ==
    \A s \in Slots :
        LET e == executions[s] IN
        e.status = "scheduled" /\ ~Due(s, e, now) =>
            /\ schedule.status = "active"
            /\ s[1] \in schedule.days
            /\ s[2] = schedule.owner
            /\ e.window = schedule.window

(* What a person canceled stays canceled, and stays that person's          *)
(* cancellation, whatever the schedule becomes.                            *)
CanceledByPersonStays ==
    [][\A s \in Slots :
        executions[s].status = "canceled" /\ executions[s].origin = "manual" =>
            executions'[s] = executions[s]]_vars

(* Work that started is kept: no edit moves, restarts or cancels it, and   *)
(* done is final.                                                          *)
StartedWorkKept ==
    [][\A s \in Slots :
        LET e == executions[s]
            f == executions'[s]
        IN e.status \in Started =>
            /\ f.window = e.window
            /\ f.status \in Started \cup {"canceled"}
            /\ f.status = "canceled" => f.origin = "manual"
            /\ e.status = "done" => f = e]_vars

StageOf(e) ==
    CASE e.status = "scheduled" -> "planned"
      [] e.status = "in_progress" -> "running"
      [] e.status = "pending_validation" -> "waiting"
      [] e.status = "canceled" /\ e.origin = "schedule_sync" -> "withdrawn"
      [] OTHER -> e.status

Occurrence == INSTANCE OccurrenceLifecycle WITH
    stage <- [s \in Slots |-> StageOf(executions[s])],
    window <- [s \in Slots |-> executions[s].window]

(* Whatever edits, deactivation, deletion, runs and people do, an execution*)
(* moves through the stages of OccurrenceLifecycle: the schedule disposes  *)
(* of it only until it starts.                                             *)
OccurrenceSpec == Occurrence!Spec

(* A coming date of an active schedule gets its execution, though runs may *)
(* be killed and commands come at any time; or the schedule changes, or    *)
(* the date passes.                                                        *)
OccurrencesAppear ==
    \A d \in Dates :
        schedule.status = "active" /\ d \in InHorizon(schedule) ~>
            \/ executions[<<d, schedule.owner>>].status # "none"
            \/ schedule.status # "active"
            \/ d \notin InHorizon(schedule)
=============================================================================
