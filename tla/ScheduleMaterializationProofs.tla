------------------- MODULE ScheduleMaterializationProofs -------------------
(***************************************************************************)
(* Theorems about ScheduleMaterialization, for any number of dates, ticks, *)
(* owners, commands and runs of materialization.                           *)
(***************************************************************************)
EXTENDS ScheduleMaterialization, TLAPS

Times == 0..(LastDay * DayLength)

LEMMA Constants ==
    /\ LastDay \in Nat /\ DayLength \in Nat /\ Windows \subseteq Int
    /\ LastDay * DayLength \in Nat /\ 0 \in Times /\ 1 \in Dates
  BY ScheduleAssumption DEF Times, Dates

LEMMA BlankTypes ==
    /\ NoExecution \in Executions
    /\ NoSchedule \in Schedules
    /\ NoCommand \in CommandRows
    /\ NoRun \in MaterializerRows
<1>1. (CHOOSE w \in Windows : TRUE) \in Windows /\ (CHOOSE o \in Owners : TRUE) \in Owners
  BY ScheduleAssumption
<1>2. NoExecution \in Executions
  BY <1>1 DEF NoExecution, Executions, Statuses, Origins
<1>3. NoSchedule \in Schedules
  BY <1>1 DEF NoSchedule, Schedules, ScheduleStatuses
<1>4. NoCommand \in CommandRows
  <2>1. 0 \in 0..(LastDay * DayLength)
    BY Constants DEF Times
  <2>2. [s \in Slots |-> NoExecution] \in [Slots -> Executions]
    BY <1>2
  <2> QED
    BY <1>3, <2>1, <2>2 DEF NoCommand, CommandRows, CommandSteps, CommandKinds
<1>5. NoRun \in MaterializerRows
  BY <1>3, Constants DEF NoRun, MaterializerRows, MaterializerSteps
<1> QED
  BY <1>2, <1>3, <1>4, <1>5

(* What the operators on one execution return.                             *)
LEMMA FreshType ==
    ASSUME NEW s \in Slots, NEW w \in Windows PROVE Fresh(s, w) \in Executions
  BY DEF Fresh, Executions, Statuses, Started, Origins

LEMMA PromotedType ==
    ASSUME NEW s \in Slots, NEW e \in Executions PROVE Promoted(s, e) \in Executions
  BY DEF Promoted, Executions, Statuses, Started

LEMMA MaterializedType ==
    ASSUME NEW s \in Slots, NEW e \in Executions, NEW sched \in Schedules
    PROVE  Materialized(s, e, sched) \in Executions
  BY FreshType DEF Materialized, Schedules

LEMMA CanceledType ==
    ASSUME NEW e \in Executions
    PROVE  /\ [e EXCEPT !.status = "canceled", !.origin = "schedule_sync"] \in Executions
           /\ \A w \in Windows : [e EXCEPT !.window = w] \in Executions
  BY DEF Executions, Statuses, Origins

LEMMA SyncedType ==
    ASSUME TypeOK, NEW c \in Commands, NEW s \in Slots, NEW owner
    PROVE  Synced(c, s, owner) \in Executions
<1>1. executions[s] \in Executions /\ command[c].mem.window \in Windows
  BY DEF TypeOK, CommandRows, Schedules
<1> QED
  BY <1>1, FreshType, CanceledType DEF Synced

LEMMA SavedType ==
    ASSUME TypeOK, NEW c \in Commands PROVE Saved(c) \in Schedules
  BY DEF TypeOK, Saved, Schedules, CommandRows

LEMMA AfterEditType ==
    ASSUME TypeOK, NEW c \in Commands PROVE AfterEdit(c) \in [Slots -> Executions]
<1>1. \A s \in Slots : Promoted(s, Synced(c, s, Saved(c).owner)) \in Executions
  BY SyncedType, PromotedType
<1> QED
  BY <1>1, SavedType, MaterializedType DEF AfterEdit

LEMMA AfterDeactivationType ==
    ASSUME TypeOK, NEW c \in Commands PROVE AfterDeactivation(c) \in [Slots -> Executions]
<1>1. \A s \in Slots : executions[s] \in Executions
  BY DEF TypeOK
<1> QED
  BY <1>1, CanceledType, PromotedType DEF AfterDeactivation

LEMMA NextDateType ==
    ASSUME NEW run \in MaterializerRows PROVE NextDate(run) \in MaterializerRows
  BY BlankTypes, Constants DEF NextDate, MaterializerRows, MaterializerSteps

-----------------------------------------------------------------------------
(* Type correctness                                                        *)

LEMMA TypeInit == Init => TypeOK
<1> SUFFICES ASSUME Init PROVE TypeOK
  OBVIOUS
<1>1. schedule \in Schedules
  BY DEF Init, Schedules, ScheduleStatuses
<1> QED
  BY <1>1, BlankTypes, Constants DEF Init, TypeOK, Times

LEMMA TypeCommand ==
    ASSUME TypeOK, NEW c \in Commands, CommandStep(c) PROVE TypeOK'
<1> USE DEF TypeOK
<1>1. CASE FetchEdit(c)
  <2>1. PICK target \in Schedules : command' = [command EXCEPT ![c] =
            [command[c] EXCEPT !.at = "fetched", !.kind = "edit", !.mem = target,
                               !.fields = {f \in Fields : target[f] # schedule[f]}]]
    BY <1>1 DEF FetchEdit
  <2> DEFINE row == [command[c] EXCEPT !.at = "fetched", !.kind = "edit", !.mem = target,
                               !.fields = {f \in Fields : target[f] # schedule[f]}]
  <2>3. row \in CommandRows
    BY DEF CommandRows, CommandSteps, CommandKinds
  <2>2. command' \in [Commands -> CommandRows]
    BY <2>1, <2>3
  <2> QED
    BY <1>1, <2>2 DEF FetchEdit
<1>2. CASE FetchDeactivation(c)
  <2>2. \A kind \in CommandKinds :
            [command[c] EXCEPT !.at = "fetched", !.kind = kind] \in CommandRows
    BY DEF CommandRows, CommandSteps
  <2>1. command' \in [Commands -> CommandRows]
    BY <1>2, <2>2 DEF FetchDeactivation, CommandKinds
  <2> QED
    BY <1>2, <2>1 DEF FetchDeactivation
<1>3. CASE SaveEdit(c) \/ ReadForDeactivation(c)
  <2>1. ReadsRows(c)
    BY <1>3 DEF SaveEdit, ReadForDeactivation
  <2>3. [command[c] EXCEPT !.at = "syncing", !.rows = executions, !.since = now] \in CommandRows
    BY DEF CommandRows, CommandSteps
  <2>2. command' \in [Commands -> CommandRows]
    BY <2>1, <2>3 DEF ReadsRows
  <2> QED
    BY <2>1, <2>2 DEF ReadsRows
<1>4. CASE CommitEdit(c)
  <2>1. command' \in [Commands -> CommandRows]
    BY <1>4, BlankTypes DEF CommitEdit, Leave
  <2> QED
    BY <1>4, <2>1, SavedType, AfterEditType DEF CommitEdit
<1>5. CASE CommitDeactivation(c)
  <2>1. command' \in [Commands -> CommandRows]
    BY <1>5, BlankTypes DEF CommitDeactivation, Leave
  <2>2. schedule' \in Schedules
    BY <1>5 DEF CommitDeactivation, Schedules, ScheduleStatuses
  <2> QED
    BY <1>5, <2>1, <2>2, AfterDeactivationType DEF CommitDeactivation
<1>6. CASE AbortCommand(c)
  BY <1>6, BlankTypes DEF AbortCommand, Leave
<1> QED
  BY <1>1, <1>2, <1>3, <1>4, <1>5, <1>6 DEF CommandStep

LEMMA TypeWrites ==
    ASSUME TypeOK, NEW m \in Materializers, NEW e \in Executions, Writes(m, e)
    PROVE  TypeOK'
<1>1. executions' \in [Slots -> Executions]
  BY DEF TypeOK, Writes
<1>2. materializer' \in [Materializers -> MaterializerRows]
  BY NextDateType DEF TypeOK, Writes
<1> QED
  BY <1>1, <1>2 DEF TypeOK, Writes

LEMMA RunSlot ==
    ASSUME TypeOK, NEW m \in Materializers
    PROVE  /\ <<materializer[m].date, materializer[m].mem.owner>> \in Slots
           /\ materializer[m].mem \in Schedules
           /\ materializer[m].mem.window \in Windows
  BY DEF TypeOK, MaterializerRows, Schedules, Slots

LEMMA TypeMaterializer ==
    ASSUME TypeOK, NEW m \in Materializers, MaterializerStep(m) PROVE TypeOK'
<1>1. ASSUME NEW last, NEW reloads \in BOOLEAN, List(m, last, reloads) PROVE TypeOK'
  <2>1. materializer' \in [Materializers -> MaterializerRows]
    BY <1>1, Constants DEF TypeOK, List, MaterializerRows, MaterializerSteps, Schedules
  <2> QED
    BY <1>1, <2>1 DEF TypeOK, List
<1>2. CASE Look(m)
  <2>1. ASSUME NEW d \in materializer[m].todo
        PROVE  LET run == [materializer[m] EXCEPT !.mem = Loaded(materializer[m]), !.date = d]
               IN /\ run \in MaterializerRows
                  /\ [run EXCEPT !.at = "reactivating"] \in MaterializerRows
                  /\ [run EXCEPT !.at = "inserting"] \in MaterializerRows
    BY <2>1 DEF TypeOK, Loaded, MaterializerRows, MaterializerSteps
  <2>2. PICK row \in MaterializerRows : materializer' = [materializer EXCEPT ![m] = row]
    <3>1. PICK d \in materializer[m].todo :
            LET run == [materializer[m] EXCEPT !.mem = Loaded(materializer[m]), !.date = d]
            IN \E row \in {NoRun, NextDate(run), [run EXCEPT !.at = "reactivating"],
                           [run EXCEPT !.at = "inserting"]} :
                    materializer' = [materializer EXCEPT ![m] = row]
      BY <1>2 DEF Look
    <3> QED
      BY <2>1, <3>1, NextDateType, BlankTypes
  <2>3. materializer' \in [Materializers -> MaterializerRows]
    BY <2>2 DEF TypeOK
  <2> QED
    BY <1>2, <2>3 DEF TypeOK, Look
<1>3. CASE Reactivate(m)
  BY <1>3, RunSlot, FreshType, TypeWrites DEF Reactivate
<1>4. CASE Insert(m)
  <2>1. executions[<<materializer[m].date, materializer[m].mem.owner>>] \in Executions
    BY RunSlot DEF TypeOK
  <2> QED
    BY <1>4, <2>1, RunSlot, MaterializedType, TypeWrites DEF Insert
<1>5. CASE EndRun(m)
  BY <1>5, BlankTypes DEF EndRun, TypeOK
<1> QED
  BY <1>1, <1>2, <1>3, <1>4, <1>5 DEF MaterializerStep, ReadOrCalendar, BeatHorizon, Proceed

LEMMA TypePeople ==
    ASSUME TypeOK, NEW s \in Slots, People(s) PROVE TypeOK'
<1>1. ASSUME NEW e \in Executions, SetExecution(s, e) PROVE TypeOK'
  BY <1>1 DEF TypeOK, SetExecution
<1>2. executions[s] \in Executions
  BY DEF TypeOK
<1>3. CASE Promote(s)
  BY <1>3, <1>1, <1>2, PromotedType DEF Promote
<1>4. \A status \in Started : [executions[s] EXCEPT !.status = status] \in Executions
  BY <1>2 DEF Executions, Statuses
<1>5. CASE MarkDone(s) \/ Validate(s)
  BY <1>5, <1>1, <1>4 DEF MarkDone, Validate, Started
<1>6. CASE Reopen(s) \/ Cancel(s)
  <2>1. /\ [executions[s] EXCEPT !.status = "in_progress", !.origin = "none"] \in Executions
        /\ [executions[s] EXCEPT !.status = "canceled", !.origin = "manual"] \in Executions
    BY <1>2 DEF Executions, Statuses, Started, Origins
  <2> QED
    BY <1>6, <1>1, <2>1 DEF Reopen, Cancel
<1> QED
  BY <1>3, <1>5, <1>6 DEF People

LEMMA TypeOthers == ASSUME TypeOK, DeleteTemplate \/ Tick PROVE TypeOK'
<1>1. CASE DeleteTemplate
  <2>1. schedule' \in Schedules
    BY <1>1 DEF TypeOK, DeleteTemplate, Schedules, ScheduleStatuses
  <2>2. executions' \in [Slots -> Executions]
    BY <1>1, BlankTypes DEF TypeOK, DeleteTemplate
  <2> QED
    BY <1>1, <2>1, <2>2 DEF TypeOK, DeleteTemplate
<1>2. CASE Tick
  <2>1. now' \in Times
    BY <1>2, Constants DEF TypeOK, Tick, Times
  <2> QED
    BY <1>2, <2>1 DEF TypeOK, Tick, Times
<1> QED
  BY <1>1, <1>2

LEMMA TypeNext == TypeOK /\ [Next]_vars => TypeOK'
<1> SUFFICES ASSUME TypeOK, [Next]_vars PROVE TypeOK'
  OBVIOUS
<1>1. CASE Next
  BY <1>1, TypeCommand, TypeMaterializer, TypePeople, TypeOthers DEF Next
<1>2. CASE UNCHANGED vars
  BY <1>2 DEF TypeOK, vars
<1> QED
  BY <1>1, <1>2

(* The type invariant of schedules, their executions, commands and runs,   *)
(* whatever overlaps.                                                      *)
THEOREM TypeCorrect == Spec => []TypeOK
<1> QED
  BY TypeInit, TypeNext, PTL DEF Spec

-----------------------------------------------------------------------------
(* What holds when commands, runs and deletions go in turn.  Whoever is at *)
(* work is alone; so the copy a command or a run has of the schedule is    *)
(* still the schedule, and an execution that is scheduled now was so when  *)
(* a command read it: people only take executions out of that state.       *)

RunIdle(m) == materializer[m].at = "idle"

Alone ==
    /\ \A c, d \in Commands : c # d => IsIdle(c) \/ IsIdle(d)
    /\ \A m, n \in Materializers : m # n => RunIdle(m) \/ RunIdle(n)
    /\ \A c \in Commands, m \in Materializers : IsIdle(c) \/ RunIdle(m)

EditKnows(c) ==
    ~IsIdle(c) /\ command[c].kind = "edit" =>
        /\ schedule.status = "active" /\ command[c].mem.status = "active"
        /\ command[c].fields = {f \in Fields : command[c].mem[f] # schedule[f]}

RowsKnown(c) ==
    command[c].at = "syncing" =>
        /\ command[c].since <= now
        /\ \A s \in Slots : executions[s].status = "scheduled" =>
                                command[c].rows[s] = executions[s]

RunKnows(m) ==
    ~RunIdle(m) =>
        /\ materializer[m].mem = schedule /\ schedule.status = "active"
        /\ materializer[m].todo \subseteq schedule.days
        /\ materializer[m].at # "listed" => materializer[m].date \in materializer[m].todo

Knows == /\ \A c \in Commands : EditKnows(c) /\ RowsKnown(c)
         /\ \A m \in Materializers : RunKnows(m)

InTurnInv == TypeOK /\ Alone /\ Knows /\ FollowsSchedule

(* Dates and starts are integers.                                          *)
LEMMA Starts ==
    ASSUME NEW s \in Slots, NEW w \in Windows PROVE StartOf(s[1], w) \in Int
  BY Constants DEF Slots, Dates, StartOf

LEMMA Scheduled ==
    ASSUME NEW s \in Slots, NEW e \in Executions
    PROVE  /\ Promoted(s, e).status = "scheduled" => Promoted(s, e) = e
           /\ Promoted(s, e).status \in Started => Promoted(s, e).window = e.window
  BY DEF Promoted, Executions, Started

LEMMA AloneCommand ==
    ASSUME TypeOK, Alone, InTurn, NEW c \in Commands, CommandStep(c) PROVE Alone'
<1>1. \E row : command' = [command EXCEPT ![c] = row]
  BY DEF CommandStep, FetchEdit, FetchDeactivation, SaveEdit, ReadForDeactivation, ReadsRows,
         CommitEdit, CommitDeactivation, AbortCommand, Leave
<1>2. \A d \in Commands : d # c => command'[d] = command[d]
  BY <1>1 DEF TypeOK
<1>3. materializer' = materializer
  BY DEF CommandStep, FetchEdit, FetchDeactivation, SaveEdit, ReadForDeactivation, ReadsRows,
         CommitEdit, CommitDeactivation, AbortCommand
<1>4. IsIdle(c) /\ command'[c].at # "idle" => Quiet
  BY DEF InTurn
<1> QED
  BY <1>2, <1>3, <1>4 DEF Alone, IsIdle, RunIdle, Quiet

LEMMA AloneMaterializer ==
    ASSUME TypeOK, Alone, InTurn, NEW m \in Materializers, MaterializerStep(m) PROVE Alone'
<1>1. \E row : materializer' = [materializer EXCEPT ![m] = row]
  BY DEF MaterializerStep, ReadOrCalendar, BeatHorizon, List, Proceed, Look, Reactivate, Insert,
         Writes, EndRun
<1>2. \A n \in Materializers : n # m => materializer'[n] = materializer[n]
  BY <1>1 DEF TypeOK
<1>3. command' = command
  BY DEF MaterializerStep, ReadOrCalendar, BeatHorizon, List, Proceed, Look, Reactivate, Insert,
         Writes, EndRun
<1>4. RunIdle(m) /\ materializer'[m].at # "idle" => Quiet
  BY DEF InTurn, RunIdle
<1> QED
  BY <1>2, <1>3, <1>4 DEF Alone, IsIdle, RunIdle, Quiet

(* The blank rows say nothing.                                             *)
LEMMA Blank == NoCommand.at = "idle" /\ NoRun.at = "idle"
  BY DEF NoCommand, NoRun

(* Steps of a command that leave schedule and executions alone.            *)
LEMMA KnowsCommand ==
    ASSUME TypeOK, Alone, Knows, InTurn, NEW c \in Commands,
           FetchEdit(c) \/ FetchDeactivation(c) \/ SaveEdit(c) \/ ReadForDeactivation(c)
               \/ AbortCommand(c)
    PROVE  Knows' /\ UNCHANGED <<schedule, executions, now>>
<1> DEFINE same == UNCHANGED <<schedule, executions, materializer, now>>
<1>1. same
  BY DEF FetchEdit, FetchDeactivation, SaveEdit, ReadForDeactivation, ReadsRows, AbortCommand
<1>2. \E row : command' = [command EXCEPT ![c] = row]
  BY DEF FetchEdit, FetchDeactivation, SaveEdit, ReadForDeactivation, ReadsRows, AbortCommand, Leave
<1>3. \A d \in Commands : d # c => command'[d] = command[d]
  BY <1>2 DEF TypeOK
<1>4. \A m \in Materializers : RunKnows(m)'
  BY <1>1 DEF Knows, RunKnows, RunIdle
<1>5. \A d \in Commands : d # c => EditKnows(d)' /\ RowsKnown(d)'
  BY <1>1, <1>3 DEF Knows, EditKnows, RowsKnown, IsIdle
<1>6. EditKnows(c)' /\ RowsKnown(c)'
  <2>1. CASE FetchEdit(c)
    <3>1. PICK target \in Schedules :
            /\ target.status = "active"
            /\ command' = [command EXCEPT ![c] =
                [command[c] EXCEPT !.at = "fetched", !.kind = "edit", !.mem = target,
                                   !.fields = {f \in Fields : target[f] # schedule[f]}]]
      BY <2>1 DEF FetchEdit
    <3>2. /\ command'[c].at = "fetched" /\ command'[c].mem = target
          /\ command'[c].fields = {f \in Fields : target[f] # schedule[f]}
      BY <3>1 DEF TypeOK, CommandRows
    <3>3. schedule.status = "active"
      BY <2>1 DEF FetchEdit
    <3> QED
      BY <1>1, <3>1, <3>2, <3>3 DEF EditKnows, RowsKnown
  <2>2. CASE FetchDeactivation(c)
    <3>1. PICK kind \in {"deactivate", "catalog"} :
            command' = [command EXCEPT ![c] = [command[c] EXCEPT !.at = "fetched", !.kind = kind]]
      BY <2>2 DEF FetchDeactivation
    <3>2. command'[c].at = "fetched" /\ command'[c].kind = kind
      BY <3>1 DEF TypeOK, CommandRows
    <3> QED
      BY <3>2 DEF EditKnows, RowsKnown
  <2>3. CASE SaveEdit(c) \/ ReadForDeactivation(c)
    <3>1. command' = [command EXCEPT ![c] = [command[c] EXCEPT
                        !.at = "syncing", !.rows = executions, !.since = now]]
      BY <2>3 DEF SaveEdit, ReadForDeactivation, ReadsRows
    <3>2. /\ command'[c].kind = command[c].kind /\ command'[c].mem = command[c].mem
          /\ command'[c].fields = command[c].fields
          /\ command'[c].rows = executions /\ command'[c].since = now
      BY <3>1 DEF TypeOK, CommandRows
    <3>3. ~IsIdle(c)
      BY <2>3 DEF SaveEdit, ReadForDeactivation, IsIdle
    <3>4. EditKnows(c)'
      BY <1>1, <3>2, <3>3 DEF Knows, EditKnows, IsIdle
    <3>5. now \in Nat
      BY Constants DEF TypeOK
    <3> QED
      BY <1>1, <3>2, <3>4, <3>5 DEF RowsKnown
  <2>4. CASE AbortCommand(c)
    <3>1. command'[c] = NoCommand
      BY <2>4 DEF AbortCommand, Leave, TypeOK
    <3> QED
      BY <3>1, Blank DEF EditKnows, RowsKnown, IsIdle
  <2> QED
    BY <2>1, <2>2, <2>3, <2>4
<1> QED
  BY <1>1, <1>4, <1>5, <1>6 DEF Knows

(* A commit ends the only work under way.                                  *)
LEMMA KnowsCommit ==
    ASSUME TypeOK, Alone, NEW c \in Commands, CommitEdit(c) \/ CommitDeactivation(c)
    PROVE  Knows'
<1>1. command' = [command EXCEPT ![c] = NoCommand] /\ materializer' = materializer
  BY DEF CommitEdit, CommitDeactivation, Leave
<1>2. ~IsIdle(c)
  BY DEF CommitEdit, CommitDeactivation, HoldsSchedule, IsIdle
<1>3. \A m \in Materializers : RunIdle(m)'
  BY <1>1, <1>2 DEF Alone, RunIdle
<1>4. \A d \in Commands : IsIdle(d)'
  BY <1>1, <1>2, Blank DEF Alone, IsIdle, TypeOK
<1> QED
  BY <1>3, <1>4 DEF Knows, EditKnows, RowsKnown, RunKnows, IsIdle

(* What an edit saves is its copy: nobody else changed the schedule.       *)
LEMMA SavedIsMem ==
    ASSUME TypeOK, NEW c \in Commands, ~IsIdle(c), command[c].kind = "edit", EditKnows(c)
    PROVE  Saved(c) = command[c].mem
<1> DEFINE mem == command[c].mem
<1>1. mem \in Schedules /\ schedule \in Schedules
  BY DEF TypeOK, CommandRows
<1>2. \A f \in Fields : (f \in command[c].fields) <=> mem[f] # schedule[f]
  BY DEF EditKnows
<1>3. /\ mem.days = IF "days" \in command[c].fields THEN mem.days ELSE schedule.days
      /\ mem.window = IF "window" \in command[c].fields THEN mem.window ELSE schedule.window
      /\ mem.owner = IF "owner" \in command[c].fields THEN mem.owner ELSE schedule.owner
      /\ mem.status = schedule.status
  <2>1. "days" \in Fields /\ "window" \in Fields /\ "owner" \in Fields
    BY DEF Fields
  <2>2. mem["days"] = mem.days /\ mem["window"] = mem.window /\ mem["owner"] = mem.owner
    OBVIOUS
  <2> QED
    BY <1>2, <2>1, <2>2 DEF EditKnows
<1> QED
  BY <1>1, <1>3 DEF Saved, Schedules

LEMMA FollowsEdit ==
    ASSUME InTurnInv, NEW c \in Commands, CommitEdit(c) PROVE FollowsSchedule'
<1> DEFINE me == command[c]
           mem == command[c].mem
<1>0. TypeOK /\ EditKnows(c) /\ RowsKnown(c)
  BY DEF InTurnInv, Knows
<1>1. /\ me.at = "syncing" /\ me.kind = "edit" /\ schedule' = Saved(c)
      /\ executions' = AfterEdit(c) /\ now' = now
  BY DEF CommitEdit, HoldsSchedule
<1>2. schedule' = mem /\ Saved(c) = mem /\ mem.status = "active" /\ mem \in Schedules
  BY <1>0, <1>1, SavedIsMem DEF EditKnows, IsIdle, TypeOK, CommandRows
<1>3. ASSUME NEW s \in Slots,
             executions'[s].status = "scheduled", ~Due(s, executions'[s], now)
      PROVE  s[1] \in mem.days /\ s[2] = mem.owner /\ executions'[s].window = mem.window
  <2> DEFINE cur    == executions[s]
             old    == me.rows[s]
             synced == Synced(c, s, mem.owner)
  <2>1. cur \in Executions /\ synced \in Executions /\ mem.window \in Windows
    BY <1>0, <1>2, SyncedType DEF TypeOK, Schedules
  <2>2. executions'[s] = IF s[1] \in InHorizon(mem) /\ s[2] = mem.owner
                         THEN Materialized(s, Promoted(s, synced), mem) ELSE Promoted(s, synced)
    BY <1>1, <1>2 DEF AfterEdit
  <2>3. CASE executions'[s] = Fresh(s, mem.window) /\ s[1] \in InHorizon(mem) /\ s[2] = mem.owner
    BY <2>3 DEF Fresh, InHorizon
  <2>4. CASE executions'[s] = Promoted(s, synced)
    <3>1. executions'[s] = synced
      BY <1>3, <2>1, <2>4, Scheduled
    <3>2. CASE CanReactivate(s, old, mem, mem.owner, me.since)
      <4>1. synced = Fresh(s, mem.window)
        BY <3>2 DEF Synced
      <4> QED
        BY <3>1, <3>2, <4>1 DEF CanReactivate, Fresh
    <3>3. CASE /\ ~CanReactivate(s, old, mem, mem.owner, me.since)
               /\ old.status # "scheduled" \/ Due(s, old, me.since)
      <4>1. synced = cur
        BY <3>3 DEF Synced
      <4>2. old = cur
        BY <1>0, <1>1, <1>3, <3>1, <4>1 DEF RowsKnown
      <4>3. Due(s, cur, me.since) /\ me.since <= now
        BY <1>0, <1>1, <1>3, <3>1, <3>3, <4>1, <4>2 DEF RowsKnown
      <4>4. me.since \in Int /\ now \in Int /\ StartOf(s[1], cur.window) \in Int
        BY <1>0, <2>1, Starts DEF TypeOK, CommandRows, Executions
      <4>5. Due(s, cur, now)
        BY <4>3, <4>4 DEF Due
      <4> QED
        BY <1>3, <3>1, <4>1, <4>5
    <3>4. CASE /\ ~CanReactivate(s, old, mem, mem.owner, me.since)
               /\ ~(old.status # "scheduled" \/ Due(s, old, me.since))
      <4>1. CASE s[2] = mem.owner /\ s[1] \in mem.days
        <5>1. synced = [cur EXCEPT !.window = mem.window]
          BY <3>4, <4>1 DEF Synced
        <5> QED
          BY <2>1, <3>1, <4>1, <5>1 DEF Executions
      <4>2. CASE ~(s[2] = mem.owner /\ s[1] \in mem.days)
        <5>1. synced = [cur EXCEPT !.status = "canceled", !.origin = "schedule_sync"]
          BY <3>4, <4>2 DEF Synced
        <5> QED
          BY <1>3, <2>1, <3>1, <5>1 DEF Executions
      <4> QED
        BY <4>1, <4>2
    <3> QED
      BY <3>2, <3>3, <3>4
  <2> QED
    BY <2>2, <2>3, <2>4 DEF Materialized
<1> QED
  BY <1>1, <1>2, <1>3 DEF FollowsSchedule, Due, StartOf

LEMMA FollowsDeactivation ==
    ASSUME InTurnInv, NEW c \in Commands, CommitDeactivation(c) PROVE FollowsSchedule'
<1> DEFINE me == command[c]
<1>0. TypeOK /\ RowsKnown(c)
  BY DEF InTurnInv, Knows
<1>1. me.at = "syncing" /\ executions' = AfterDeactivation(c) /\ now' = now
  BY DEF CommitDeactivation
<1>2. ASSUME NEW s \in Slots,
             executions'[s].status = "scheduled", ~Due(s, executions'[s], now)
      PROVE  FALSE
  <2> DEFINE cur == executions[s]
             old == me.rows[s]
  <2>1. cur \in Executions
    BY <1>0 DEF TypeOK
  <2>2. CASE old.status # "scheduled"
    <3>1. executions'[s] = cur
      BY <1>1, <2>2 DEF AfterDeactivation
    <3> QED
      BY <1>0, <1>1, <1>2, <2>2, <3>1 DEF RowsKnown
  <2>3. CASE old.status = "scheduled" /\ Due(s, old, me.since)
    <3>1. executions'[s] = cur
      BY <1>1, <1>2, <2>1, <2>3, Scheduled DEF AfterDeactivation
    <3>2. old = cur /\ me.since <= now
      BY <1>0, <1>1, <1>2, <3>1 DEF RowsKnown
    <3>3. me.since \in Int /\ now \in Int /\ StartOf(s[1], cur.window) \in Int
      BY <1>0, <2>1, Starts DEF TypeOK, CommandRows, Executions
    <3> QED
      BY <1>2, <2>3, <3>1, <3>2, <3>3 DEF Due
  <2>4. CASE old.status = "scheduled" /\ ~Due(s, old, me.since)
    <3>1. executions'[s] = [cur EXCEPT !.status = "canceled", !.origin = "schedule_sync"]
      BY <1>1, <2>4 DEF AfterDeactivation
    <3> QED
      BY <1>2, <2>1, <3>1 DEF Executions
  <2> QED
    BY <2>2, <2>3, <2>4
<1> QED
  BY <1>1, <1>2 DEF FollowsSchedule, Due, StartOf

(* A run goes on with the copy it has.                                     *)
LEMMA NextDateKnows ==
    ASSUME NEW run \in MaterializerRows, run.todo \subseteq schedule.days, run.mem = schedule
    PROVE  LET next == NextDate(run) IN
           next.at # "idle" => /\ next.mem = schedule /\ next.todo \subseteq schedule.days
                               /\ next.at = "listed"
  BY Blank DEF NextDate, MaterializerRows

LEMMA FollowsWrites ==
    ASSUME InTurnInv, NEW m \in Materializers, ~RunIdle(m), materializer[m].at # "listed",
           NEW e, Writes(m, e),
           LET s == <<materializer[m].date, schedule.owner>>
           IN e = executions[s] \/ e = Fresh(s, schedule.window)
    PROVE  RunKnows(m)' /\ FollowsSchedule'
<1> DEFINE run == materializer[m]
           slot == <<run.date, schedule.owner>>
<1>1. /\ run \in MaterializerRows /\ run.mem = schedule /\ schedule.status = "active"
      /\ run.todo \subseteq schedule.days /\ run.date \in schedule.days
  BY DEF InTurnInv, TypeOK, Knows, RunKnows
<1>2. executions' = [executions EXCEPT ![slot] = e] /\ schedule' = schedule /\ now' = now
  BY <1>1 DEF Writes
<1>3. RunKnows(m)'
  <2>1. materializer'[m] = NextDate(run)
    BY DEF InTurnInv, TypeOK, Writes
  <2> QED
    BY <1>1, <1>2, <2>1, NextDateKnows DEF RunKnows, RunIdle
<1>4. ASSUME NEW s \in Slots, executions'[s].status = "scheduled", ~Due(s, executions'[s], now)
      PROVE  s[1] \in schedule.days /\ s[2] = schedule.owner
             /\ executions'[s].window = schedule.window
  <2>1. CASE executions'[s] = executions[s]
    BY <1>4, <2>1 DEF InTurnInv, FollowsSchedule
  <2>2. CASE s = slot /\ executions'[s] = Fresh(slot, schedule.window)
    BY <1>1, <2>2 DEF Fresh
  <2> QED
    BY <1>2, <2>1, <2>2 DEF InTurnInv, TypeOK
<1> QED
  BY <1>1, <1>2, <1>3, <1>4 DEF FollowsSchedule, Due, StartOf

LEMMA FollowsMaterializer ==
    ASSUME InTurnInv, InTurn, NEW m \in Materializers, MaterializerStep(m)
    PROVE  Knows' /\ FollowsSchedule'
<1> DEFINE run == materializer[m]
<1>0. TypeOK /\ Alone /\ RunKnows(m) /\ FollowsSchedule
  BY DEF InTurnInv, Knows
<1>1. /\ command' = command /\ schedule' = schedule /\ now' = now
      /\ \E row : materializer' = [materializer EXCEPT ![m] = row]
  BY DEF MaterializerStep, ReadOrCalendar, BeatHorizon, List, Proceed, Look, Reactivate, Insert,
         Writes, EndRun
<1>2. \A c \in Commands : IsIdle(c)
  <2>1. CASE ~RunIdle(m)
    BY <1>0, <2>1 DEF Alone
  <2>2. CASE RunIdle(m)
    <3>1. ASSUME NEW last, NEW reloads, List(m, last, reloads) PROVE materializer'[m].at = "listed"
      BY <1>0, <3>1 DEF List, TypeOK
    <3>2. materializer'[m].at # "idle"
      BY <2>2, <3>1 DEF MaterializerStep, ReadOrCalendar, BeatHorizon, Proceed, Look, Reactivate,
                        Insert, EndRun, RunIdle
    <3> QED
      BY <2>2, <3>2 DEF InTurn, RunIdle, Quiet
  <2> QED
    BY <2>1, <2>2
<1>3. \A c \in Commands : EditKnows(c)' /\ RowsKnown(c)'
  BY <1>1, <1>2 DEF EditKnows, RowsKnown, IsIdle
<1>4. \A n \in Materializers : n # m => RunKnows(n)'
  <2>1. \A n \in Materializers : n # m => materializer'[n] = materializer[n]
    BY <1>0, <1>1 DEF TypeOK
  <2> QED
    BY <1>1, <2>1 DEF InTurnInv, Knows, RunKnows, RunIdle
<1>5. executions' = executions => FollowsSchedule'
  BY <1>0, <1>1 DEF FollowsSchedule, Due, StartOf
<1>6. RunKnows(m)' /\ FollowsSchedule'
  <2>1. ASSUME NEW last, NEW reloads, List(m, last, reloads) PROVE RunKnows(m)' /\ FollowsSchedule'
    <3> DEFINE next == [at |-> "listed", reloads |-> reloads,
                        todo |-> schedule.days \cap Today..last, date |-> 1, mem |-> schedule]
    <3>1. materializer'[m] = next
      BY <1>0, <2>1 DEF List, TypeOK
    <3>2. next.at = "listed" /\ next.mem = schedule /\ next.todo \subseteq schedule.days
      OBVIOUS
    <3>3. schedule.status = "active" /\ executions' = executions
      BY <2>1 DEF List
    <3> QED
      BY <1>1, <1>5, <3>1, <3>2, <3>3 DEF RunKnows
  <2>2. CASE Look(m)
    <3>1. run.at = "listed" /\ executions' = executions
      BY <2>2 DEF Look
    <3>2. /\ run \in MaterializerRows /\ run.mem = schedule /\ schedule.status = "active"
          /\ run.todo \subseteq schedule.days /\ Loaded(run) = schedule
      BY <1>0, <3>1 DEF TypeOK, RunKnows, RunIdle, Loaded
    <3>3. PICK d \in run.todo :
            LET at == [run EXCEPT !.mem = schedule, !.date = d]
            IN \/ materializer'[m] = NextDate(at)
               \/ materializer'[m] = [at EXCEPT !.at = "reactivating"]
               \/ materializer'[m] = [at EXCEPT !.at = "inserting"]
      BY <1>0, <2>2, <3>2 DEF Look, TypeOK
    <3> DEFINE at == [run EXCEPT !.mem = schedule, !.date = d]
    <3>4. at \in MaterializerRows /\ at.todo = run.todo /\ at.mem = schedule /\ at.date = d
      BY <1>0, <3>2 DEF TypeOK, MaterializerRows
    <3>5. ASSUME materializer'[m] = NextDate(at) PROVE RunKnows(m)'
      BY <1>1, <3>2, <3>4, <3>5, NextDateKnows DEF RunKnows, RunIdle
    <3>6. ASSUME \/ materializer'[m] = [at EXCEPT !.at = "reactivating"]
                 \/ materializer'[m] = [at EXCEPT !.at = "inserting"]
          PROVE  RunKnows(m)'
      <4>1. /\ materializer'[m].mem = schedule /\ materializer'[m].todo = run.todo
            /\ materializer'[m].date = d
        BY <3>4, <3>6 DEF MaterializerRows
      <4> QED
        BY <1>1, <3>2, <4>1 DEF RunKnows
    <3> QED
      BY <1>5, <3>1, <3>3, <3>5, <3>6
  <2>3. CASE Reactivate(m)
    <3>1. run.at = "reactivating" /\ run.mem = schedule
      BY <1>0, <2>3 DEF Reactivate, RunKnows, RunIdle
    <3>2. Writes(m, Fresh(<<run.date, schedule.owner>>, schedule.window))
      BY <2>3, <3>1 DEF Reactivate
    <3> QED
      BY <3>1, <3>2, FollowsWrites DEF RunIdle
  <2>4. CASE Insert(m)
    <3> DEFINE slot == <<run.date, schedule.owner>>
    <3>1. run.at = "inserting" /\ run.mem = schedule
      BY <1>0, <2>4 DEF Insert, RunKnows, RunIdle
    <3>2. Writes(m, Materialized(slot, executions[slot], schedule))
      BY <2>4, <3>1 DEF Insert
    <3>3. \/ Materialized(slot, executions[slot], schedule) = executions[slot]
          \/ Materialized(slot, executions[slot], schedule) = Fresh(slot, schedule.window)
      BY DEF Materialized
    <3> QED
      BY <3>1, <3>2, <3>3, FollowsWrites DEF RunIdle
  <2>5. CASE EndRun(m)
    <3>1. materializer'[m] = NoRun /\ executions' = executions
      BY <1>0, <2>5 DEF EndRun, TypeOK
    <3> QED
      BY <1>5, <3>1, Blank DEF RunKnows, RunIdle
  <2> QED
    BY <2>1, <2>2, <2>3, <2>4, <2>5 DEF MaterializerStep, ReadOrCalendar, BeatHorizon, Proceed
<1> QED
  BY <1>3, <1>4, <1>6 DEF Knows

(* People and the clock only take executions out of "scheduled".           *)
LEMMA PeopleTake ==
    ASSUME TypeOK, NEW s \in Slots, People(s)
    PROVE  /\ UNCHANGED <<schedule, command, materializer, now>>
           /\ executions'[s].status \in Started \cup {"canceled"}
           /\ \A t \in Slots : t # s => executions'[t] = executions[t]
<1>1. executions[s] \in Executions
  BY DEF TypeOK
<1>2. ASSUME NEW e \in Executions, e.status \in Started \cup {"canceled"}, SetExecution(s, e)
      PROVE  /\ UNCHANGED <<schedule, command, materializer, now>>
             /\ executions'[s].status \in Started \cup {"canceled"}
             /\ \A t \in Slots : t # s => executions'[t] = executions[t]
  BY <1>2 DEF TypeOK, SetExecution
<1>3. CASE Promote(s)
  <2>1. /\ Promoted(s, executions[s]) \in Executions
        /\ Promoted(s, executions[s]).status = "in_progress"
    BY <1>1, <1>3, PromotedType DEF Promote, Promoted, Executions
  <2> QED
    BY <1>2, <1>3, <2>1 DEF Promote, Started
<1>4. \A status \in Started : /\ [executions[s] EXCEPT !.status = status] \in Executions
                              /\ [executions[s] EXCEPT !.status = status].status = status
  BY <1>1 DEF Executions, Statuses
<1>5. CASE MarkDone(s) \/ Validate(s)
  BY <1>5, <1>2, <1>4 DEF MarkDone, Validate, Started
<1>6. CASE Reopen(s) \/ Cancel(s)
  <2> DEFINE reopened == [executions[s] EXCEPT !.status = "in_progress", !.origin = "none"]
             canceled == [executions[s] EXCEPT !.status = "canceled", !.origin = "manual"]
  <2>1. /\ reopened \in Executions /\ reopened.status \in Started \cup {"canceled"}
        /\ canceled \in Executions /\ canceled.status \in Started \cup {"canceled"}
    BY <1>1 DEF Executions, Statuses, Started, Origins
  <2>2. SetExecution(s, reopened) \/ SetExecution(s, canceled)
    BY <1>6 DEF Reopen, Cancel
  <2> QED
    BY <1>2, <2>1, <2>2
<1> QED
  BY <1>3, <1>5, <1>6 DEF People

LEMMA FollowsPeople ==
    ASSUME InTurnInv, NEW s \in Slots, People(s)
    PROVE  Alone' /\ Knows' /\ FollowsSchedule'
<1>1. /\ UNCHANGED <<schedule, command, materializer, now>>
      /\ \A t \in Slots : executions'[t].status = "scheduled" => executions'[t] = executions[t]
  BY PeopleTake DEF InTurnInv, Started
<1>2. Alone'
  BY <1>1 DEF InTurnInv, Alone, IsIdle, RunIdle
<1>3. Knows'
  <2>1. \A c \in Commands : EditKnows(c)'
    BY <1>1 DEF InTurnInv, Knows, EditKnows, IsIdle
  <2>2. \A c \in Commands : RowsKnown(c)'
    BY <1>1 DEF InTurnInv, Knows, RowsKnown
  <2>3. \A m \in Materializers : RunKnows(m)'
    BY <1>1 DEF InTurnInv, Knows, RunKnows, RunIdle
  <2> QED
    BY <2>1, <2>2, <2>3 DEF Knows
<1>4. FollowsSchedule'
  BY <1>1 DEF InTurnInv, FollowsSchedule, Due, StartOf
<1> QED
  BY <1>2, <1>3, <1>4

LEMMA FollowsDeletion ==
    ASSUME InTurnInv, InTurn, DeleteTemplate
    PROVE  Alone' /\ Knows' /\ FollowsSchedule'
<1>1. command' = command /\ materializer' = materializer
  BY DEF DeleteTemplate
<1>2. Quiet
  <2>1. schedule'.status = "deleted" /\ schedule.status # "deleted"
    BY DEF DeleteTemplate, InTurnInv, TypeOK, Schedules
  <2> QED
    BY <2>1 DEF InTurn
<1>3. Alone' /\ Knows'
  BY <1>1, <1>2 DEF Quiet, Alone, Knows, EditKnows, RowsKnown, RunKnows, IsIdle, RunIdle
<1>4. \A s \in Slots : executions'[s].status # "scheduled"
  BY DEF DeleteTemplate, NoExecution
<1> QED
  BY <1>3, <1>4 DEF FollowsSchedule

LEMMA FollowsTick ==
    ASSUME InTurnInv, Tick PROVE Alone' /\ Knows' /\ FollowsSchedule'
<1>1. UNCHANGED <<schedule, executions, command, materializer>> /\ now' = now + 1 /\ now \in Int
  BY Constants DEF Tick, InTurnInv, TypeOK
<1>2. Alone'
  BY <1>1 DEF InTurnInv, Alone, IsIdle, RunIdle
<1>3. Knows'
  <2>1. \A c \in Commands : EditKnows(c)'
    BY <1>1 DEF InTurnInv, Knows, EditKnows, IsIdle
  <2>2. \A c \in Commands : RowsKnown(c)'
    <3>1. \A c \in Commands : command[c].since \in Int
      BY Constants DEF InTurnInv, TypeOK, CommandRows
    <3> QED
      BY <1>1, <3>1 DEF InTurnInv, Knows, RowsKnown
  <2>3. \A m \in Materializers : RunKnows(m)'
    BY <1>1 DEF InTurnInv, Knows, RunKnows, RunIdle
  <2> QED
    BY <2>1, <2>2, <2>3 DEF Knows
<1>4. \A s \in Slots : ~Due(s, executions[s], now + 1) => ~Due(s, executions[s], now)
  <2> SUFFICES ASSUME NEW s \in Slots, ~Due(s, executions[s], now + 1)
               PROVE  ~Due(s, executions[s], now)
    OBVIOUS
  <2>1. StartOf(s[1], executions[s].window) \in Int
    BY Starts DEF InTurnInv, TypeOK, Executions
  <2> QED
    BY <1>1, <2>1 DEF Due
<1>5. FollowsSchedule'
  <2>1. \A s \in Slots : Due(s, executions[s], now)' <=> Due(s, executions[s], now + 1)
    BY <1>1 DEF Due, StartOf
  <2> QED
    BY <1>1, <1>4, <2>1 DEF InTurnInv, FollowsSchedule
<1> QED
  BY <1>2, <1>3, <1>5

LEMMA FollowsInit == Init => InTurnInv
<1> SUFFICES ASSUME Init PROVE InTurnInv
  OBVIOUS
<1>1. /\ \A c \in Commands : IsIdle(c)
      /\ \A m \in Materializers : RunIdle(m)
  BY Blank DEF Init, IsIdle, RunIdle
<1>2. Alone /\ Knows
  BY <1>1 DEF Alone, Knows, EditKnows, RowsKnown, RunKnows, IsIdle
<1>3. FollowsSchedule
  <2>1. \A s \in Slots : executions[s].status = "none"
    BY DEF Init, NoExecution
  <2> QED
    BY <2>1 DEF FollowsSchedule
<1> QED
  BY <1>2, <1>3, TypeInit DEF InTurnInv

LEMMA FollowsNext == InTurnInv /\ [Next /\ InTurn]_vars => InTurnInv'
<1> SUFFICES ASSUME InTurnInv, [Next /\ InTurn]_vars PROVE InTurnInv'
  OBVIOUS
<1>0. TypeOK' /\ TypeOK /\ Alone /\ Knows
  BY TypeNext DEF InTurnInv
<1>1. ASSUME Next /\ InTurn PROVE Alone' /\ Knows' /\ FollowsSchedule'
  <2>1. ASSUME NEW c \in Commands, CommandStep(c) PROVE Alone' /\ Knows' /\ FollowsSchedule'
    <3>1. Alone'
      BY <1>0, <1>1, <2>1, AloneCommand
    <3>2. CASE CommitEdit(c)
      BY <1>0, <3>1, <3>2, KnowsCommit, FollowsEdit
    <3>3. CASE CommitDeactivation(c)
      BY <1>0, <3>1, <3>3, KnowsCommit, FollowsDeactivation
    <3>4. CASE FetchEdit(c) \/ FetchDeactivation(c) \/ SaveEdit(c) \/ ReadForDeactivation(c)
               \/ AbortCommand(c)
      <4>1. Knows' /\ UNCHANGED <<schedule, executions, now>>
        BY <1>0, <1>1, <3>4, KnowsCommand
      <4>2. FollowsSchedule'
        BY <4>1 DEF InTurnInv, FollowsSchedule, Due, StartOf
      <4> QED
        BY <3>1, <4>1, <4>2
    <3> QED
      BY <2>1, <3>2, <3>3, <3>4 DEF CommandStep
  <2>2. ASSUME NEW m \in Materializers, MaterializerStep(m)
        PROVE  Alone' /\ Knows' /\ FollowsSchedule'
    BY <1>0, <1>1, <2>2, AloneMaterializer, FollowsMaterializer
  <2>3. ASSUME NEW s \in Slots, People(s) PROVE Alone' /\ Knows' /\ FollowsSchedule'
    BY <2>3, FollowsPeople
  <2> QED
    BY <1>1, <2>1, <2>2, <2>3, FollowsDeletion, FollowsTick DEF Next
<1>2. ASSUME UNCHANGED vars PROVE Alone' /\ Knows' /\ FollowsSchedule'
  <2>1. UNCHANGED <<schedule, executions, command, materializer, now>>
    BY <1>2 DEF vars
  <2>2. Alone'
    BY <1>0, <2>1 DEF Alone, IsIdle, RunIdle
  <2>3. Knows'
    BY <1>0, <2>1 DEF Knows, EditKnows, RowsKnown, RunKnows, IsIdle, RunIdle
  <2>4. FollowsSchedule'
    BY <2>1 DEF InTurnInv, FollowsSchedule, Due, StartOf
  <2> QED
    BY <2>2, <2>3, <2>4
<1> QED
  BY <1>0, <1>1, <1>2 DEF InTurnInv

(* Commands, runs and deletions that go in turn agree on what has not      *)
(* started, however people and the clock interleave with them.             *)
THEOREM Follows == SpecInTurn => []FollowsSchedule
<1>1. InTurnInv => FollowsSchedule
  BY DEF InTurnInv
<1> QED
  BY <1>1, FollowsInit, FollowsNext, PTL DEF SpecInTurn

-----------------------------------------------------------------------------
(* What people decided needs no turns: it is enough that the executions    *)
(* are as they were read when they are overwritten, those of a command by  *)
(* RowsHeld, and the one a run is about to reactivate likewise.  Commands, *)
(* runs and deletions may overlap as they please.                          *)

RowsCurrent == \A c \in Commands : command[c].at = "syncing" => command[c].rows = executions

RunSlotOf(m) == <<materializer[m].date, materializer[m].mem.owner>>

Reacting ==
    \A m \in Materializers : materializer[m].at = "reactivating" =>
        /\ executions[RunSlotOf(m)].status = "canceled"
        /\ executions[RunSlotOf(m)].origin = "schedule_sync"

RunHeld ==
    \A m \in Materializers :
        materializer[m].at = "reactivating" /\ materializer'[m] = materializer[m] =>
            executions'[RunSlotOf(m)] = executions[RunSlotOf(m)]

Held(A) == A /\ RowsHeld /\ RunHeld

SpecHeld == Init /\ [][Held(Next)]_vars

HeldInv == TypeOK /\ RowsCurrent /\ Reacting

(* What a person canceled, or not the schedule at least, and what started. *)
Settled(e) == \/ e.status \in Started
              \/ e.status = "canceled" /\ e.origin # "schedule_sync"

LEMMA SettledOperators ==
    ASSUME NEW s \in Slots, NEW e \in Executions, Settled(e), NEW sched
    PROVE  Promoted(s, e) = e /\ Materialized(s, e, sched) = e
  BY DEF Settled, Started, Promoted, Materialized, CanReactivate

LEMMA SettledCommand ==
    ASSUME HeldInv, NEW c \in Commands, CommandStep(c), NEW s \in Slots, Settled(executions[s])
    PROVE  executions'[s] = executions[s]
<1> DEFINE cur == executions[s]
<1>1. cur \in Executions
  BY DEF HeldInv, TypeOK
<1>2. CASE CommitEdit(c)
  <2>1. command[c].rows[s] = cur /\ executions' = AfterEdit(c)
    BY <1>2 DEF HeldInv, RowsCurrent, CommitEdit, HoldsSchedule
  <2>2. Synced(c, s, Saved(c).owner) = cur
    BY <2>1 DEF Synced, CanReactivate, Settled, Started
  <2> QED
    BY <1>1, <2>1, <2>2, SettledOperators DEF AfterEdit
<1>3. CASE CommitDeactivation(c)
  <2>1. command[c].rows[s] = cur /\ executions' = AfterDeactivation(c)
    BY <1>3 DEF HeldInv, RowsCurrent, CommitDeactivation
  <2> QED
    BY <2>1 DEF AfterDeactivation, Settled, Started
<1>4. CASE FetchEdit(c) \/ FetchDeactivation(c) \/ SaveEdit(c) \/ ReadForDeactivation(c)
           \/ AbortCommand(c)
  BY <1>4 DEF FetchEdit, FetchDeactivation, SaveEdit, ReadForDeactivation, ReadsRows, AbortCommand
<1> QED
  BY <1>2, <1>3, <1>4 DEF CommandStep

LEMMA SettledMaterializer ==
    ASSUME HeldInv, NEW m \in Materializers, MaterializerStep(m),
           NEW s \in Slots, Settled(executions[s])
    PROVE  executions'[s] = executions[s]
<1>1. executions \in [Slots -> Executions]
  BY DEF HeldInv, TypeOK
<1>2. CASE Reactivate(m)
  <2>1. \A t : t # RunSlotOf(m) => (t \in Slots => executions'[t] = executions[t])
    BY <1>1, <1>2 DEF Reactivate, Writes, RunSlotOf
  <2>2. ~Settled(executions[RunSlotOf(m)])
    BY <1>2 DEF HeldInv, Reacting, Reactivate, Settled, Started
  <2> QED
    BY <2>1, <2>2
<1>3. CASE Insert(m)
  <2>1. executions' = [executions EXCEPT ![RunSlotOf(m)] =
            Materialized(RunSlotOf(m), executions[RunSlotOf(m)], materializer[m].mem)]
    BY <1>3 DEF Insert, Writes, RunSlotOf
  <2> QED
    BY <1>1, <2>1, SettledOperators
<1>4. ASSUME NEW last, NEW reloads, List(m, last, reloads) PROVE executions' = executions
  BY <1>4 DEF List
<1> QED
  BY <1>2, <1>3, <1>4
     DEF MaterializerStep, ReadOrCalendar, BeatHorizon, Proceed, Look, EndRun

LEMMA SettledOthers ==
    ASSUME NEW s \in Slots, Settled(executions[s]), HeldInv,
           DeleteTemplate \/ Tick \/ UNCHANGED vars
    PROVE  executions'[s] = executions[s]
  BY DEF DeleteTemplate, Tick, vars, Settled, Started

(* What people do to one execution.                                        *)
LEMMA SettledPeople ==
    ASSUME TypeOK, NEW s \in Slots, NEW t \in Slots, People(t)
    PROVE  LET e == executions[s]  f == executions'[s] IN
           /\ e.status = "canceled" => f = e
           /\ e.status \in Started =>
                /\ f.window = e.window
                /\ f.status \in Started \cup {"canceled"}
                /\ f.status = "canceled" => f.origin = "manual"
                /\ e.status = "done" => f = e
<1>1. executions \in [Slots -> Executions]
  BY DEF TypeOK
<1>2. CASE s # t
  BY <1>2, PeopleTake DEF Started
<1>3. CASE s = t
  <2>1. executions[s] \in Executions
    BY <1>1
  <2>2. CASE Promote(s)
    BY <1>1, <2>1, <2>2 DEF Promote, SetExecution, Promoted, Started, Executions
  <2>3. CASE MarkDone(s) \/ Validate(s)
    BY <1>1, <2>1, <2>3 DEF MarkDone, Validate, SetExecution, Started, Executions
  <2>4. CASE Reopen(s)
    BY <1>1, <2>1, <2>4 DEF Reopen, SetExecution, Started, Executions
  <2>5. CASE Cancel(s)
    BY <1>1, <2>1, <2>5 DEF Cancel, SetExecution, Started, Executions
  <2> QED
    BY <1>3, <2>2, <2>3, <2>4, <2>5 DEF People
<1> QED
  BY <1>2, <1>3

LEMMA HeldStep ==
    ASSUME HeldInv, [Held(Next)]_vars, NEW s \in Slots
    PROVE  LET e == executions[s]  f == executions'[s] IN
           /\ e.status = "canceled" /\ e.origin # "schedule_sync" => f = e
           /\ e.status \in Started =>
                /\ f.window = e.window
                /\ f.status \in Started \cup {"canceled"}
                /\ f.status = "canceled" => f.origin = "manual"
                /\ e.status = "done" => f = e
<1>1. CASE executions'[s] = executions[s]
  BY <1>1 DEF Started
<1>2. CASE \E t \in Slots : People(t)
  BY <1>2, SettledPeople DEF HeldInv
<1>3. CASE ~Settled(executions[s])
  BY <1>3 DEF Settled
<1> QED
  BY <1>1, <1>2, <1>3, SettledCommand, SettledMaterializer, SettledOthers DEF Held, Next

-----------------------------------------------------------------------------

LEMMA RowsCurrentStep ==
    ASSUME HeldInv, [Held(Next)]_vars PROVE RowsCurrent'
<1> SUFFICES ASSUME NEW c \in Commands, command'[c].at = "syncing"
             PROVE  command'[c].rows = executions'
  BY DEF RowsCurrent
<1>0. TypeOK
  BY DEF HeldInv
<1>1. CASE command'[c] = command[c]
  <2>1. executions' = executions
    BY <1>1 DEF Held, RowsHeld, vars
  <2> QED
    BY <1>1, <2>1 DEF HeldInv, RowsCurrent
<1>2. CASE command'[c] # command[c]
  <2>1. CommandStep(c)
    <3>1. ASSUME NEW d \in Commands, CommandStep(d), d # c PROVE command'[c] = command[c]
      <4>1. \E row : command' = [command EXCEPT ![d] = row]
        BY <3>1 DEF CommandStep, FetchEdit, FetchDeactivation, SaveEdit, ReadForDeactivation,
           ReadsRows, CommitEdit, CommitDeactivation, AbortCommand, Leave
      <4> QED
        BY <1>0, <3>1, <4>1 DEF TypeOK
    <3>2. ASSUME NEW m \in Materializers, MaterializerStep(m) PROVE command' = command
      BY <3>2 DEF MaterializerStep, ReadOrCalendar, BeatHorizon, List, Proceed, Look, Reactivate,
         Insert, Writes, EndRun
    <3>3. ASSUME NEW t \in Slots, People(t) PROVE command' = command
      BY <1>0, <3>3, PeopleTake
    <3>4. DeleteTemplate \/ Tick \/ UNCHANGED vars => command' = command
      BY DEF DeleteTemplate, Tick, vars
    <3> QED
      BY <1>2, <3>1, <3>2, <3>3, <3>4 DEF Held, Next
  <2>2. CASE SaveEdit(c) \/ ReadForDeactivation(c)
    <3>1. /\ command' = [command EXCEPT ![c] = [command[c] EXCEPT
                            !.at = "syncing", !.rows = executions, !.since = now]]
          /\ executions' = executions
      BY <2>2 DEF SaveEdit, ReadForDeactivation, ReadsRows
    <3> QED
      BY <1>0, <3>1 DEF TypeOK, CommandRows
  <2>3. CASE FetchEdit(c) \/ FetchDeactivation(c)
    <3>1. command'[c].at = "fetched"
      <4>1. PICK row \in {r \in CommandRows : r.at = "fetched"} :
                command' = [command EXCEPT ![c] = row]
        <5>1. ASSUME NEW target \in Schedules
              PROVE  [command[c] EXCEPT !.at = "fetched", !.kind = "edit", !.mem = target,
                        !.fields = {f \in Fields : target[f] # schedule[f]}]
                     \in {r \in CommandRows : r.at = "fetched"}
          BY <1>0 DEF TypeOK, CommandRows, CommandSteps, CommandKinds
        <5>2. ASSUME NEW kind \in {"deactivate", "catalog"}
              PROVE  [command[c] EXCEPT !.at = "fetched", !.kind = kind]
                     \in {r \in CommandRows : r.at = "fetched"}
          BY <1>0 DEF TypeOK, CommandRows, CommandSteps, CommandKinds
        <5> QED
          BY <2>3, <5>1, <5>2 DEF FetchEdit, FetchDeactivation
      <4> QED
        BY <1>0, <4>1 DEF TypeOK
    <3> QED
      BY <3>1
  <2>4. CASE CommitEdit(c) \/ CommitDeactivation(c) \/ AbortCommand(c)
    <3>1. command'[c].at = "idle"
      BY <1>0, <2>4, Blank DEF CommitEdit, CommitDeactivation, AbortCommand, Leave, TypeOK
    <3> QED
      BY <3>1
  <2> QED
    BY <2>1, <2>2, <2>3, <2>4 DEF CommandStep
<1> QED
  BY <1>1, <1>2

(* The step that finds an execution to bring back.                         *)
LEMMA LookReacts ==
    ASSUME TypeOK, NEW m \in Materializers, Look(m), materializer'[m].at = "reactivating"
    PROVE  LET s == <<materializer'[m].date, materializer'[m].mem.owner>> IN
           executions[s].status = "canceled" /\ executions[s].origin = "schedule_sync"
<1> DEFINE row == materializer[m]
           mem == Loaded(row)
<1>1. row \in MaterializerRows /\ row.at = "listed" /\ mem \in Schedules
  BY DEF TypeOK, Look, Loaded, MaterializerRows
<1>2. PICK d \in row.todo :
        LET run == [row EXCEPT !.mem = mem, !.date = d]
            s   == <<d, mem.owner>>
        IN \/ materializer'[m] = NoRun
           \/ materializer'[m] = NextDate(run)
           \/ /\ CanReactivate(s, executions[s], mem, mem.owner, now)
              /\ materializer'[m] = [run EXCEPT !.at = "reactivating"]
           \/ materializer'[m] = [run EXCEPT !.at = "inserting"]
  BY DEF TypeOK, Look
<1> DEFINE run == [row EXCEPT !.mem = mem, !.date = d]
<1>3. run \in MaterializerRows /\ run.date = d /\ run.mem = mem
  BY <1>1 DEF MaterializerRows
<1>4. NoRun.at # "reactivating" /\ [run EXCEPT !.at = "inserting"].at # "reactivating"
  BY <1>3, Blank DEF MaterializerRows
<1>5. NextDate(run).at # "reactivating"
  BY <1>3, Blank DEF NextDate, MaterializerRows
<1>6. /\ CanReactivate(<<d, mem.owner>>, executions[<<d, mem.owner>>], mem, mem.owner, now)
      /\ materializer'[m] = [run EXCEPT !.at = "reactivating"]
  BY <1>2, <1>4, <1>5
<1>7. materializer'[m].date = d /\ materializer'[m].mem = mem
  BY <1>3, <1>6 DEF MaterializerRows
<1> QED
  BY <1>6, <1>7 DEF CanReactivate

LEMMA WritesEnd ==
    ASSUME TypeOK, NEW m \in Materializers, NEW e, Writes(m, e)
    PROVE  materializer'[m].at # "reactivating"
<1>1. materializer'[m] = NextDate(materializer[m]) /\ materializer[m] \in MaterializerRows
  BY DEF TypeOK, Writes
<1> QED
  BY <1>1, Blank DEF NextDate, MaterializerRows

LEMMA ReactingStep ==
    ASSUME HeldInv, [Held(Next)]_vars PROVE Reacting'
<1> SUFFICES ASSUME NEW m \in Materializers, materializer'[m].at = "reactivating"
             PROVE  LET s == <<materializer'[m].date, materializer'[m].mem.owner>> IN
                    executions'[s].status = "canceled" /\ executions'[s].origin = "schedule_sync"
  BY DEF Reacting, RunSlotOf
<1>0. TypeOK
  BY DEF HeldInv
<1>1. CASE Look(m)
  BY <1>0, <1>1, LookReacts DEF Look
<1>2. CASE ~Look(m) /\ materializer'[m] = materializer[m]
  <2>1. executions'[RunSlotOf(m)] = executions[RunSlotOf(m)]
    BY <1>2 DEF Held, RunHeld, RunSlotOf, vars
  <2> QED
    BY <1>2, <2>1 DEF HeldInv, Reacting, RunSlotOf
<1>3. CASE ~Look(m) /\ materializer'[m] # materializer[m]
  <2>1. MaterializerStep(m)
    <3>1. ASSUME NEW c \in Commands, CommandStep(c) PROVE materializer' = materializer
      BY <3>1 DEF CommandStep, FetchEdit, FetchDeactivation, SaveEdit, ReadForDeactivation,
         ReadsRows, CommitEdit, CommitDeactivation, AbortCommand
    <3>2. ASSUME NEW n \in Materializers, MaterializerStep(n), n # m
          PROVE  materializer'[m] = materializer[m]
      <4>1. \E row : materializer' = [materializer EXCEPT ![n] = row]
        BY <3>2 DEF MaterializerStep, ReadOrCalendar, BeatHorizon, List, Proceed, Look, Reactivate,
           Insert, Writes, EndRun
      <4> QED
        BY <1>0, <3>2, <4>1 DEF TypeOK
    <3>3. ASSUME NEW t \in Slots, People(t) PROVE materializer' = materializer
      BY <1>0, <3>3, PeopleTake
    <3>4. DeleteTemplate \/ Tick \/ UNCHANGED vars => materializer' = materializer
      BY DEF DeleteTemplate, Tick, vars
    <3> QED
      BY <1>3, <3>1, <3>2, <3>3, <3>4 DEF Held, Next
  <2>2. ASSUME NEW last, NEW reloads, List(m, last, reloads) PROVE FALSE
    BY <1>0, <2>2 DEF List, TypeOK
  <2>3. CASE Reactivate(m) \/ Insert(m)
    BY <1>0, <2>3, WritesEnd DEF Reactivate, Insert
  <2>4. CASE EndRun(m)
    BY <1>0, <2>4, Blank DEF EndRun, TypeOK
  <2> QED
    BY <1>3, <2>1, <2>2, <2>3, <2>4 DEF MaterializerStep, ReadOrCalendar, BeatHorizon, Proceed
<1> QED
  BY <1>1, <1>2, <1>3

LEMMA HeldInit == Init => HeldInv
<1> SUFFICES ASSUME Init PROVE HeldInv
  OBVIOUS
<1>1. RowsCurrent /\ Reacting
  BY Blank DEF Init, RowsCurrent, Reacting
<1> QED
  BY <1>1, TypeInit DEF HeldInv

LEMMA HeldNext == HeldInv /\ [Held(Next)]_vars => HeldInv'
<1> SUFFICES ASSUME HeldInv, [Held(Next)]_vars PROVE HeldInv'
  OBVIOUS
<1>1. TypeOK'
  BY TypeNext DEF HeldInv, Held
<1> QED
  BY <1>1, RowsCurrentStep, ReactingStep DEF HeldInv

(* With the executions locked from their reading to their writing, no      *)
(* edit, deactivation or run undoes a person's cancellation.               *)
THEOREM CancellationsStay == SpecHeld => CanceledByPersonStays
<1>1. HeldInv /\ [Held(Next)]_vars =>
        [\A s \in Slots :
            executions[s].status = "canceled" /\ executions[s].origin = "manual" =>
                executions'[s] = executions[s]]_vars
  BY HeldStep
<1> QED
  BY <1>1, HeldInit, HeldNext, PTL DEF SpecHeld, CanceledByPersonStays

(* Likewise for work that started and work that is done.                   *)
THEOREM StartedWorkStays == SpecHeld => StartedWorkKept
<1>1. HeldInv /\ [Held(Next)]_vars =>
        [\A s \in Slots :
            LET e == executions[s]
                f == executions'[s]
            IN e.status \in Started =>
                /\ f.window = e.window
                /\ f.status \in Started \cup {"canceled"}
                /\ f.status = "canceled" => f.origin = "manual"
                /\ e.status = "done" => f = e]_vars
  BY HeldStep
<1> QED
  BY <1>1, HeldInit, HeldNext, PTL DEF SpecHeld, StartedWorkKept

-----------------------------------------------------------------------------
(* Turns and the lock of commands, which is what the run checks, leave     *)
(* what a run is about to reactivate alone as well: no person acts on what *)
(* is canceled, and nobody else writes.                                    *)

LEMMA TurnsHoldRun ==
    ASSUME InTurnInv, HeldInv, Careful(Next) PROVE RunHeld
<1> SUFFICES ASSUME NEW m \in Materializers, materializer[m].at = "reactivating",
                    materializer'[m] = materializer[m]
             PROVE  executions'[RunSlotOf(m)] = executions[RunSlotOf(m)]
  BY DEF RunHeld
<1> DEFINE s == RunSlotOf(m)
<1>0. TypeOK /\ Alone /\ s \in Slots
  BY RunSlot DEF InTurnInv, RunSlotOf
<1>1. executions[s].status = "canceled" /\ ~RunIdle(m)
  BY DEF HeldInv, Reacting, RunIdle
<1>2. ASSUME NEW c \in Commands, CommandStep(c) PROVE executions' = executions
  <2>1. IsIdle(c)
    BY <1>0, <1>1 DEF Alone
  <2> QED
    BY <1>2, <2>1 DEF CommandStep, FetchEdit, FetchDeactivation, SaveEdit, ReadForDeactivation,
       CommitEdit, HoldsSchedule, CommitDeactivation, AbortCommand, IsIdle
<1>3. ASSUME NEW n \in Materializers, MaterializerStep(n) PROVE executions' = executions
  <2>1. CASE n = m
    <3>1. ~Reactivate(m) /\ ~Insert(m)
      BY <1>0, WritesEnd DEF Reactivate, Insert
    <3> QED
      BY <1>3, <2>1, <3>1 DEF MaterializerStep, ReadOrCalendar, BeatHorizon, List, Proceed, Look,
         EndRun
  <2>2. CASE n # m
    <3>1. RunIdle(n)
      BY <1>0, <1>1, <2>2 DEF Alone
    <3> QED
      BY <1>3, <3>1 DEF MaterializerStep, ReadOrCalendar, BeatHorizon, List, Proceed, Look,
         Reactivate, Insert, EndRun, RunIdle
  <2> QED
    BY <2>1, <2>2
<1>4. ASSUME NEW t \in Slots, People(t) PROVE executions'[s] = executions[s]
  BY <1>0, <1>1, <1>4, SettledPeople
<1>5. ASSUME DeleteTemplate \/ Tick PROVE executions'[s] = executions[s]
  BY <1>0, <1>1, <1>5 DEF DeleteTemplate, Tick
<1> QED
  BY <1>2, <1>3, <1>4, <1>5 DEF Careful, Next

LEMMA CarefulIsHeld == SpecCareful => SpecHeld
<1> DEFINE I == InTurnInv /\ HeldInv
<1>1. Init => I
  BY FollowsInit, HeldInit
<1>2. I /\ [Careful(Next)]_vars => [Held(Next)]_vars
  BY TurnsHoldRun DEF Careful, Held
<1>3. I /\ [Careful(Next)]_vars => I'
  BY <1>2, FollowsNext, HeldNext DEF Careful
<1> QED
  BY <1>1, <1>2, <1>3, PTL DEF SpecCareful, SpecHeld

-----------------------------------------------------------------------------
(* OccurrenceLifecycle: what has not started may go where the schedule     *)
(* wants it, whatever it does to several executions at once.               *)

(* Where the operators of the schedule take an execution they dispose of.  *)
Disposed(e, f) ==
    /\ f \in Executions
    /\ \/ f = e
       \/ f.status \in {"scheduled", "in_progress"}
       \/ /\ e.status = "scheduled"
          /\ f.status = "none" \/ (f.status = "canceled" /\ f.origin = "schedule_sync")

LEMMA FreshDisposed ==
    ASSUME NEW s \in Slots, NEW w \in Windows, NEW e PROVE Disposed(e, Fresh(s, w))
<1>1. Fresh(s, w) \in Executions
  BY FreshType
<1>2. Fresh(s, w).status \in {"scheduled", "in_progress"}
  BY DEF Fresh
<1> QED
  BY <1>1, <1>2 DEF Disposed

(* Disposing twice, as the sync and then the new dates do, is one step.    *)
LEMMA DisposedTwice ==
    ASSUME NEW s \in Slots, NEW sched \in Schedules, NEW e, NEW f, Disposed(e, f)
    PROVE  Disposed(e, Promoted(s, f)) /\ Disposed(e, Materialized(s, f, sched))
<1>0. f \in Executions
  BY DEF Disposed
<1>1. Promoted(s, f) \in Executions
        /\ (Promoted(s, f) = f \/ Promoted(s, f).status = "in_progress")
  <2>1. Promoted(s, f) = f \/ Promoted(s, f).status = "in_progress"
    <3>1. [f EXCEPT !.status = "in_progress"].status = "in_progress"
      BY <1>0 DEF Executions
    <3> QED
      BY <3>1 DEF Promoted
  <2> QED
    BY <1>0, <2>1, PromotedType
<1>2. Materialized(s, f, sched) = f \/ Materialized(s, f, sched) = Fresh(s, sched.window)
  BY DEF Materialized
<1>3. Disposed(e, Fresh(s, sched.window))
  BY FreshDisposed DEF Schedules
<1>4. Disposed(e, Promoted(s, f))
  BY <1>1 DEF Disposed
<1> QED
  BY <1>2, <1>3, <1>4

LEMMA SyncDisposes ==
    ASSUME TypeOK, NEW c \in Commands, NEW s \in Slots, NEW owner,
           command[c].rows[s] = executions[s]
    PROVE  Disposed(executions[s], Synced(c, s, owner))
<1> DEFINE e == executions[s]
           w == command[c].mem.window
<1>1. e \in Executions /\ w \in Windows
  BY DEF TypeOK, CommandRows, Schedules
<1>2. Disposed(e, e) /\ Disposed(e, Fresh(s, w))
  BY <1>1, FreshDisposed DEF Disposed
<1>3. ASSUME e.status = "scheduled"
      PROVE  /\ Disposed(e, [e EXCEPT !.window = w])
             /\ Disposed(e, [e EXCEPT !.status = "canceled", !.origin = "schedule_sync"])
  BY <1>1, <1>3, CanceledType DEF Disposed, Executions
<1> QED
  BY <1>2, <1>3 DEF Synced

LEMMA CommandDisposes ==
    ASSUME HeldInv, NEW c \in Commands, CommandStep(c), NEW s \in Slots
    PROVE  Disposed(executions[s], executions'[s])
<1> DEFINE e == executions[s]
<1>0. TypeOK /\ e \in Executions
  BY DEF HeldInv, TypeOK
<1>1. CASE CommitEdit(c)
  <2>1. command[c].rows[s] = e /\ executions' = AfterEdit(c) /\ Saved(c) \in Schedules
    BY <1>0, <1>1, SavedType DEF HeldInv, RowsCurrent, CommitEdit, HoldsSchedule
  <2>2. Disposed(e, Promoted(s, Synced(c, s, Saved(c).owner)))
    BY <1>0, <2>1, SyncDisposes, DisposedTwice
  <2>3. Disposed(e, Materialized(s, Promoted(s, Synced(c, s, Saved(c).owner)), Saved(c)))
    BY <2>1, <2>2, DisposedTwice
  <2> QED
    BY <2>1, <2>2, <2>3 DEF AfterEdit
<1>2. CASE CommitDeactivation(c)
  <2>1. command[c].rows[s] = e /\ executions' = AfterDeactivation(c)
    BY <1>2 DEF HeldInv, RowsCurrent, CommitDeactivation
  <2>2. Disposed(e, e) /\ Disposed(e, Promoted(s, e))
    BY <1>0, DisposedTwice, BlankTypes DEF Disposed
  <2>3. e.status = "scheduled" =>
            Disposed(e, [e EXCEPT !.status = "canceled", !.origin = "schedule_sync"])
    BY <1>0, CanceledType DEF Disposed, Executions
  <2> QED
    BY <2>1, <2>2, <2>3 DEF AfterDeactivation
<1>3. CASE FetchEdit(c) \/ FetchDeactivation(c) \/ SaveEdit(c) \/ ReadForDeactivation(c)
           \/ AbortCommand(c)
  BY <1>0, <1>3
     DEF FetchEdit, FetchDeactivation, SaveEdit, ReadForDeactivation, ReadsRows, AbortCommand,
         Disposed
<1> QED
  BY <1>1, <1>2, <1>3 DEF CommandStep

LEMMA MaterializerDisposes ==
    ASSUME HeldInv, NEW m \in Materializers, MaterializerStep(m), NEW s \in Slots
    PROVE  Disposed(executions[s], executions'[s])
<1>0. TypeOK /\ executions \in [Slots -> Executions] /\ materializer[m].mem \in Schedules
  BY DEF HeldInv, TypeOK, MaterializerRows
<1>1. Disposed(executions[s], executions[s])
  BY <1>0 DEF Disposed
<1>2. CASE s = RunSlotOf(m) /\ (Reactivate(m) \/ Insert(m))
  <2>1. executions'[s] \in {Fresh(s, materializer[m].mem.window),
                            Materialized(s, executions[s], materializer[m].mem)}
    BY <1>0, <1>2 DEF Reactivate, Insert, Writes, RunSlotOf
  <2>2. Disposed(executions[s], Fresh(s, materializer[m].mem.window))
    BY <1>0, FreshDisposed DEF Schedules
  <2> QED
    BY <1>0, <1>1, <2>1, <2>2, DisposedTwice
<1>3. CASE s # RunSlotOf(m) /\ (Reactivate(m) \/ Insert(m))
  BY <1>0, <1>1, <1>3 DEF Reactivate, Insert, Writes, RunSlotOf
<1>4. ASSUME NEW last, NEW reloads, List(m, last, reloads) PROVE executions' = executions
  BY <1>4 DEF List
<1> QED
  BY <1>1, <1>2, <1>3, <1>4
     DEF MaterializerStep, ReadOrCalendar, BeatHorizon, Proceed, Look, EndRun

(* What people, the clock and a deletion do of what has not started.       *)
LEMMA OthersDispose ==
    ASSUME TypeOK, NEW s \in Slots, ~Settled(executions[s]),
           (\E t \in Slots : People(t)) \/ DeleteTemplate \/ Tick \/ UNCHANGED vars
    PROVE  \/ Disposed(executions[s], executions'[s])
           \/ /\ executions[s].status = "scheduled"
              /\ executions'[s].status = "canceled" /\ executions'[s].origin = "manual"
<1> DEFINE e == executions[s]
           f == executions'[s]
<1>0. e \in Executions
  BY DEF TypeOK
<1>1. CASE f = e
  BY <1>0, <1>1 DEF Disposed
<1>2. CASE Promote(s)
  <2>1. f = Promoted(s, e)
    BY <1>2 DEF Promote, SetExecution, TypeOK
  <2> QED
    BY <1>0, <2>1, DisposedTwice, BlankTypes DEF Disposed
<1>3. CASE Cancel(s)
  <2>1. e.status = "scheduled"
    BY <1>3 DEF Cancel, Settled, Started
  <2>2. f = [e EXCEPT !.status = "canceled", !.origin = "manual"]
    BY <1>3 DEF Cancel, SetExecution, TypeOK
  <2> QED
    BY <1>0, <2>1, <2>2 DEF Executions
<1>4. CASE MarkDone(s) \/ Validate(s) \/ Reopen(s)
  BY <1>4 DEF MarkDone, Validate, Reopen, Settled, Started
<1>5. ASSUME NEW t \in Slots, People(t), t # s PROVE f = e
  BY <1>5, PeopleTake
<1>6. CASE DeleteTemplate
  <2>1. f = e \/ (e.status = "scheduled" /\ f = NoExecution)
    BY <1>6 DEF DeleteTemplate
  <2> QED
    BY <1>1, <2>1, BlankTypes DEF Disposed, NoExecution
<1> QED
  BY <1>1, <1>2, <1>3, <1>4, <1>5, <1>6 DEF People, Tick, vars

(* One execution, one stage of OccurrenceLifecycle to the next.            *)
LEMMA StageStep ==
    ASSUME HeldInv, [Held(Next)]_vars, NEW s \in Slots
    PROVE  LET e == executions[s]
               f == executions'[s]
           IN /\ StageOf(f) = StageOf(e) \/ <<StageOf(e), StageOf(f)>> \in Occurrence!Moves
              /\ StageOf(f) \in Occurrence!Stages
              /\ StageOf(e) \notin Occurrence!Movable => f.window = e.window
<1> DEFINE e == executions[s]
           f == executions'[s]
<1>0. TypeOK /\ e \in Executions /\ f \in Executions
  BY TypeNext DEF HeldInv, Held, TypeOK
<1>1. ASSUME NEW x \in Executions PROVE StageOf(x) \in Occurrence!Stages
  <2>1. StageOf(x) \in {"none", "planned", "running", "waiting", "done", "canceled", "withdrawn"}
    BY DEF StageOf, Executions, Statuses, Started
  <2>2. {"none", "planned", "running", "waiting", "done", "canceled", "withdrawn"}
            \subseteq Occurrence!Stages
    <3>1. /\ <<"none", "planned">> \in Occurrence!Moves
          /\ <<"planned", "withdrawn">> \in Occurrence!Moves
          /\ <<"running", "waiting">> \in Occurrence!Moves
          /\ <<"waiting", "done">> \in Occurrence!Moves
          /\ <<"running", "canceled">> \in Occurrence!Moves
      BY DEF Occurrence!Moves, Occurrence!Plans, Occurrence!Decisions
    <3> QED
      BY <3>1 DEF Occurrence!Stages
  <2> QED
    BY <2>1, <2>2
<1>2. CASE Settled(e)
  <2>1. CASE e.status \in Started
    <3>1. /\ f.window = e.window
          /\ f.status \in Started \cup {"canceled"}
          /\ f.status = "canceled" => f.origin = "manual"
          /\ e.status = "done" => f = e
      BY <2>1, HeldStep
    <3>2. StageOf(f) \in {"running", "waiting", "done", "canceled"}
      BY <3>1 DEF StageOf, Started
    <3>3. StageOf(e) \in {"running", "waiting", "done"}
      BY <2>1 DEF StageOf, Started
    <3>4. StageOf(e) = "done" => e.status = "done"
      BY <2>1 DEF StageOf, Started
    <3>5. StageOf(f) = StageOf(e) \/ <<StageOf(e), StageOf(f)>> \in Occurrence!Moves
      BY <3>1, <3>2, <3>3, <3>4
         DEF Occurrence!Moves, Occurrence!Decisions
    <3> QED
      BY <1>0, <1>1, <3>1, <3>5
  <2>2. CASE e.status = "canceled" /\ e.origin # "schedule_sync"
    <3>1. f = e
      BY <2>2, HeldStep
    <3> QED
      BY <1>0, <1>1, <3>1
  <2> QED
    BY <1>2, <2>1, <2>2 DEF Settled
<1>3. CASE ~Settled(e)
  <2>1. \/ Disposed(e, f)
        \/ e.status = "scheduled" /\ f.status = "canceled" /\ f.origin = "manual"
    BY <1>0, <1>3, CommandDisposes, MaterializerDisposes, OthersDispose DEF Held, Next
  <2>2. StageOf(e) \in Occurrence!Movable
    BY <1>0, <1>3
       DEF StageOf, Settled, Started, Statuses, Executions, Occurrence!Movable
  <2>3. CASE f = e
    BY <1>0, <1>1, <2>2, <2>3
  <2>4. CASE f.status \in {"scheduled", "in_progress"}
    <3>1. StageOf(f) \in {"planned", "running"}
      BY <2>4 DEF StageOf
    <3>2. StageOf(e) \in {"none", "planned", "withdrawn"}
      BY <2>2 DEF Occurrence!Movable
    <3>3. StageOf(f) = StageOf(e) \/ <<StageOf(e), StageOf(f)>> \in Occurrence!Moves
      BY <3>1, <3>2 DEF Occurrence!Moves, Occurrence!Plans
    <3> QED
      BY <1>0, <1>1, <2>2, <3>3
  <2>5. CASE /\ e.status = "scheduled"
             /\ f.status = "none" \/ f.status = "canceled"
    <3>1. StageOf(e) = "planned"
      BY <2>5 DEF StageOf
    <3>2. StageOf(f) \in {"none", "canceled", "withdrawn"}
      BY <2>5 DEF StageOf
    <3>3. <<StageOf(e), StageOf(f)>> \in Occurrence!Moves
      BY <3>1, <3>2 DEF Occurrence!Moves, Occurrence!Plans, Occurrence!Decisions
    <3> QED
      BY <1>0, <1>1, <2>2, <3>3
  <2> QED
    BY <2>1, <2>3, <2>4, <2>5 DEF Disposed
<1> QED
  BY <1>2, <1>3

(* With the executions locked from their reading to their writing, the     *)
(* edits, deactivation, deletion and runs of a schedule, next to the       *)
(* people who work, do what OccurrenceLifecycle says of each execution.    *)
THEOREM ImplementsOccurrence == SpecHeld => OccurrenceSpec
<1>1. Init => Occurrence!Init
  <2> SUFFICES ASSUME Init PROVE Occurrence!Init
    OBVIOUS
  <2>1. \A s \in Slots : executions[s] = NoExecution /\ executions[s].window \in Windows
    BY BlankTypes DEF Init, Executions
  <2>2. \A s \in Slots : StageOf(executions[s]) = "none"
    <3>1. NoExecution.status = "none"
      BY DEF NoExecution
    <3> QED
      BY <2>1, <3>1 DEF StageOf
  <2> QED
    BY <2>1, <2>2 DEF Occurrence!Init
<1>2. HeldInv /\ [Held(Next)]_vars => Occurrence!Next
  <2> SUFFICES ASSUME HeldInv, [Held(Next)]_vars PROVE Occurrence!Next
    OBVIOUS
  <2>1. \A s \in Slots : executions'[s].window \in Windows
    BY TypeNext DEF HeldInv, Held, TypeOK, Executions
  <2> QED
    BY <2>1, StageStep DEF Occurrence!Next
<1> QED
  BY <1>1, <1>2, HeldInit, HeldNext, PTL DEF SpecHeld, OccurrenceSpec, Occurrence!Spec
=============================================================================
