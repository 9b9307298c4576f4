----------------------------- MODULE Schedules -----------------------------
(***************************************************************************)
(* Schedules: the commands that keep them (cmd/schedule.go,                *)
(* db/schedule.go) and the part of a worker's tick that turns a schedule   *)
(* that is due into an action (dispatch/schedule.go), next to the commands *)
(* of module Tasks.                                                        *)
(*                                                                         *)
(* A tick reads three times and writes at most twice: the enabled          *)
(* schedules, their tasks, the actions still active; then the schedules    *)
(* whose metadata makes no action, then all the actions it inserts.  The   *)
(* board may change between any two of these.                              *)
(***************************************************************************)
EXTENDS Tasks

CONSTANTS
    Workers,       \* processes running RunWorker
    MaxFaults      \* bound of the model: ticks that fail or are killed midway

ASSUME FaultsAssumption == MaxFaults \in Nat

VARIABLES
    clock,     \* the time
    tick,      \* what each worker has read this tick, None between ticks
    faults     \* faults so far

vars == <<board, cmd, clock, tick, faults>>

Seen == [task : Tasks, valid : BOOLEAN, base : Time, cron : Crons]

TickSteps == {"tasks", "active", "errors", "insert"}

TypeOK ==
    /\ BoardTypeOK
    /\ clock \in Time
    /\ faults \in 0..MaxFaults
    /\ \A w \in Workers : tick[w] # None =>
          /\ tick[w].step \in TickSteps
          /\ tick[w].now \in Time
          /\ DOMAIN tick[w].seen \subseteq Schedules
          /\ \A s \in DOMAIN tick[w].seen : tick[w].seen[s] \in Seen

Init ==
    /\ BoardInit
    /\ clock = 0
    /\ tick = [w \in Workers |-> None]
    /\ faults = 0

-----------------------------------------------------------------------------
(* Commands.                                                               *)

\* `tq schedule create`: EnsureTaskOpenForAttach, then the insert.
CreateScheduleCheck(o, t) ==
    /\ Starts(o, "create schedule")
    /\ IsOpen(t)
    /\ Step(o, "schedule", t, None)
    /\ UNCHANGED board

CreateScheduleWrite(o) ==
    /\ At(o, "schedule")
    /\ LiveTask(cmd[o].task)
    /\ \E s \in Schedules, c \in Crons, v \in BOOLEAN :
          /\ schedule[s].status = "none"
          /\ schedule' = [schedule EXCEPT ![s] =
                [status |-> "live", task |-> cmd[o].task, enabled |-> TRUE,
                 cron |-> c, valid |-> v, base |-> clock, created |-> clock]]
    /\ Finish(o)
    /\ UNCHANGED <<project, task, action, count>>

\* `tq schedule enable`, and the dashboard's toggle: whose schedule is it, is
\* that task open, then the update.
EnableRead(o, s) ==
    /\ Starts(o, "enable")
    /\ LiveSchedule(s)
    /\ Step(o, "enableEnsure", schedule[s].task, s)
    /\ UNCHANGED board

EnableEnsure(o) ==
    /\ At(o, "enableEnsure")
    /\ IF IsOpen(cmd[o].task) THEN Step(o, "enable", cmd[o].task, cmd[o].id) ELSE Finish(o)
    /\ UNCHANGED board

\* An update of a schedule deleted by now changes no row.
UpdateRow(s, r) == schedule' = IF LiveSchedule(s) THEN [schedule EXCEPT ![s] = r] ELSE schedule

EnableWrite(o) ==
    LET s == cmd[o].id
    IN  /\ At(o, "enable")
        /\ UpdateRow(s, [schedule[s] EXCEPT !.enabled = TRUE])
        /\ Finish(o)
        /\ UNCHANGED <<project, task, action, count>>

DisableSchedule(o, s) ==
    /\ Starts(o, "disable")
    /\ LiveSchedule(s)
    /\ schedule' = [schedule EXCEPT ![s].enabled = FALSE]
    /\ UNCHANGED <<project, task, action, count, cmd>>

DeleteSchedule(o, s) ==
    /\ Starts(o, "delete schedule")
    /\ LiveSchedule(s)
    /\ schedule' = [schedule EXCEPT ![s] = DeletedSchedule(s)]
    /\ UNCHANGED <<project, task, action, count, cmd>>

\* `tq schedule update` with --cron, --instruction or --meta, which may leave
\* a schedule that makes no action (a blank instruction) or mend it.
EditSchedule(o, s) ==
    /\ Starts(o, "edit")
    /\ LiveSchedule(s)
    /\ \E c \in Crons, v \in BOOLEAN :
          schedule' = [schedule EXCEPT ![s].cron = c, ![s].valid = v]
    /\ UNCHANGED <<project, task, action, count, cmd>>

\* With --task: EnsureTaskOpenForAttach of the new task first.
MoveScheduleCheck(o, s, t) ==
    /\ Starts(o, "move")
    /\ IsOpen(t)
    /\ Step(o, "move", t, s)
    /\ UNCHANGED board

MoveScheduleWrite(o) ==
    LET s == cmd[o].id
    IN  /\ At(o, "move")
        /\ LiveTask(cmd[o].task)
        /\ UpdateRow(s, [schedule[s] EXCEPT !.task = cmd[o].task])
        /\ Finish(o)
        /\ UNCHANGED <<project, task, action, count>>

ScheduleCommand(o) ==
    \/ \E t \in Tasks : CreateScheduleCheck(o, t)
    \/ CreateScheduleWrite(o)
    \/ \E s \in Schedules : EnableRead(o, s) \/ DisableSchedule(o, s) \/ DeleteSchedule(o, s)
    \/ EnableEnsure(o) \/ EnableWrite(o)
    \/ \E s \in Schedules : EditSchedule(o, s)
    \/ \E s \in Schedules, t \in Tasks : MoveScheduleCheck(o, s, t)
    \/ MoveScheduleWrite(o)
    \/ \E op \in {"schedule", "move"} : At(o, op) /\ Refused(o)

-----------------------------------------------------------------------------
(* The worker's tick: CheckSchedules.                                      *)

Ticking(w, step) == tick[w] # None /\ tick[w].step = step

\* A cron expression is due when it fires after the last run and not after now.
Due(r, now) == \E i \in r.cron : r.base < i /\ i <= now

\* (Mutant of HasActive: an action that was claimed is forgotten.)
HasPending(s) == \E a \in Actions : action[a].by = s /\ action[a].status = "pending"

HasActive(s) == \E a \in Actions : action[a].by = s /\ action[a].status \in Active

\* Go on to the next write that has something to do.
Proceed(w, step, now, seen) ==
    tick' = [tick EXCEPT ![w] =
                IF seen = <<>> THEN None ELSE [step |-> step, now |-> now, seen |-> seen]]

Keep(seen, S) == [s \in DOMAIN seen \cap S |-> seen[s]]

\* ListSchedules, and the time of the whole tick.
TickList(w) ==
    LET enabled == {s \in Schedules : LiveSchedule(s) /\ schedule[s].enabled}
    IN  /\ tick[w] = None
        /\ Proceed(w, "tasks", clock,
                   [s \in enabled |-> [task |-> schedule[s].task, valid |-> schedule[s].valid,
                                       base |-> schedule[s].base, cron |-> schedule[s].cron]])
        /\ UNCHANGED <<board, cmd, clock, faults>>

\* GetTasksByIDs: a closed task, or none, and what is not due drop out.
TickTasks(w) ==
    LET seen == tick[w].seen
    IN  /\ Ticking(w, "tasks")
        /\ Proceed(w, "active", tick[w].now,
                   Keep(seen, {s \in DOMAIN seen : IsOpen(seen[s].task) /\ Due(seen[s], tick[w].now)}))
        /\ UNCHANGED <<board, cmd, clock, faults>>

\* HasActiveActionsForSchedules and the decision.
TickActive(w) ==
    LET seen == Keep(tick[w].seen, {s \in Schedules : ~HasActive(s)})
    IN  /\ Ticking(w, "active")
        /\ Proceed(w, IF \E s \in DOMAIN seen : ~seen[s].valid THEN "errors" ELSE "insert",
                   tick[w].now, seen)
        /\ UNCHANGED <<board, cmd, clock, faults>>

\* (Mutant of RanAt: the time of the next look, not of this one.)
RanAtNext(S, now) ==
    schedule' = [s \in Schedules |-> IF s \in S /\ LiveSchedule(s)
                                     THEN [schedule[s] EXCEPT !.base = now + 1] ELSE schedule[s]]

\* UPDATE schedules SET last_run_at: of the rows that still exist.
RanAt(S, now) ==
    schedule' = [s \in Schedules |-> IF s \in S /\ LiveSchedule(s)
                                     THEN [schedule[s] EXCEPT !.base = now] ELSE schedule[s]]

\* (Mutant of TickErrors: the error leaves no trace.)
TickErrorsLogged(w) ==
    LET bad == {s \in DOMAIN tick[w].seen : ~tick[w].seen[s].valid}
    IN  /\ Ticking(w, "errors")
        /\ Proceed(w, "insert", tick[w].now, Keep(tick[w].seen, Schedules \ bad))
        /\ UNCHANGED <<board, cmd, clock, faults>>

\* BulkUpdateScheduleRuns: a schedule that makes no action waits for its next
\* instant as well.
TickErrors(w) ==
    LET bad == {s \in DOMAIN tick[w].seen : ~tick[w].seen[s].valid}
    IN  /\ Ticking(w, "errors")
        /\ RanAt(bad, tick[w].now)
        /\ Proceed(w, "insert", tick[w].now, Keep(tick[w].seen, Schedules \ bad))
        /\ UNCHANGED <<project, task, action, count, cmd, clock, faults>>

\* BulkInsertScheduledActions, one transaction: an action for each schedule,
\* and the schedules' last run.  No id is left over for a second use.
InsertScheduled(seen) ==
    \E id \in [DOMAIN seen -> ByTick] :
        /\ \A s1, s2 \in DOMAIN seen : id[s1] = id[s2] => s1 = s2
        /\ \A s \in DOMAIN seen : action[id[s]].status = "none"
        /\ WriteActions([a \in {id[s] : s \in DOMAIN seen} |->
              LET s == CHOOSE x \in DOMAIN seen : id[x] = a
              IN  [status |-> "pending", task |-> seen[s].task, by |-> s, reset |-> FALSE]])

\* (Mutant of TickInsert: the run is not recorded with the action.)
TickInsertOnly(w) ==
    LET seen == tick[w].seen
    IN  /\ Ticking(w, "insert")
        /\ \A s \in DOMAIN seen : LiveTask(seen[s].task)
        /\ InsertScheduled(seen)
        /\ tick' = [tick EXCEPT ![w] = None]
        /\ UNCHANGED <<project, task, schedule, cmd, clock, faults>>

TickInsert(w) ==
    LET seen == tick[w].seen
    IN  /\ Ticking(w, "insert")
        /\ \A s \in DOMAIN seen : LiveTask(seen[s].task)
        /\ InsertScheduled(seen)
        /\ RanAt(DOMAIN seen, tick[w].now)
        /\ tick' = [tick EXCEPT ![w] = None]
        /\ UNCHANGED <<project, task, cmd, clock, faults>>

\* One task deleted meanwhile: the foreign key refuses the whole batch, which
\* the next tick tries again.
TickRefused(w) ==
    /\ Ticking(w, "insert")
    /\ \E s \in DOMAIN tick[w].seen : ~LiveTask(tick[w].seen[s].task)
    /\ tick' = [tick EXCEPT ![w] = None]
    /\ UNCHANGED <<board, cmd, clock, faults>>

\* Any of the five calls fails after its retries, or the worker is killed.
TickAborts(w) ==
    /\ tick[w] # None
    /\ faults < MaxFaults
    /\ faults' = faults + 1
    /\ tick' = [tick EXCEPT ![w] = None]
    /\ UNCHANGED <<board, cmd, clock>>

Tick(w) == TickList(w) \/ TickTasks(w) \/ TickActive(w) \/ TickErrors(w) \/ TickInsert(w) \/ TickRefused(w)

Advance ==
    /\ clock < MaxTime
    /\ clock' = clock + 1
    /\ UNCHANGED <<board, cmd, tick, faults>>

Next ==
    \/ \E o \in Operators : (TaskCommand(o) \/ ScheduleCommand(o)) /\ UNCHANGED <<clock, tick, faults>>
    \/ Progress /\ UNCHANGED <<clock, tick, faults>>
    \/ \E w \in Workers : Tick(w) \/ TickAborts(w)
    \/ Advance

\* The loop of RunWorker comes back to CheckSchedules and never stops inside.
Spec == Init /\ [][Next]_vars /\ \A w \in Workers : WF_vars(Tick(w))

-----------------------------------------------------------------------------
\* A schedule makes at most one action for an instant its cron names, counted
\* from its creation, across ticks that overlap its own edits, ticks that are
\* killed, and actions that end within the minute (dispatch/schedule.go:142,
\* db/schedule.go:211).
OncePerInstant ==
    \A s \in Schedules :
        Cardinality({a \in Actions : action[a].by = s})
            <= Cardinality({i \in UNION Crons : schedule[s].created < i /\ i <= clock})

\* Two actions of a schedule are active at a time only when one was reset by
\* hand: a tick looks for an active one before it inserts
\* (dispatch/schedule.go:158).
NoOverlap ==
    \A a, b \in Actions :
        a # b /\ action[a].by # None /\ action[a].by = action[b].by
        /\ {action[a].status, action[b].status} \subseteq Active
            => action[a].reset \/ action[b].reset

Ready(s) ==
    /\ LiveSchedule(s) /\ schedule[s].enabled
    /\ IsOpen(schedule[s].task)
    /\ Due(schedule[s], clock)
    /\ ~HasActive(s)

\* A schedule that is due and free does not stay so while nobody touches it: it
\* runs, or its error is recorded, whatever the other schedules and tasks are
\* like (dispatch/schedule.go:80-103).
DueEventuallyRuns ==
    \A s \in Schedules : []<>(~Ready(s)) \/ []<><<schedule'[s] # schedule[s]>>_vars
=============================================================================
