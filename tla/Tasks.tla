------------------------------- MODULE Tasks -------------------------------
(***************************************************************************)
(* Projects, tasks and the actions filed under them: the commands that     *)
(* create, move, close and delete them (cmd/task.go, cmd/add.go,           *)
(* cmd/action.go, cmd/action_resume.go, cmd/project.go), the store         *)
(* operations they call (db/task.go, db/action.go, db/resume.go,           *)
(* db/project.go), and the counters the refusal to close relies on, which  *)
(* triggers keep (db/schema.sql).                                          *)
(*                                                                         *)
(* A command checks first and writes later: each check and each write is a *)
(* step of its own, and nothing but the database orders the steps of       *)
(* different processes.  Module Schedules adds the schedules' own commands *)
(* and the worker's tick.                                                  *)
(*                                                                         *)
(* A table is a function from ids to rows.  Ids are AUTOINCREMENT and      *)
(* never used again, so a row is "none" at first and "deleted" at last.    *)
(***************************************************************************)
EXTENDS Integers, FiniteSets

CONSTANTS
    Projects, Tasks, Actions, Schedules,   \* ids
    ByHand, ByTick, \* bound of the model: the ids commands and ticks may give to actions
    Statuses,       \* bound of the model: the statuses actions take
    Operators,      \* processes running CLI commands or the dashboard
    Commands,       \* the commands they give
    MaxTime,        \* bound of the model: the last instant
    Crons,          \* cron expressions, each the set of instants it fires at
    None            \* not an id

Active       == {"pending", "running", "dispatched"}
Terminal     == {"done", "failed", "cancelled"}
ActionStatus == Active \cup Terminal
TaskStatus   == {"open", "closed"}     \* closed: done or archived
Gone         == {"none", "deleted"}
Instants     == 1..MaxTime
Time         == 0..MaxTime

ASSUME IdsAssumption  == None \notin Projects \cup Tasks \cup Actions \cup Schedules
                         /\ ByHand \cup ByTick \subseteq Actions
ASSUME StatusAssumption == "pending" \in Statuses /\ Statuses \subseteq ActionStatus
ASSUME TimeAssumption == MaxTime \in Nat /\ Crons \subseteq SUBSET Instants

VARIABLES
    project,   \* projects
    task,      \* tasks
    action,    \* actions
    schedule,  \* schedules
    count,     \* task_action_counts
    cmd        \* the command each operator has under way, None when there is none

board == <<project, task, action, schedule, count>>

ProjectRow  == Gone \cup {"live"}
TaskRow     == [status : TaskStatus \cup Gone, project : Projects \cup {None}]
ActionRow   == [status : ActionStatus \cup Gone, task : Tasks \cup {None},
                by     : Schedules \cup {None},   \* metadata.schedule_id
                reset  : BOOLEAN]                 \* ghost: was a scheduled one ever reset
ScheduleRow == [status  : {"live"} \cup Gone, task : Tasks \cup {None}, enabled : BOOLEAN,
                cron    : Crons \cup {{}},
                valid   : BOOLEAN,                \* instruction and metadata make an action
                base    : Time,                   \* last_run_at, or else created_at
                created : Time]                   \* created_at

Ops == {"closeCounts", "closeWrite", "create", "reassign", "resume",
        "schedule", "enableEnsure", "enable", "move"}
Command == [op   : Ops,                           \* the next step
            task : Tasks \cup {None},             \* the task it has checked
            id   : Actions \cup Schedules \cup {None}]

BoardTypeOK ==
    /\ project \in [Projects -> ProjectRow]
    /\ task \in [Tasks -> TaskRow]
    /\ action \in [Actions -> ActionRow]
    /\ schedule \in [Schedules -> ScheduleRow]
    /\ count \in [Tasks -> [Statuses -> Nat]]
    /\ cmd \in [Operators -> Command \cup {None}]

BoardInit ==
    /\ project = [p \in Projects |-> "none"]
    /\ task = [t \in Tasks |-> [status |-> "none", project |-> None]]
    /\ action = [a \in Actions |->
                    [status |-> "none", task |-> None, by |-> None, reset |-> FALSE]]
    /\ schedule = [s \in Schedules |->
                    [status |-> "none", task |-> None, enabled |-> FALSE, cron |-> {},
                     valid |-> FALSE, base |-> 0, created |-> 0]]
    /\ count = [t \in Tasks |-> [st \in Statuses |-> 0]]
    /\ cmd = [o \in Operators |-> None]

\* What a deleted row leaves behind, for the properties to refer to.
DeletedTask        == [status |-> "deleted", project |-> None]
DeletedAction(a)   == [status |-> "deleted", task |-> None, by |-> action[a].by, reset |-> FALSE]
DeletedSchedule(s) == [status |-> "deleted", task |-> None, enabled |-> FALSE, cron |-> {},
                       valid |-> FALSE, base |-> 0, created |-> schedule[s].created]

LiveTask(t)     == task[t].status \in TaskStatus
LiveAction(a)   == action[a].status \in ActionStatus
LiveSchedule(s) == schedule[s].status = "live"
IsOpen(t)       == task[t].status = "open"

ActionsOf(t, st) == {a \in Actions : action[a].task = t /\ action[a].status = st}

-----------------------------------------------------------------------------
(* The triggers on actions.                                                *)

\* The rows new[a], a \in DOMAIN new, that enter or leave the count <<t, st>>:
\* an insert only enters, a delete only leaves, and an update that changes
\* neither column does neither.
Entering(new, t, st) == {a \in DOMAIN new : /\ new[a].status = st /\ new[a].task = t
                                            /\ ~(action[a].status = st /\ action[a].task = t)}
Leaving(new, t, st)  == {a \in DOMAIN new : /\ action[a].status = st /\ action[a].task = t
                                            /\ ~(new[a].status = st /\ new[a].task = t)}

\* (Mutant of Counted: the update trigger as it was before, on status alone.)
CountedOnStatus(new) ==
    LET moved == [a \in {b \in DOMAIN new : new[b].status # action[b].status} |-> new[a]]
    IN  [t \in Tasks |-> [st \in Statuses |->
            count[t][st] + Cardinality(Entering(moved, t, st)) - Cardinality(Leaving(moved, t, st))]]

\* trg_actions_count_insert, _update and _delete.
Counted(new) ==
    [t \in Tasks |-> [st \in Statuses |->
        count[t][st] + Cardinality(Entering(new, t, st)) - Cardinality(Leaving(new, t, st))]]

\* Every statement that writes actions fires the triggers.
WriteActions(new) ==
    /\ action' = [a \in Actions |-> IF a \in DOMAIN new THEN new[a] ELSE action[a]]
    /\ count' = Counted(new)

WriteAction(a, r) == WriteActions([x \in {a} |-> r])

InsertAction(a, t, st, s) ==
    /\ action[a].status = "none"
    /\ WriteAction(a, [status |-> st, task |-> t, by |-> s, reset |-> FALSE])

-----------------------------------------------------------------------------
(* Commands.                                                               *)

Starts(o, c) == cmd[o] = None /\ c \in Commands
Finish(o)    == cmd' = [cmd EXCEPT ![o] = None]

Step(o, op, t, i) == cmd' = [cmd EXCEPT ![o] = [op |-> op, task |-> t, id |-> i]]

At(o, op) == cmd[o] # None /\ cmd[o].op = op

\* The task of a command is deleted by now: the foreign key refuses the write.
Refused(o) ==
    /\ ~LiveTask(cmd[o].task)
    /\ Finish(o)
    /\ UNCHANGED board

CreateProject(o, p) ==
    /\ Starts(o, "create project")
    /\ project[p] = "none"
    /\ project' = [project EXCEPT ![p] = "live"]
    /\ UNCHANGED <<task, action, schedule, count, cmd>>

\* Without --cascade: refused when a task is left, by the count and, should
\* one come in after it, by the foreign key.
DeleteProject(o, p) ==
    /\ Starts(o, "delete project")
    /\ project[p] = "live"
    /\ \A t \in Tasks : ~(LiveTask(t) /\ task[t].project = p)
    /\ project' = [project EXCEPT ![p] = "deleted"]
    /\ UNCHANGED <<task, action, schedule, count, cmd>>

\* One transaction: actions, schedules, tasks (with their counts), project.
DeleteProjectCascade(o, p) ==
    LET gone == {t \in Tasks : LiveTask(t) /\ task[t].project = p}
    IN  /\ Starts(o, "delete project")
        /\ project[p] = "live"
        /\ project' = [project EXCEPT ![p] = "deleted"]
        /\ task' = [t \in Tasks |-> IF t \in gone THEN DeletedTask ELSE task[t]]
        /\ action' = [a \in Actions |-> IF LiveAction(a) /\ action[a].task \in gone
                                        THEN DeletedAction(a) ELSE action[a]]
        /\ schedule' = [s \in Schedules |-> IF LiveSchedule(s) /\ schedule[s].task \in gone
                                            THEN DeletedSchedule(s) ELSE schedule[s]]
        /\ count' = [t \in Tasks |-> IF t \in gone THEN [st \in Statuses |-> 0] ELSE count[t]]
        /\ UNCHANGED cmd

CreateTask(o, t, p) ==
    /\ Starts(o, "create task")
    /\ task[t].status = "none"
    /\ project[p] = "live"
    /\ task' = [task EXCEPT ![t] = [status |-> "open", project |-> p]]
    /\ UNCHANGED <<project, action, schedule, count, cmd>>

\* UpdateTaskFields without a terminal status: no check but the foreign key.
UpdateTask(o, t, p) ==
    /\ Starts(o, "update task")
    /\ LiveTask(t)
    /\ project[p] = "live"
    /\ \E st \in {task[t].status, "open"} : task' = [task EXCEPT ![t] = [status |-> st, project |-> p]]
    /\ UNCHANGED <<project, action, schedule, count, cmd>>

EnabledSchedules(t) == {s \in Schedules : LiveSchedule(s) /\ schedule[s].task = t /\ schedule[s].enabled}

\* UpdateTaskFields with a terminal status: no enabled schedule ...
CloseCheckSchedules(o, t) ==
    /\ Starts(o, "close")
    /\ LiveTask(t)
    /\ EnabledSchedules(t) = {}
    /\ Step(o, "closeCounts", t, None)
    /\ UNCHANGED board

\* ... and no active action, says the table of counts ...
CloseCheckCounts(o) ==
    /\ At(o, "closeCounts")
    /\ IF \A st \in Active \cap Statuses : count[cmd[o].task][st] = 0
       THEN Step(o, "closeWrite", cmd[o].task, None)
       ELSE Finish(o)
    /\ UNCHANGED board

\* ... then the transaction, which may move the task to a project as well.
CloseWrite(o) ==
    LET t == cmd[o].task
    IN  /\ At(o, "closeWrite")
        /\ LiveTask(t)
        /\ \E p \in Projects :
              /\ project[p] = "live"
              /\ task' = [task EXCEPT ![t] = [status |-> "closed", project |-> p]]
        /\ Finish(o)
        /\ UNCHANGED <<project, action, schedule, count>>

\* `tq action create`: EnsureTaskOpenForAttach, then the insert.
CreateCheck(o, t) ==
    /\ Starts(o, "create action")
    /\ IsOpen(t)
    /\ Step(o, "create", t, None)
    /\ UNCHANGED board

CreateWrite(o) ==
    /\ At(o, "create")
    /\ LiveTask(cmd[o].task)
    /\ \E a \in ByHand, st \in Statuses : InsertAction(a, cmd[o].task, st, None)
    /\ Finish(o)
    /\ UNCHANGED <<project, task, schedule>>

\* `tq action update --task`: the same check, and a transaction that looks at
\* the action.
ReassignCheck(o, a, t) ==
    /\ Starts(o, "reassign")
    /\ IsOpen(t)
    /\ Step(o, "reassign", t, a)
    /\ UNCHANGED board

ReassignWrite(o) ==
    LET a == cmd[o].id
    IN  /\ At(o, "reassign")
        /\ LiveTask(cmd[o].task)
        /\ IF action[a].status \in {"pending", "failed"}
           THEN WriteAction(a, [action[a] EXCEPT !.task = cmd[o].task])
           ELSE UNCHANGED <<action, count>>
        /\ Finish(o)
        /\ UNCHANGED <<project, task, schedule>>

\* `tq action resume`: a new action under the task of the old one, whatever
\* the status of that task is; it does not inherit the schedule.
ResumeRead(o, a) ==
    /\ Starts(o, "resume")
    /\ action[a].status \in Terminal
    /\ Step(o, "resume", action[a].task, a)
    /\ UNCHANGED board

ResumeWrite(o) ==
    /\ At(o, "resume")
    /\ LiveTask(cmd[o].task)
    /\ \E a \in ByHand : InsertAction(a, cmd[o].task, "pending", None)
    /\ Finish(o)
    /\ UNCHANGED <<project, task, schedule>>

\* What module Dispatch has in full: the status of an action moves, by
\* workers and commands that never look at the task.
Moves == {<<"pending", "running">>, <<"running", "pending">>, <<"running", "dispatched">>}
         \cup Active \X Terminal

MoveStatus(a, st) ==
    /\ <<action[a].status, st>> \in Moves
    /\ st \in Statuses
    /\ WriteAction(a, [action[a] EXCEPT !.status = st])
    /\ UNCHANGED <<project, task, schedule, cmd>>

ResetAction(a) ==
    /\ action[a].status \in {"failed", "cancelled"}
    /\ WriteAction(a, [action[a] EXCEPT !.status = "pending", !.reset = action[a].by # None])
    /\ UNCHANGED <<project, task, schedule, cmd>>

TaskCommand(o) ==
    \/ \E p \in Projects : CreateProject(o, p) \/ DeleteProject(o, p) \/ DeleteProjectCascade(o, p)
    \/ \E t \in Tasks, p \in Projects : CreateTask(o, t, p) \/ UpdateTask(o, t, p)
    \/ \E t \in Tasks : CloseCheckSchedules(o, t)
    \/ CloseCheckCounts(o) \/ CloseWrite(o)
    \/ \E t \in Tasks : CreateCheck(o, t)
    \/ CreateWrite(o)
    \/ \E a \in Actions, t \in Tasks : ReassignCheck(o, a, t)
    \/ ReassignWrite(o)
    \/ \E a \in Actions : ResumeRead(o, a)
    \/ ResumeWrite(o)
    \/ \E op \in {"closeWrite", "create", "reassign", "resume"} : At(o, op) /\ Refused(o)

Progress ==
    \/ \E a \in Actions, st \in Statuses : MoveStatus(a, st)
    \/ \E a \in Actions : ResetAction(a)

-----------------------------------------------------------------------------
\* The table of counts agrees with the actions it counts, whatever is
\* inserted, moved, reassigned or deleted: it is what stands between
\* `tq task update --status done` and an action still running
\* (db/schema.sql:69-107, db/task.go:129).
CountsExact ==
    \A t \in Tasks, st \in Statuses : count[t][st] = Cardinality(ActionsOf(t, st))
=============================================================================
