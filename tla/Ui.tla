--------------------------------- MODULE Ui ---------------------------------
(***************************************************************************)
(* The dashboard (`tq ui`): tui/app.go, tui/tasks.go, tui/schedules.go and *)
(* the window calculation of tui/help.go.                                  *)
(*                                                                         *)
(* Update runs for one message at a time.  What reads or writes the        *)
(* database in a command runs beside it, in several steps, and comes back  *)
(* as a message; so loads overtake each other, and what is shown may be    *)
(* older than what a later load has already shown.  Other processes write  *)
(* all the while (modules Tasks, Schedules and Dispatch say how; here a    *)
(* write is any change of one row).                                        *)
(*                                                                         *)
(* A row is "gone" before it is created and after it is deleted.  "old" is *)
(* a task closed on another day than the dashboard was started on, "done"  *)
(* one closed on that day, or an action that ended on it (the others that  *)
(* ended are no rows to the dashboard).  Left out: archived tasks, and     *)
(* failed, cancelled and dispatched actions, which are lines like the      *)
(* others with a place of their own in the order; texts, widths, the       *)
(* activity log and the contents of the detail views.                      *)
(***************************************************************************)
EXTENDS Integers, SequencesExt

CONSTANTS
    Projects, Tasks, Actions, Schedules,   \* ids, natural numbers
    ProjectOf, TaskOf,     \* the project of a task, the task of an action
    Attachable, Resumable, \* the actions with daemon_short, with claude_session_id
    Boards,        \* the databases at the start
    Heights,       \* the heights of the content area
    None,          \* no id
    MaxFlight,     \* bound of the model: commands in flight
    MaxRequests,   \* bound of the model: keys that start a command or write a row
    MaxTroubles    \* bound of the model: rows other processes change and failing calls

Tabs           == {"tasks", "schedules"}
ProjectStatus  == {"gone", "focused", "unfocused"}
TaskStatus     == {"gone", "open", "done", "old"}
ActionStatus   == {"gone", "pending", "running", "done"}
ScheduleStatus == {"gone", "enabled", "disabled"}

Board == [project  : [Projects -> ProjectStatus],
          task     : [Tasks -> TaskStatus],
          action   : [Actions -> ActionStatus],
          schedule : [Schedules -> ScheduleStatus]]

ASSUME IdsAssumption ==
    /\ Projects \cup Tasks \cup Actions \cup Schedules \subseteq Nat
    /\ ProjectOf \in [Tasks -> Projects] /\ TaskOf \in [Actions -> Tasks]
    /\ Boards \in [Tabs -> SUBSET Board]
    /\ IsFiniteSet(Projects) /\ IsFiniteSet(Tasks) /\ IsFiniteSet(Actions)
    /\ IsFiniteSet(Schedules) /\ Heights \subseteq Int
ASSUME BoundsAssumption == MaxRequests \in Nat /\ MaxTroubles \in Nat

VARIABLES
    db,        \* the database
    watched,   \* bound of the model: the tab whose loads are followed; the tabs
               \* share nothing but the tick and which of them is active
    tab,       \* activeTab
    quitting,
    view,      \* TasksModel: trees, as the rows they were built from
    lines,     \* what buildLines made of them
    expanded,  \* whether a row is unfolded, "unset" before it is first seen
    cursor, mode,
    schedules, \* SchedulesModel: schedules
    scursor, smode, detailIdx,
    message,   \* message and messageGen of both tabs
    timers,    \* the clearAfterTTL timers that run
    ticking,   \* whether doTick's timer runs
    flight,    \* bag of the commands that run and the messages they have sent
    requests, troubles   \* how many there were

tasksVars == <<view, lines, expanded, cursor, mode>>
schedVars == <<schedules, scursor, smode, detailIdx>>
noteVars  == <<message, timers>>
vars == <<db, watched, tab, quitting, tasksVars, schedVars, noteVars, ticking, flight,
          requests, troubles>>

Folds  == {"unset", "open", "shut"}
Kinds  == {"load tasks", "load schedules", "attach", "resume", "dispatch",
           "toggle focus", "task detail"}
Stages == {"run", "tasks", "actions", "answer"}

Nothing == [project  |-> [p \in Projects |-> "gone"],  task     |-> [t \in Tasks |-> "gone"],
            action   |-> [a \in Actions |-> "gone"],   schedule |-> [s \in Schedules |-> "gone"]]

\* A command that has just been started; at "answer" it is a message.
Command(do, on, to) == [do |-> do, on |-> on, to |-> to, stage |-> "run",
                        err |-> FALSE, got |-> Nothing]
LoadTasks     == Command("load tasks", None, "")
LoadSchedules == Command("load schedules", None, "")
Reload        == IF watched = "tasks" THEN LoadTasks ELSE LoadSchedules

TypeOK ==
    /\ db \in Board /\ view \in Board /\ schedules \in [Schedules -> ScheduleStatus]
    /\ watched \in Tabs /\ tab \in Tabs /\ quitting \in BOOLEAN /\ ticking \in BOOLEAN
    /\ expanded \in [project : [Projects -> Folds], task : [Tasks -> Folds]]
    /\ cursor \in Nat /\ scursor \in Nat /\ detailIdx \in Nat
    /\ mode \in {"list", "action", "task"} /\ smode \in {"list", "detail"}
    /\ message \in [Tabs -> [text : {"", "info", "error"}, gen : Nat, nth : Nat]]
    /\ timers \subseteq [on : Tabs, gen : Nat, nth : Nat]
    /\ \A c \in BagToSet(flight) :
          /\ c.do \in Kinds /\ c.stage \in Stages /\ c.err \in BOOLEAN /\ c.got \in Board
          /\ c.on \in Projects \cup Tasks \cup Actions \cup {None}
    /\ requests \in 0..MaxRequests /\ troubles \in 0..MaxTroubles

Init ==
    /\ watched \in Tabs /\ db \in Boards[watched]
    /\ tab = "tasks" /\ quitting = FALSE
    /\ view = Nothing /\ lines = <<>> /\ schedules = Nothing.schedule
    /\ expanded = [project |-> [p \in Projects |-> "unset"], task |-> [t \in Tasks |-> "unset"]]
    /\ cursor = 0 /\ mode = "list"
    /\ scursor = 0 /\ smode = "list" /\ detailIdx = 0
    /\ message = [f \in Tabs |-> [text |-> "", gen |-> 0, nth |-> 0]] /\ timers = {}
    /\ ticking = TRUE
    /\ flight = SetToBag({Reload})
    /\ requests = 0 /\ troubles = 0

-----------------------------------------------------------------------------
(* The lines of the tasks tab.                                             *)

Rank(status) == CASE status \in {"done", "old"} -> 1
                  [] status = "open" -> 2
                  [] status = "running" -> 3
                  [] status = "pending" -> 5

\* A task closed on another day shows while one of its actions does.
TaskShows(v, t) == \/ v.task[t] \in {"open", "done"}
                   \/ /\ v.task[t] = "old"
                      /\ \E a \in Actions : TaskOf[a] = t /\ v.action[a] # "gone"

Border == {"top", "separator", "bottom"}      \* decorative
Line(type, id) == [type |-> type, id |-> id]

\* What each loop of buildLines appends: a card for each project; in one that
\* is unfolded its tasks; in a task that is unfolded its actions.
ShownLines(v, e) ==
    LET ps == {p \in Projects : v.project[p] # "gone"}
        ts == {t \in Tasks : /\ ProjectOf[t] \in ps /\ e.project[ProjectOf[t]] = "open"
                             /\ TaskShows(v, t)}
        as == {a \in Actions : /\ TaskOf[a] \in ts /\ e.task[TaskOf[a]] = "open"
                               /\ v.action[a] # "gone"}
    IN  {Line(x, p) : x \in {"top", "project", "bottom"}, p \in ps}
        \cup {Line(x, t) : x \in {"separator", "task"}, t \in ts}
        \cup {Line("action", a) : a \in as}

\* Where it comes: projects by id; their tasks, and the actions of a task, by
\* status and the newest first (ListActionsByTaskIDsForView, and the sorts).
Place(v, l) ==
    LET t == IF l.type = "action" THEN TaskOf[l.id] ELSE l.id
        inTask(slot, rank, id) == <<ProjectOf[t], 3, Rank(v.task[t]), -t, slot, rank, id>>
    IN  CASE l.type = "top"       -> <<l.id, 1, 0, 0, 0, 0, 0>>
          [] l.type = "project"   -> <<l.id, 2, 0, 0, 0, 0, 0>>
          [] l.type = "separator" -> inTask(1, 0, 0)
          [] l.type = "task"      -> inTask(2, 0, 0)
          [] l.type = "action"    -> inTask(3, Rank(v.action[l.id]), -l.id)
          [] l.type = "bottom"    -> <<l.id, 4, 0, 0, 0, 0, 0>>

Before(x, y) == \E k \in 1..7 : x[k] < y[k] /\ \A j \in 1..(k - 1) : x[j] = y[j]

Above(v, S, l) == {m \in S : Before(Place(v, m), Place(v, l))}

BuildLines(v, e) ==
    LET S     == ShownLines(v, e)
        seats == {<<Cardinality(Above(v, S, l)), l>> : l \in S}
    IN  [i \in 1..Cardinality(S) |-> (CHOOSE x \in seats : x[1] = i - 1)[2]]

\* The schedules tab lists by id, the newest first.
Listed(ss) == {s \in Schedules : ss[s] # "gone"}
ScheduleAt(ss, i) == SetToSortSeq(Listed(ss), >)[i + 1]

\* What is seen for the first time is unfolded unless it is muted or closed.
Unfold(e, v) ==
    [project |-> [p \in Projects |->
        IF e.project[p] # "unset" \/ v.project[p] = "gone" THEN e.project[p]
        ELSE IF v.project[p] = "focused" THEN "open" ELSE "shut"],
     task |-> [t \in Tasks |->
        IF e.task[t] # "unset" \/ ~TaskShows(v, t) THEN e.task[t]
        ELSE IF v.task[t] = "open" THEN "open" ELSE "shut"]]

\* (Mutant of Clamp: in an empty list the cursor comes before the first row.)
ClampToLast(c, n) == IF c >= n THEN n - 1 ELSE c

Clamp(c, n) == IF c >= n THEN Max({0, n - 1}) ELSE c

Selectable(ls) == {i \in 0..(Len(ls) - 1) : ls[i + 1].type \notin Border}

\* skipDecorativeLines: on in direction dir, back from the edge if that fails.
First(S, dir) == IF dir = 1 THEN Min(S) ELSE Max(S)

Skip(ls, c, dir) ==
    LET ahead == {i \in Selectable(ls) : (i - c) * dir >= 0}
    IN  IF ls = <<>> THEN 0
        ELSE IF ahead # {} THEN First(ahead, dir)
        ELSE IF Selectable(ls) # {} THEN First(Selectable(ls), -dir)
        ELSE IF dir = 1 THEN 0 ELSE Len(ls) - 1

\* (Mutant of Visible: a whole window before the cursor, not half of one.)
VisibleBefore(c, total, height, header) ==
    LET rows  == IF height <= header THEN 20 ELSE height - header
        start == Max({c - rows, 0})
        first == IF start + rows > total THEN total - rows ELSE start
    IN  IF total <= rows THEN 0..(total - 1) ELSE first..(first + rows - 1)

\* calcVisibleRange: the rows of a window over total rows.
Visible(c, total, height, header) ==
    LET rows  == IF height <= header THEN 20 ELSE height - header
        start == Max({c - rows \div 2, 0})
        first == IF start + rows > total THEN total - rows ELSE start
    IN  IF total <= rows THEN 0..(total - 1) ELSE first..(first + rows - 1)

-----------------------------------------------------------------------------
(* Messages and commands.                                                  *)

\* (Mutant of Tell: the generation is not bumped.)
TellSameGen(f, text) ==
    LET new == [text |-> text, gen |-> message[f].gen, nth |-> message[f].nth + 1]
    IN  /\ message' = [message EXCEPT ![f] = new]
        /\ timers' = timers \cup {[on |-> f, gen |-> new.gen, nth |-> new.nth]}

\* setMessage.  nth is a ghost: it tells the messages of a field apart.
Tell(f, text) ==
    LET new == [text |-> text, gen |-> message[f].gen + 1, nth |-> message[f].nth + 1]
    IN  /\ message' = [message EXCEPT ![f] = new]
        /\ timers' = timers \cup {[on |-> f, gen |-> new.gen, nth |-> new.nth]}

Quiet == UNCHANGED noteVars

ClearMessage(t) ==
    message' = [message EXCEPT ![t.on].text = IF t.gen = message[t.on].gen THEN "" ELSE @]

Expire ==
    /\ ~quitting
    /\ \E t \in timers : ClearMessage(t) /\ timers' = timers \ {t}
    /\ UNCHANGED <<db, watched, tab, quitting, tasksVars, schedVars, ticking, flight,
                   requests, troubles>>

Room(n) == BagCardinality(flight) + n <= MaxFlight

\* What Update returns: the message c is handled, the commands cs start.
Took(c, cs) == flight' = (flight (-) SetToBag({c})) (+) SetToBag(cs)

\* A command goes one step on.
Goes(c, next) ==
    /\ flight' = (flight (-) SetToBag({c})) (+) SetToBag({next})
    /\ UNCHANGED <<watched, tab, quitting, tasksVars, schedVars, noteVars, ticking, requests>>

Answer(c, err) == [c EXCEPT !.stage = "answer", !.err = c.err \/ err]

Trouble   == troubles < MaxTroubles /\ troubles' = troubles + 1
NoTrouble == UNCHANGED troubles

-----------------------------------------------------------------------------
(* What a command does.                                                    *)

\* loadTasks: three reads and more that only add to the error.
ReadProjects(c) ==
    /\ c.do = "load tasks" /\ c.stage = "run"
    /\ \/ Goes(c, [c EXCEPT !.stage = "tasks", !.got.project = db.project]) /\ NoTrouble
       \/ Goes(c, Answer(c, TRUE)) /\ Trouble
    /\ UNCHANGED db

ReadTasks(c) ==
    /\ c.do = "load tasks" /\ c.stage = "tasks"
    /\ \/ /\ Goes(c, [c EXCEPT !.stage = "actions", !.got.task = [t \in Tasks |->
                        IF c.got.project[ProjectOf[t]] = "gone" THEN "gone" ELSE db.task[t]]])
          /\ NoTrouble
       \/ Goes(c, [c EXCEPT !.stage = "actions", !.err = TRUE]) /\ Trouble
    /\ UNCHANGED db

ReadActions(c) ==
    LET read == [c EXCEPT !.got.action = [a \in Actions |->
                    IF c.got.task[TaskOf[a]] = "gone" THEN "gone" ELSE db.action[a]]]
    IN  /\ c.do = "load tasks" /\ c.stage = "actions"
        /\ \/ Goes(c, Answer(read, FALSE)) /\ NoTrouble
           \/ Goes(c, Answer(read, TRUE)) /\ Trouble    \* the counts or the dependencies
           \/ Goes(c, Answer(c, TRUE)) /\ Trouble
        /\ UNCHANGED db

ReadSchedules(c) ==
    /\ c.do = "load schedules" /\ c.stage = "run"
    /\ \/ Goes(c, Answer([c EXCEPT !.got.schedule = db.schedule], FALSE)) /\ NoTrouble
       \/ Goes(c, Answer(c, TRUE)) /\ Trouble
    /\ UNCHANGED db

\* openTaskDetail: without the task nothing, without history or notes the rest.
ReadDetail(c) ==
    /\ c.do = "task detail" /\ c.stage = "run"
    /\ \/ Goes(c, Answer(c, db.task[c.on] = "gone")) /\ NoTrouble
       \/ Goes(c, Answer(c, TRUE)) /\ Trouble
       \/ db.task[c.on] # "gone" /\ Goes(c, Answer([c EXCEPT !.to = "partial"], FALSE)) /\ Trouble
    /\ UNCHANGED db

WriteFocus(c) ==
    /\ c.do = "toggle focus" /\ c.stage = "run"
    /\ \/ /\ db.project[c.on] # "gone"
          /\ db' = [db EXCEPT !.project[c.on] = c.to]
          /\ Goes(c, Answer(c, FALSE)) /\ NoTrouble
       \/ /\ (db.project[c.on] = "gone" /\ NoTrouble) \/ Trouble
          /\ Goes(c, Answer(c, TRUE)) /\ UNCHANGED db

\* The action a resume of a inserts: another one of its task, if the task is open.
Resumes(a) == {b \in Actions : /\ db.action[a] = "done" /\ db.action[b] = "gone"
                               /\ TaskOf[b] = TaskOf[a] /\ db.task[TaskOf[a]] = "open"}

Resume(c) ==
    /\ c.do = "resume" /\ c.stage = "run"
    /\ \/ \E b \in Resumes(c.on) : /\ db' = [db EXCEPT !.action[b] = "pending"]
                                   /\ Goes(c, Answer(c, FALSE)) /\ NoTrouble
       \/ /\ (Resumes(c.on) = {} /\ NoTrouble) \/ Trouble
          /\ Goes(c, Answer(c, TRUE)) /\ UNCHANGED db

\* DispatchByID: the claim refuses what is no longer pending; a launch may fail.
Dispatch(c) ==
    /\ c.do = "dispatch" /\ c.stage = "run"
    /\ \/ /\ db.action[c.on] = "pending"
          /\ \/ db' = [db EXCEPT !.action[c.on] = "running"] /\ Goes(c, Answer(c, FALSE)) /\ NoTrouble
             \/ db' = [db EXCEPT !.action[c.on] = "done"] /\ Goes(c, Answer(c, TRUE)) /\ Trouble
       \/ /\ (db.action[c.on] # "pending" /\ NoTrouble) \/ Trouble
          /\ Goes(c, Answer(c, TRUE)) /\ UNCHANGED db

Attach(c) ==
    /\ c.do = "attach" /\ c.stage = "run"
    /\ Goes(c, Answer(c, FALSE)) /\ NoTrouble /\ UNCHANGED db

Run(c) == \/ ReadProjects(c) \/ ReadTasks(c) \/ ReadActions(c) \/ ReadSchedules(c)
          \/ ReadDetail(c) \/ WriteFocus(c) \/ Resume(c) \/ Dispatch(c) \/ Attach(c)

-----------------------------------------------------------------------------
(* Messages arrive: Update.                                                *)

\* (Mutant of TasksLoaded: the cursor stays on the border it may have come to.)
TasksLoadedUnskipped(c) ==
    /\ c.do = "load tasks"
    /\ view' = c.got
    /\ expanded' = Unfold(expanded, c.got)
    /\ lines' = BuildLines(view', expanded')
    /\ cursor' = Clamp(cursor, Len(lines'))
    /\ IF c.err THEN Tell("tasks", "error") ELSE Quiet
    /\ Took(c, {})
    /\ UNCHANGED <<mode, schedVars>>

TasksLoaded(c) ==
    /\ c.do = "load tasks"
    /\ view' = c.got
    /\ expanded' = Unfold(expanded, c.got)
    /\ lines' = BuildLines(view', expanded')
    /\ cursor' = Skip(lines', Clamp(cursor, Len(lines')), 1)
    /\ IF c.err THEN Tell("tasks", "error") ELSE Quiet
    /\ Took(c, {})
    /\ UNCHANGED <<mode, schedVars>>

SchedulesLoaded(c) ==
    /\ c.do = "load schedules"
    /\ schedules' = c.got.schedule
    /\ scursor' = Clamp(scursor, Cardinality(Listed(c.got.schedule)))
    /\ IF c.err THEN Tell("schedules", "error") ELSE Quiet
    /\ Took(c, {})
    /\ UNCHANGED <<tasksVars, smode, detailIdx>>

\* Goes to the tasks tab whichever is active.
Attached(c) ==
    /\ c.do = "attach"
    /\ Tell("tasks", "info")
    /\ Took(c, {})
    /\ UNCHANGED <<tasksVars, schedVars>>

\* The others only reach the tab that is active when they arrive.
Finished(c) ==
    /\ c.do \in {"resume", "dispatch"} /\ tab = "tasks"
    /\ Tell("tasks", IF c.err THEN "error" ELSE "info")
    /\ Took(c, {LoadTasks})
    /\ UNCHANGED <<tasksVars, schedVars>>

FocusToggled(c) ==
    /\ c.do = "toggle focus" /\ tab = "tasks"
    /\ IF c.err THEN Tell("tasks", "error") ELSE Quiet
    /\ Took(c, {LoadTasks})
    /\ UNCHANGED <<tasksVars, schedVars>>

DetailLoaded(c) ==
    /\ c.do = "task detail" /\ tab = "tasks"
    /\ IF mode = "list" /\ (c.err \/ c.to = "partial") THEN Tell("tasks", "error") ELSE Quiet
    /\ mode' = IF mode = "list" /\ ~c.err THEN "task" ELSE mode
    /\ Took(c, {})
    /\ UNCHANGED <<view, lines, expanded, cursor, schedVars>>

Ignored(c) ==
    /\ c.do \in {"resume", "dispatch", "toggle focus", "task detail"} /\ tab = "schedules"
    /\ Took(c, {})
    /\ UNCHANGED <<tasksVars, schedVars, noteVars>>

Arrive(c) ==
    /\ c.stage = "answer"
    /\ \/ TasksLoaded(c) \/ SchedulesLoaded(c) \/ Attached(c) \/ Finished(c)
       \/ FocusToggled(c) \/ DetailLoaded(c) \/ Ignored(c)
    /\ UNCHANGED <<db, watched, tab, quitting, ticking, requests, troubles>>

\* (Mutant of TickArrives: the timer is not set again.)
TickArrivesOnce ==
    /\ flight' = flight (+) SetToBag({Reload})
    /\ ticking' = FALSE

\* tickMsg: the loads again (both; the one that is watched), and the next tick.
TickArrives ==
    /\ flight' = flight (+) SetToBag({Reload})
    /\ ticking' = TRUE

Tick ==
    /\ ~quitting
    /\ ticking
    /\ Room(1)
    /\ TickArrives
    /\ UNCHANGED <<db, watched, tab, quitting, tasksVars, schedVars, noteVars, requests, troubles>>

-----------------------------------------------------------------------------
(* Keys.                                                                   *)

Asks == requests < MaxRequests /\ requests' = requests + 1

Start(cs) == Room(Cardinality(cs)) /\ flight' = flight (+) SetToBag(cs)

SwitchTab ==
    /\ ~quitting
    /\ tab = "tasks" => mode = "list"
    /\ tab = "schedules" => smode = "list"
    /\ tab' \in Tabs \ {tab}
    /\ UNCHANGED <<db, watched, quitting, tasksVars, schedVars, noteVars, ticking, flight,
                   requests, troubles>>

\* The process ends: its commands and timers go with it.
Quit ==
    /\ ~quitting
    /\ tab = "tasks" => mode = "list"
    /\ tab = "schedules" => smode = "list"
    /\ quitting' = TRUE
    /\ flight' = EmptyBag /\ timers' = {} /\ ticking' = FALSE
    /\ UNCHANGED <<db, watched, tab, tasksVars, schedVars, message, requests, troubles>>

\* A key the tasks tab handles in its list, on the line l.
OnTasks == tab = "tasks" /\ mode = "list"
On(l)   == OnTasks /\ cursor < Len(lines) /\ l = lines[cursor + 1]

Move ==
    /\ OnTasks
    /\ \/ cursor < Len(lines) - 1 /\ cursor' = Skip(lines, cursor + 1, 1)
       \/ cursor > 0 /\ cursor' = Skip(lines, cursor - 1, -1)
    /\ UNCHANGED <<view, lines, expanded, mode, noteVars, flight, requests>>

Flip(f) == IF f = "open" THEN "shut" ELSE "open"

Fold ==
    /\ \E l \in Range(lines) :
          /\ On(l)
          /\ \/ l.type = "project" /\ expanded' = [expanded EXCEPT !.project[l.id] = Flip(@)]
             \/ l.type = "task" /\ expanded' = [expanded EXCEPT !.task[l.id] = Flip(@)]
    /\ lines' = BuildLines(view, expanded')
    /\ UNCHANGED <<view, cursor, mode, noteVars, flight, requests>>

OpenAction ==
    /\ \E l \in Range(lines) : On(l) /\ l.type = "action"
    /\ mode' = "action"
    /\ UNCHANGED <<view, lines, expanded, cursor, noteVars, flight, requests>>

\* v on a task, o, r and d on an action, f on a project: what is asked depends
\* on the row as it was loaded.
Request ==
    /\ \E l \in Range(lines) :
          /\ On(l)
          /\ \/ l.type = "task" /\ Quiet /\ Start({Command("task detail", l.id, "")})
             \/ /\ l.type = "action" /\ l.id \in Attachable
                /\ Quiet /\ Start({Command("attach", l.id, "")})
             \/ /\ l.type = "action" /\ l.id \in Resumable /\ view.action[l.id] = "done"
                /\ Quiet /\ Start({Command("resume", l.id, "")})
             \/ /\ l.type = "action" /\ view.action[l.id] = "pending"
                /\ Tell("tasks", "info") /\ Start({Command("dispatch", l.id, "")})
             \/ /\ l.type = "project"
                /\ Quiet
                /\ Start({Command("toggle focus", l.id,
                      IF view.project[l.id] = "focused" THEN "unfocused" ELSE "focused")})
    /\ Asks
    /\ UNCHANGED tasksVars

Back ==
    /\ tab = "tasks" /\ mode # "list" /\ mode' = "list"
    /\ UNCHANGED <<view, lines, expanded, cursor, noteVars, flight, requests>>

TasksKey ==
    /\ ~quitting
    /\ Move \/ Fold \/ OpenAction \/ Request \/ Back
    /\ UNCHANGED <<db, watched, tab, quitting, schedVars, ticking, troubles>>

OnSchedules == tab = "schedules" /\ smode = "list"

MoveSchedule ==
    /\ OnSchedules
    /\ \/ scursor < Cardinality(Listed(schedules)) - 1 /\ scursor' = scursor + 1
       \/ scursor > 0 /\ scursor' = scursor - 1
    /\ UNCHANGED <<db, schedules, smode, detailIdx, noteVars, flight, requests, troubles>>

OpenSchedule ==
    /\ OnSchedules /\ scursor < Cardinality(Listed(schedules))
    /\ smode' = "detail" /\ detailIdx' = scursor
    /\ UNCHANGED <<db, schedules, scursor, noteVars, flight, requests, troubles>>

CloseSchedule ==
    /\ tab = "schedules" /\ smode = "detail" /\ smode' = "list"
    /\ UNCHANGED <<db, schedules, scursor, detailIdx, noteVars, flight, requests, troubles>>

\* The schedule a key is about: under the cursor, or in the detail view.
Selected(s) ==
    LET i == IF smode = "list" THEN scursor ELSE detailIdx
    IN  tab = "schedules" /\ i < Cardinality(Listed(schedules)) /\ s = ScheduleAt(schedules, i)

\* Written within Update; enabling needs the schedule, and its task open.
ToggleSchedule ==
    /\ \E s \in Schedules :
          /\ Selected(s)
          /\ \/ /\ schedules[s] = "disabled" => db.schedule[s] # "gone"
                /\ db' = [db EXCEPT !.schedule[s] =
                             IF @ = "gone" THEN @
                             ELSE IF schedules[s] = "enabled" THEN "disabled" ELSE "enabled"]
                /\ Tell("schedules", "info")
             \/ UNCHANGED db /\ Tell("schedules", "error")
    /\ Asks /\ NoTrouble /\ Start({LoadSchedules})
    /\ UNCHANGED schedVars

DeleteSchedule ==
    /\ smode = "list"
    /\ \E s \in Schedules :
          /\ Selected(s)
          /\ \/ /\ db.schedule[s] # "gone" /\ db' = [db EXCEPT !.schedule[s] = "gone"]
                /\ Tell("schedules", "info")
             \/ UNCHANGED db /\ Tell("schedules", "error")
    /\ Asks /\ NoTrouble /\ Start({LoadSchedules})
    /\ UNCHANGED schedVars

SchedulesKey ==
    /\ ~quitting
    /\ MoveSchedule \/ OpenSchedule \/ CloseSchedule \/ ToggleSchedule \/ DeleteSchedule
    /\ UNCHANGED <<watched, tab, quitting, tasksVars, ticking>>

-----------------------------------------------------------------------------
(* Other processes, and the specification.                                 *)

\* What a deletion takes along.
Cascade(b) ==
    LET tasks == [t \in Tasks |-> IF b.project[ProjectOf[t]] = "gone" THEN "gone" ELSE b.task[t]]
    IN  [b EXCEPT !.task = tasks,
                  !.action = [a \in Actions |-> IF tasks[TaskOf[a]] = "gone" THEN "gone" ELSE @[a]]]

Others ==
    /\ ~quitting
    /\ Trouble
    /\ \/ /\ watched = "tasks"
          /\ \/ \E p \in Projects, x \in ProjectStatus :
                   db' = Cascade([db EXCEPT !.project[p] = x])
             \/ \E t \in Tasks, x \in TaskStatus \ {"gone"} :
                   db' = Cascade([db EXCEPT !.task[t] = x])
             \/ \E a \in Actions, x \in ActionStatus \ {"gone"} :
                   db' = Cascade([db EXCEPT !.action[a] = x])
       \/ /\ watched = "schedules"
          /\ \E s \in Schedules, x \in ScheduleStatus :
                db' = [db EXCEPT !.schedule[s] = x]
    /\ db' # db
    /\ UNCHANGED <<watched, tab, quitting, tasksVars, schedVars, noteVars, ticking, flight,
                   requests>>

\* A command goes on or its message arrives.
Progress == ~quitting /\ \E c \in BagToSet(flight) : Run(c) \/ Arrive(c)

Next == \/ Tick \/ Expire \/ SwitchTab \/ Quit \/ TasksKey \/ SchedulesKey \/ Others \/ Progress

\* The runtime lets the tick fire, and some command go on while there are any:
\* nothing is assumed of a particular one.  The latter is WF_vars(Progress),
\* written out, for TLC is slow to tell which steps are Progress steps: those
\* that change flight and do not add to it.
GoesOn == BagCardinality(flight') <= BagCardinality(flight)

Fairness ==
    /\ WF_vars(Tick)
    /\ []<>(quitting \/ flight = EmptyBag) \/ []<><<GoesOn>>_flight

Spec == Init /\ [][Next]_vars /\ Fairness

-----------------------------------------------------------------------------
(* Properties.                                                             *)

\* The cursor never rests on a border of a card while there is a line to
\* select (tasks.go:410-412), and on a schedule while there is one: whatever a
\* reload, out of order or failed, has taken away (hazard: a position kept over
\* data that is replaced).
CursorSelectable ==
    /\ Selectable(lines) # {} => cursor \in Selectable(lines)
    /\ scursor \in 0..Max({0, Cardinality(Listed(schedules)) - 1})

\* The line under the cursor is one of those drawn, at every height, so that
\* keys act on what is seen (help.go:37).
CursorVisible ==
    \A h \in Heights :
        /\ lines # <<>> => cursor \in Visible(cursor, Len(lines), h, 0)
        /\ Listed(schedules) # {} =>
              scursor \in Visible(scursor, Cardinality(Listed(schedules)), h, 4)

\* Messages are not cut short: one is only cleared by the timer that was set
\* for it, never by that of an earlier one (app.go:59-60, tasks.go:243-246).
MessageKept ==
    [][\A f \in Tabs :
          message[f].text # "" /\ message'[f].text = "" =>
             \E t \in timers \ timers' : t.on = f /\ t.nth = message[f].nth]_vars

\* Once nobody writes any more both tabs come to show the database and stay
\* that way, although loads overtake each other, fail, and read in parts.
EventuallyFresh ==
    <>[](quitting \/ IF watched = "tasks" THEN view = [db EXCEPT !.schedule = Nothing.schedule]
                                         ELSE schedules = db.schedule)
=============================================================================
