# tq in TLA+

A verification project for [tq](../src/README.md), a task queue for Claude Code
sessions: a Go program around one SQLite database that several processes share.
The modules model what the code under `src/` does; TLC checks them on small
instances, and TLAPS proves the central safety properties for instances of any
size. `PROJECT.json` maps every definition to the lines it models.

## 1. The system

### Components

| Component | State it keeps | Operations | Who touches it |
| --- | --- | --- | --- |
| Action store (`db/action.go`) | `actions`: status, `started_at`, `dispatch_after`, result, metadata (mode, `daemon_short`, `claude_session_id`, `executor`, `successful_result`) | insert, claim (`NextPending`, `ClaimPending`), `MarkDone`/`Failed`/`Cancelled`, `MarkDispatched`, `ResetToPending`, `DeferToPending`, metadata merges, `BulkMarkDone`/`Failed`, `UpdateAction`, counts and lists | workers, every CLI command, the TUI, hooks |
| Dependencies (`db/action_dependency.go`, triggers) | `action_dependencies`: action waits for action or task | add, replace, clear; gate in `NextPending`; purge triggers | `tq action create`, `update`, worker |
| Tasks (`db/task.go`) | `tasks`: status, directory, metadata; `task_action_counts` by trigger | create, update and close, attach checks, history | CLI, TUI, worker (directory) |
| Schedules (`db/schedule.go`, `dispatch/schedule.go`) | `schedules`: cron, enabled, `last_run_at` | insert, update, enable, delete; `CheckSchedules` per tick | worker, CLI, TUI |
| Projects (`db/project.go`) | `projects`: focus (`dispatch_enabled`), directory | create, delete with cascade, focus | CLI, TUI, gate |
| Queue worker (`dispatch/queue_worker.go`) | what a tick has listed and read | heartbeat, orphan reaper, bg reaper, schedule check, dispatch loop | one per `tq ui` |
| Launch path (`dispatch/execute.go`, `bg.go`, `remote.go`) | the session just launched | admission, launch, record, defer, hand over | worker, `tq action dispatch`, resume |
| Daemon and cloud sessions (external) | `~/.claude/jobs/<short>/state.json` | start, work, end, vanish | reaper reads it |
| Status commands (`cmd/done.go`, ...) | the status they have checked | done, fail, cancel, reset, dispatch, resume | people and agents |
| Migration (`db/db.go`) | schema, triggers, backfills | `Migrate` at every start | every process |
| Lock retry (`db/retry.go`) | attempt, elapsed time | `withRetry`, `withTxRetry` | every write |
| Event log, search, settings, heartbeat | `events`, FTS tables, `settings`, `worker_heartbeats` | append, triggers, get and set | every component |
| TUI (`tui/`) | view state, transient messages | keys, ticks, timers | a person |

### How they interact, and what is hard

* There is no server. Workers, commands, hooks and the TUI are processes that
  meet in the database. `db.Open` asks for `_txlock=immediate`, so a
  transaction is atomic and serialised. Whatever a process does between two
  transactions interleaves with all the others.
* Most operations are a **check**, then a **write**, in different statements:
  reset, done, cancel, `update --blocked-by`, closing a task, the schedule
  tick, `DeferToPending`. The write may find another state than the check.
* The reaper's verdict comes from files an external daemon writes, for the
  actions it listed earlier. It is written by action id.
* A worker claims **first** and counts the running actions **afterwards**.
* A process may die anywhere: after a claim, after a launch, between two of
  the reaper's writes, in the middle of a migration. Store calls may fail after
  their retries.
* `PersistentPreRunE` runs `Migrate` before every command, statement by
  statement and mostly outside transactions, next to other commands that do
  the same and to older ones that already work.
* The TUI keeps positions (a cursor, an index) over rows that loads replace.
  Its loads run beside `Update`, read in several statements and may overtake
  each other; its timers and answers arrive later than what they are about.
* Liveness rests on the reapers: nothing else ends a run whose session is gone.

What makes each component correct: the status moves only as the docs allow; a
result once reported is not lost; caps hold; no action is launched
twice; a run that is over or lost is ended, one at work is not; the dependency
graph stays acyclic, free of dangling edges, and never locks the queue by
itself. `PROJECT.json`, "hazards", lists each place where one of these could go
wrong, with the property that watches it or the reason why none does yet.

## 2. Modules

| Module | Models | Relation |
| --- | --- | --- |
| `Dependencies` | `action_dependency.go`, purge triggers, `DeleteProject`, the gate of `NextPending`, `tq action update` | stands alone |
| `DependenciesProofs` | its theorems | extends `Dependencies` |
| `ActionLifecycle` | abstract specification: what the docs let the status of an action do, and that reported results are kept | implemented by `Dispatch` |
| `Dispatch` | worker ticks, launch path, status commands, the store operations they call, sessions, time, faults | refines `ActionLifecycle` |
| `DispatchProofs` | types and caps | extends `Dispatch` |
| `DispatchLifecycleProofs` | the refinement, the kept results, what a reset may undo | extends `DispatchProofs` |
| `DispatchLaunchProofs` | one launch per action | extends `DispatchProofs` |
| `DispatchReaperProofs` | the reaper spares sessions at work | extends `DispatchLaunchProofs` |
| `Tasks` | projects, tasks, actions under them, the count triggers; the commands that create, close, move and delete them | extended by `Schedules` |
| `Schedules` | the schedules' commands and `CheckSchedules`, on the board of `Tasks` | composes the worker's tick with the commands |
| `SchedulesProofs` | counts, types, overlap, one action per instant | extends `Schedules` |
| `Migration` | `Migrate` and the schema it creates, several commands at a time, crashes | stands alone |
| `MigrationProofs` | types; what dropped columns held is kept; the indexes are complete | extends `Migration` |
| `Ui` | `Update` of both tabs, the commands it starts, timers, the window over the lines | stands alone |
| `UiProofs` | types, cursors, windows, messages | extends `Ui` |
| `MCDependencies`, `MCDispatch`, `MCSchedules`, `MCMigration`, `MCUi` | constants for TLC | extend the modules they check |

`ActionLifecycle` says what a step **may** do. It has the edge from failed to
cancelled (`Abandon`), which README.md:118 and 127, docs/cli-reference.md:137
and the text of `tq action cancel` (cmd/cancel.go:19) promise. The code never takes it:
the command lets a failed action through, `markTerminal` leaves what is
terminal alone (db/action.go:300), and the command reports a cancellation that
did not happen. That `Dispatch` implements `ActionLifecycle` therefore shows that
nothing undocumented happens, not that all that is documented does.

An action's status moves in `Dispatch`, in detail, and in `Tasks` and `Ui`,
where it may move in any way the store allows.

### Dependencies

`actionDeps` and `taskDeps` are the two kinds of rows of
`action_dependencies`. One transaction is one action: `InsertAction`
(`InsertActionWithDependencies`), `AddDependencies`, `ReplaceDependencies`,
`ClearDependencies`, `DeleteProject` with what the foreign key and the purge
triggers delete. `tq action update` takes two steps (`CheckEditable`, then a
change) as it does in the code. `Reachable` states what the recursive query
computes without recursion: the target is in every set that holds the start
and is closed under the edges. Status changes come from the store operations,
with their guards; `ManualDispatch` goes round the gate as `ClaimPending` does.

### Dispatch

A process's `pc` says which store call comes next, `job` the action it works
on with what it has read of it, `sweep` what the reaper has listed, read and
not yet written. A tick is

    idle -ListOrphans-> orphans -FailOrphans-> list -ListShorts-> read -ReadStates->
        merge -> dones -> keep -> fails            (each only if it has something to write)
        -> claim -ClaimNext-> admit -> launch -> record | mark -> idle
                   ^             \-> defer -> deferWrite -+
                   +--------------------------------------+   (at most MaxAttempts claims)

`Launch`, `RecordShort`, `MarkDispatched`, `Reject` are shared with
`tq action dispatch` (`ManualDispatch`), which has no admission check. Each
status command is a `Check`, then its store call; `ResetRead`/`ResetWrite` and
`DeferRead`/`DeferWrite` are the two statements of `movePending`.

Abstractions:

* Mode is a constant. `tq action update --meta` could change it at any time.
* `started_at` is `age`, the number of thresholds crossed (30 s; 4 h);
  `dispatch_after` is `ripe`, null or past. `Ages` and `Ripens` may happen at
  any time.
* The order of the queue, the gate and the focus are left open: a worker may
  claim any ripe pending action, or find none (`EndTick`).
* A session's end is `done`, `failed` or `gone` (job directory removed). A file
  that cannot be read or decoded counts as a fault.
* The SessionStart hook's read and write are one step. Merges of keys that no
  modelled code reads (`remote_session`) are left out.
* `slot` (runs that passed an admission check) and `acked` (actions whose
  completion with a result was reported) are ghosts: no guard reads them.
* Faults (`Crash`, `TickError`, `LastCallFails`, unreadable files) are bounded
  by `MaxFaults`.

### Tasks and Schedules

A table is a function from ids to rows; an id that was deleted is not used
again, as with AUTOINCREMENT. `cmd` says which store call of a command comes
next and what its check has read: `CloseCheckSchedules`, `CloseCheckCounts` and
`CloseWrite` are the three statements of `UpdateTaskFields` with a terminal
status, `CreateCheck`/`CreateWrite` and `ReassignCheck`/`ReassignWrite` the
check of `EnsureTaskOpenForAttach` and the write that no longer asks, and so on
for resume and the schedules. A write to a task deleted meanwhile is `Refused`,
by the foreign key. `WriteActions` is any statement that writes actions,
with the count triggers on it; `Counted` says which count a row enters and
leaves.

A worker's tick is

    None -TickList-> tasks -TickTasks-> active -TickActive-> errors -TickErrors-> insert
      ^                                            \-----------------------------> |
      +-------------------- TickInsert | TickRefused (any step: TickAborts) <-------+

`tick[w].seen` is what it has read of each schedule, less what has dropped out.
A cron expression is the set of instants it fires at; `base` is `last_run_at`,
or else `created_at`. Whether instruction and metadata make an action is
`valid`. A task is open or closed (`done` and `archived` behave alike here);
`last_error` is written with `last_run_at` and not kept apart from it.
`reset` is a ghost.

### Migration

`Steps` is the order of `Migrate`. Most steps look at the catalogue
(`CheckColumn`: `hasColumn`) and then issue their statements, each a step of
its own (`AlterColumn`, `FillColumn`, `MigrateInstruction`, `MigrateUrl`). What
SQLite refuses (a column that exists or is gone, an `ALTER` while a trigger
names a column that is not there) is `Alterable` and makes the command `Fail`;
somebody starts another. `schema.sql` runs statement by statement too: each
trigger that matters is a step (`CreateCounts`, `CreateSearch`). Rows hold what
the migration carries over or indexes: title, mode and result of an action, the
url of a task, the instruction of a schedule, the counts and both search
indexes. `Write` is a command that was at work before the migration began: it
inserts an action, edits its title or result, or files it elsewhere. One number stands for a task's counts,
for the trigger at stake is the one on `task_id`. `early` is a ghost: the
actions inserted while there was a trigger on insert but none on update yet.
Left out are the insertion and edits of tasks, whose triggers come with the
same gap, deletions, and the index of events.

### Ui

A command of the terminal library is an element of the bag `flight`: it
goes through its reads (`ReadProjects`, `ReadTasks`, `ReadActions` for a load),
each of which may fail, until it is an answer that `Arrive`s at `Update`. An
answer goes to its tab, or to the active one, as app.go routes it. Keys are
enabled as in the key switches and act on the row as it was loaded
(`Request`, `ToggleSchedule`). `BuildLines` says which lines there are
(`ShownLines`) and puts each where its `Place` in the order of projects, tasks
and actions is; `Skip` says where the two loops of `skipDecorativeLines` stop.
Neither is written as a loop, so that they can be proved about; two `ASSUME`s
of `MCUi` compare them with the loops of the code, `SkipAsLoops` on all short
lists and `LinesAsLoops` on boards of two projects with three tasks and three
actions. `gen` is the code's
`messageGen`; `nth` is a ghost that numbers the messages.

## 3. Runs

| Run | Instance | Shows |
| --- | --- | --- |
| `dependencies` | 3 actions, 2 tasks in 2 projects, 1 editor, 3 edges, 1 of them to a task | `Acyclic`, `NoDanglingEdges`, `GateProgress` |
| `lifecycle` | a noninteractive and a remote action, 1 worker, 1 operator (done, cancel, reset), 2 sessions, 1 fault | `Lifecycle` (refinement), `SuccessKept` |
| `two_workers` | 2 interactive actions, 1 slot, 2 workers, 1 operator (fail, dispatch), 2 attempts per tick, sessions that do not end, 1 fault | `SlotCap`, `LaunchedOnce` |
| `reaper` | an interactive and a noninteractive action, 1 worker, resets, all endings, 1 fault, fairness | `EventuallyReaped`, `WorkingSessionKeepsAction` |
| `edit_race` | as `dependencies` | **violated**: `DepsFixedOnceStarted` |
| `reset_race` | 1 action, 1 worker, 2 operators (cancel, reset) | **violated**: `ResetNeverUndoesARun` |
| `stale_verdict` | 1 action, 1 worker, 1 operator (cancel, reset, dispatch) | **violated**: `WorkingSessionKeepsAction` |
| `board` | 1 project, 2 tasks, 2 actions, 1 schedule, 1 operator with all commands but the deletion of a schedule, 1 worker, 2 instants | `CountsExact`, `NoOverlap` |
| `schedule_tick` | 2 schedules in 2 projects, 2 tasks, 2 actions, 1 instant, deletions, 1 fault, fairness | `OncePerInstant`, `DueEventuallyRuns` |
| `migration` | 2 versions of the database, 2 commands that migrate, 2 events (crashes and writes of others, together), fairness | `InstructionKept`, `UrlKept`, `SearchComplete`, `Converges` |
| `migration_counts` | a database with the stale trigger, 1 command, 2 events | **violated**: `CountsInSync` |
| `ui` | 1 project with 1 task and 2 actions, or 2 schedules; 2 commands in flight, 1 request, 1 change by others or failure, 4 heights, fairness | `CursorSelectable`, `CursorVisible`, `MessageKept`, `EventuallyFresh` |

### Bounds

Three actions are the fewest with a cycle that is not mutual, two projects the
fewest where a cascade deletes a blocker of an action that stays, and three
edges are enough for that cycle and for a task blocker beside a chain. Two
workers and one slot are the fewest that can overrun a cap; two attempts let a
worker go on after a deferral; there, runs end by `tq action fail` and by the
orphan reaper, which free a slot as any other end does. Two sessions allow a second launch of an
action after a reset, which is what `LaunchedOnce`, `SuccessKept` and the stale
verdict are about; a launch is not possible once all are used, so a run keeps
to histories of two launches. One fault puts a crash or an error at any one
place. Commands are split over runs by the question they bear on: each run has
those that can disturb its properties, and the theorems hold for all of them.

`board` has two tasks, so that an action, a schedule or a tick can be moved
from one to the other under way, and two actions, so that one can be
reassigned or reset while the schedule makes the next. `ByTick` and
`ByHand` split the ids between ticks and commands, and `Statuses` is one
status of each kind a property tells apart (waiting, at work, ended): they
keep the state space small and take no step of the code away. Cascading deletes are
enabled there too. `board` and `schedule_tick` have **one** operator and one
worker. With two workers `NoOverlap` and `OncePerInstant` do not hold, by the
race listed as a hazard at dispatch/schedule.go:59; `CountsExact` does not
depend on it, and no property depends on the number of operators: the theorems
are for any. That a closed task has no enabled schedule is **not** a property:
two commands at a time break it by the race at db/task.go:124 (the checks come
before the transaction), and one alone would never reach that race.
`schedule_tick`
has two schedules because a batch can fail only for the sake of another one.
It has no edits of schedules and one instant; that edits do not break
`OncePerInstant` rests on its theorem.

`migration` starts from a database of the time of prompts, where nearly every step has
something to do, and from one with the stale trigger. Two commands are the
fewest that compete. Two events are a kill at any statement and a write at any
other point, or two writes: an insert between the triggers on insert and on
update, and an edit of that action before the second is there. Without the
exception for `early`, `SearchComplete` is violated in this very instance. A
crash does not undo what is committed. The old action is under `t1`
(`OneHome`), as the tasks are alike; TLC's own symmetry is not sound with
`Converges`. A database from before `actions.title` that still has
`priority`, `template_id` or `source` is left out: `schema.sql` creates search
triggers that name `title`, and SQLite then refuses to drop a column, so it
does not migrate at all (`TriggersResolve`; see the hazard at db/db.go:122).

In `ui` the tabs share nothing but the tick and which of them is active, so the
loads of one tab (`watched`) are followed at a time. Two commands in flight are
the fewest that overtake each other. One change or failure leaves each position
over rows that have gone. Heights 1 and 2 are windows smaller than a card, 4
and 5 fewer and more rows than the header of the schedules tab.

The type invariant of a module is checked in one run (`lifecycle` for
`Dispatch`, `board` for `Schedules`), and proved for all.

Deadlock is checked in every run of `Dispatch`: a worker can always go on. The
other runs say `CHECK_DEADLOCK FALSE`, because their systems may stop: all
projects are deleted in `Dependencies`; the ids or instants of the instance are
used up in `Schedules`; every command is past the migration in `Migration`; the user has quit in
`Ui`.

Symmetry is declared in `board` (tasks), `lifecycle` (sessions) and `two_workers` (sessions,
workers, and actions, which have one mode there). The one temporal formula
among their properties, `Lifecycle`, has no liveness part and treats sessions
alike.

### Fairness

`FairSpec` asks for weak fairness of each worker's loop as a whole and of
`Ages`. `RunWorker` loops without ever waiting for another process, so a worker
that runs takes its next step; and time passes. Nothing is asked of operators,
sessions, `Ripens` or faults, whose number is bounded: errors are transient,
and a worker that crashes starts again with its next tick. `EventuallyReaped`
says that a local run does not stay over for ever: lost in a crash, failed by
its session, finished, or, if noninteractive, overdue.

`Schedules!Spec` asks the same of the steps of a worker's tick, and of nothing
else: a tick never waits inside. `DueEventuallyRuns` says that a schedule
which stays due and free is run or has its error recorded.

`Migration!Spec` lets a command that has started go on, and somebody run the next
one after one that failed. `Converges` then says that no interrupted or
competing migration blocks the later ones.

`Ui!Spec` lets the tick's timer fire, and **some** command in flight go on
while there are any; nothing is assumed of a particular one. This is
`WF_vars(Progress)`, written out over `flight`, the only variable that tells
these steps, because TLC takes long to compare whole steps with `Progress`.

### What the violated runs show

1. `edit_race`: the refusal of `tq action update` (cmd/action.go:112) is
   decided before the transaction that changes the edges, so the dependencies of
   a running action can change.
2. `reset_race`: two resets check a cancelled action; one moves it to pending,
   a worker claims it, and the other, which reads the status again and asks
   nothing of it, moves the *running* action back to pending. This is the
   duplicate worker that README.md:128 says reset is rejected to avoid. A done
   action can be lost in the same way.
3. `stale_verdict`: the reaper reads "done" for the session of the first run.
   Before it writes, the action is cancelled, reset and dispatched again; the
   write marks the second run done while its session works.
4. `migration_counts`: a command drops the stale count trigger and is killed before
   it has rebuilt the counts. The next one creates the current trigger, finds
   rows in the table and trusts them (db/db.go:440): they stay wrong.

## 4. Proofs

All theorems are proved for every value of the constants that the modules'
`ASSUME`s allow.

* `DependenciesProofs`: `TypeCorrect`, `EdgesNeverDangle`, `NeverCircular`,
  `GateNeverLocks`. The inductive invariant is the conjunction of the type
  invariant, `NoDanglingEdges` and `Acyclic`. The
  heart is `AdmissibleEdges`: if no new blocker reaches `a`, then a circular
  wait in the new graph either has no new edge in it, or has a part among the
  actions that cannot reach `a`, where no edge is new: it was there before. No
  induction over paths is needed, because reachability and acyclicity are
  stated with sets.
  `GateNeverLocks` applies acyclicity to the set of pending actions.
* `DispatchProofs`: `TypeCorrect` and `CapsHold`. `Types` is the type invariant
  taken apart by variable, with `Working`: a process past its claim has an
  action, which is what the types of later steps need. `SlotsRun`, that an
  admitted action is running, strengthens the cap: `Admit` counts the running actions of
  the pool, which contain the admitted ones and the new one. `CapsHold` assumes
  that `Actions` is finite, or cardinality would mean nothing.
* `DispatchLifecycleProofs`: `ImplementsLifecycle` and `NoResultLost`, under
  `SingleResetter`: at most one operator ever issues resets. Run `reset_race`
  shows that this assumption is needed. The invariant `CheckHolds` says that what
  reset has checked is still so when it writes, as nothing but a reset changes
  a failed or cancelled action. (Nothing takes a failed action to cancelled:
  see `Abandon` above.) `PromiseStep` maps each action of `Dispatch` to
  one of `ActionLifecycle`, or to a stutter; `NoResultLost` follows from the
  abstract specification. `ResetSparesRuns` says that `CheckHolds` is enough for
  the property `reset_race` refutes: one resetting process never undoes a run.
* `DispatchLaunchProofs`: `NeverLaunchedTwice`, under `NoResets`: nobody issues
  resets. (A reset is a second launch by design.) A process holds an action
  from its claim to the launch, or to the end of its deferral. `HeldOnce`: what is
  held is not pending, has no session, and has one holder, who alone puts it
  back; `LaunchedNotPending`: what has a session never waits again. Together
  with the property they are inductive, for any number of workers, operators
  who dispatch by hand, faults and crashes.
* `DispatchReaperProofs`: `WorkingSessionKeepsAction` twice, for the two ways
  to run tq in which it holds. It is about the two bulk writes of `reapBg`, on
  interactive runs whose recorded session is at work; the orphan reaper (a
  launch that takes more than 30 s to record), the limit of four hours for
  noninteractive runs and the commands end live sessions by design, and are
  outside it. `WorkSparedWithoutResets` assumes `NoResets`.
  `Traced` follows each listed row, each verdict and each recorded session back
  to the action the session was started for; by `NeverLaunchedTwice` that is
  the session the row records. `WorkSparedByOneWorker` allows resets and assumes
  `Alone`: one worker, and no `tq action dispatch`. Then nothing is launched between what the
  reaper reads and what it writes, and `Fresh` says that a verdict about a
  run that still runs is about its session of now. With both resets and another
  process that launches, the property fails (`stale_verdict`).
* `SchedulesProofs`: `CountsAlwaysExact`, for any number of operators and
  workers and a finite set of actions. `WritesCounted` is its heart: whatever
  actions a statement writes, those counted under a task afterwards are those
  that were, less the ones that leave, with the ones that enter, and so the
  cardinality moves as the triggers move the count (`LeaveAndEnter`). It needs
  rows to be rows of the table, which `CommandsKnow` says of the action a
  reassignment has checked. `TypeCorrect` takes the types apart by table; that
  counts are not negative follows from `CountsExact`.
  `ActionsDoNotOverlap` assumes `SingleWorker`. What the tick has found free is
  still free when it inserts (`FoundFree`), for nothing but a tick or a reset
  makes an action of a schedule active (`Calm`). `NotTwicePerInstant` assumes
  `SingleWorker` too. Its invariant `Paid` is an account: what a schedule has made
  is no more than the instants up to its `base`, for a row, and up to the old
  `base` that the tick goes by, while it is between its reads and its insert;
  a due schedule has an instant after that to pay with (`Due`). Only ticks move
  `base`; commands can delete what was made, which raises no debt.
* `MigrationProofs`: `InstructionNeverLost` and `UrlsNeverLost`, for any number
  of commands, crashes and writers. The invariant `Good` says what a command
  knows when it has come to the statement that drops the column: its own copy
  has gone through (`InstructionCopied`), or every task without its url in its
  metadata is still in the list of its loop (`UrlsNoted`). `Elsewhere` disposes
  of the other statements, which go to no such place, and `OtherColumns` looks
  at `Steps` one by one to see that none of the others alters these columns.
  `TypeCorrect` and `SearchIsComplete` assume that `Actions` is finite, as the
  counts are numbers only then. `SearchComplete` is what the backfill does
  achieve: every row has its entry, and the entry says what the row says, except
  for the actions in `early`. `SearchInv` says that of the
  entries there are, at any time (`FreshActions`, `FreshTasks`: once there is a
  trigger on update it replaces an entry with each write of its row, and before
  that only rows in `early` have one), that nothing is in an
  index before its triggers (`Blank`), and what a process has behind it when it
  has passed each statement that creates a trigger or fills an index
  (`Reached`); what is written later is indexed by the triggers.
* `UiProofs`: `TypeCorrect`, `CursorOnALine`, `CursorIsDrawn`, `MessagesAreKept`, for boards of
  any finite size and any interleaving of loads, keys and timers. `BuildLines` is defined
  by rank, so the proof first shows that ranks in a finite total order are
  `0..n-1` (`Numbering`) and that `Place` gives such an order (`KeysOrdered`);
  hence what the list consists of (`Built`), that it has a line to select
  unless it is empty (`SomeSelectable`), and that `Skip` finds one (`SkipSelects`). A fold does not move
  the cursor: all it adds or removes comes after the row it is on
  (`FoldedBelow`, `StaysInPlace`). The invariant `Inv` adds that `lines` always is what `BuildLines`
  makes of the rows loaded last and the folds of now, and that what a command
  in flight has got is a board. `WindowHolds` is about `calcVisibleRange` alone.
  `MessagesAreKept` rests on `gen` and `nth` being equal: every message bumps the
  generation.

Only model-checked: `EventuallyReaped`, `DueEventuallyRuns`, `Converges` and
`EventuallyFresh`, for liveness under fairness is out of the provers' reach; and
the agreement of `Skip` and `BuildLines` with the loops of the code, which
would take induction over data.

## 5. Not modelled, and the plan

Not modelled:

* Rendering of the TUI, widths, scrolling within a detail view, the activity
  log, and the status line (only a background function that returns an error
  sets it, and `RunWorker` returns nothing but the end of its context).
* Texts: prompts, arguments, messages, flags, log capture.
* The event log, which no modelled code reads; events are written after the
  commit they report.
* The inside of `retry.go`: its callers see a call that succeeds or fails.
* The order of the queue and the bound of 16 attempts; the choice and recovery
  of working directories; the heartbeat row; settings.
* The Claude Code plugins and the tests of `internal/goldenrules`.

Still to come, in this order:

1. `QueueOrder`: ids, deferral windows and the bound of 16 attempts. Property:
   no free pool starves behind a full one, and up to which numbers.
2. Smaller ones: events after the commit, working-directory recovery.
