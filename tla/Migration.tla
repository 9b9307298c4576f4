----------------------------- MODULE Migration -----------------------------
(***************************************************************************)
(* DB.Migrate (db/db.go), which every tq command runs before its own work, *)
(* on a database an earlier version has left.                              *)
(*                                                                         *)
(* A step of the migration first reads the catalogue (hasColumn) and then  *)
(* issues its statements, each of them committed at once; only three steps *)
(* are transactions.  So several commands may migrate at a time, any of    *)
(* them may be killed between two statements, and a command that is at     *)
(* work already goes on writing rows.                                      *)
(*                                                                         *)
(* Columns are named by strings.  The data are the columns the migration   *)
(* carries over: what an action is called (prompt_id, title), its mode and *)
(* its result, the task it is filed under; the url of a task; the          *)
(* instruction of a schedule; the table of counts; the search indexes of   *)
(* tasks and actions.  Tasks are neither inserted nor edited, and nothing  *)
(* is deleted: the triggers for that are left out.                         *)
(***************************************************************************)
EXTENDS Integers, Sequences, FiniteSets

CONSTANTS
    Versions,      \* the databases there may be to migrate
    Actions, Tasks,
    Old,           \* the actions the database has at first
    Procs,         \* commands that start, one process each
    None,          \* no row in an index
    MaxEvents      \* bound of the model: processes killed while migrating, and
                   \* writes of commands already at work, together

ASSUME OldAssumption    == Old \subseteq Actions /\ None \notin Actions \cup Tasks
ASSUME BoundsAssumption == MaxEvents \in Nat

\* The migrations of one column, in the order of Migrate.  A column that is
\* added may come with a statement that fills it.
Drop(c)      == [how |-> "drop", column |-> c, to |-> "nothing"]
Rename(c, d) == [how |-> "rename", column |-> c, to |-> d]
Add(c)       == [how |-> "add", column |-> c, to |-> "nothing"]
Named(n)     == [how |-> n, column |-> "nothing", to |-> "nothing"]

Steps == <<
    Named("stale trigger"), Named("counts table"), Named("counts trigger"),
    Named("task trigger"), Named("insert trigger"), Named("update trigger"),
    Drop("actions.priority"), Rename("actions.template_id", "actions.prompt_id"),
    Drop("actions.source"), Add("projects.dispatch_enabled"), Add("tasks.work_dir"),
    Add("actions.title"), Drop("actions.prompt_id"),
    Named("instruction"),
    Add("worker_heartbeats.max_interactive"), Named("url"),
    Add("actions.dispatch_after"), Add("actions.work_dir"),
    Rename("actions.session_id", "actions.tmux_session"),
    Rename("actions.tmux_pane", "actions.tmux_window"), Add("schedules.last_error"),
    Named("modes"), Named("rebuild counts"), Named("backfill counts"),
    Named("index tasks"), Named("index actions") >>

Columns == {Steps[i].column : i \in 1..Len(Steps)} \cup {Steps[i].to : i \in 1..Len(Steps)}
           \cup {"schedules.prompt_id", "schedules.instruction", "tasks.url"}

Counting == {"none", "stale", "dropped", "current"}
Modes    == {"experimental_bg", "interactive"}

Titles   == {"blank", "given", "edited"}
Results  == {"empty", "reported"}

Row      == [task : Tasks, title : Titles, mode : Modes, result : Results]   \* of actions
Entry    == [title : Titles, mode : Modes, result : Results]                \* of actions_fts

SearchTriggers == {"task trigger", "insert trigger", "update trigger"}

ASSUME NoneAssumption == None \notin Row /\ None \notin Entry /\ None \notin BOOLEAN

ASSUME VersionsAssumption ==
    Versions \subseteq [columns : SUBSET Columns, counting : {"none", "stale", "current"}]

VARIABLES
    columns,     \* the columns there are, of those that come or go
    counting,    \* the triggers of the table of counts: only the one on update was ever stale
    triggers,    \* the triggers of the search indexes that are there
    action,      \* actions: task, title and mode, None when there is no row
    url,         \* the tasks whose url is in their metadata
    instruction, \* does the schedule have its instruction
    counts,      \* task_action_counts, a function on the tasks that have a row
    search,      \* actions_fts: what each action is found by
    found,       \* tasks_fts: is the url among what each task is found by
    pc,          \* the step of each process and the statement it is at
    noted,       \* what each process has read
    early,       \* of the model: actions inserted when only the trigger on insert was there
    events       \* kills and writes so far

data == <<action, url, instruction, counts, search, found>>
vars == <<columns, counting, triggers, data, pc, noted, early, events>>

Says(r) == [title |-> r.title, mode |-> r.mode, result |-> r.result]

Text(a) == Says(action[a])

TypeOK ==
    /\ columns \subseteq Columns
    /\ counting \in Counting
    /\ triggers \subseteq SearchTriggers
    /\ \A a \in Actions : action[a] # None => action[a] \in Row
    /\ url \subseteq Tasks
    /\ instruction \in BOOLEAN
    /\ DOMAIN counts \subseteq Tasks /\ \A t \in DOMAIN counts : counts[t] \in Int
    /\ \A a \in Actions : search[a] # None => search[a] \in Entry
    /\ \A t \in Tasks : found[t] # None => found[t] \in BOOLEAN
    /\ pc \in [Procs -> {<<0, "off">>} \cup ((1..Len(Steps)) \X {"check", "alter", "write", "drop"})
                        \cup {<<Len(Steps) + 1, "check">>}]
    /\ noted \in [Procs -> [stale : BOOLEAN, urls : SUBSET Tasks]]
    /\ early \subseteq Actions
    /\ events \in 0..MaxEvents

ActionsUnder(t) == {a \in Actions : action[a] # None /\ action[a].task = t}

\* INSERT INTO task_action_counts SELECT ... GROUP BY.
Recount == [t \in {u \in Tasks : ActionsUnder(u) # {}} |-> Cardinality(ActionsUnder(t))]

Init ==
    \E v \in Versions :
        /\ columns = v.columns
        /\ counting = v.counting
        /\ triggers = {}
        /\ \E home \in [Old -> Tasks] :
              action = [a \in Actions |-> IF a \in Old
                            THEN [task  |-> home[a], mode |-> "experimental_bg", result |-> "empty",
                                  title |-> IF "actions.title" \in v.columns THEN "given" ELSE "blank"]
                            ELSE None]
        /\ url = IF "tasks.url" \in v.columns THEN {} ELSE Tasks
        /\ instruction = ("schedules.prompt_id" \notin v.columns)
        /\ counts = IF v.counting = "none" THEN <<>> ELSE Recount
        /\ search = [a \in Actions |-> None]
        /\ found = [t \in Tasks |-> None]
        /\ pc = [p \in Procs |-> <<0, "off">>]
        /\ noted = [p \in Procs |-> [stale |-> FALSE, urls |-> {}]]
        /\ early = {}
        /\ events = 0

-----------------------------------------------------------------------------
(* Rows, and the triggers that follow them.                                *)

\* trg_actions_fts_insert and _update, each from when it is there: written
\* rows are found by their new text, rows that are left alone as before.
Fires(a) == (IF action[a] = None THEN "insert trigger" ELSE "update trigger") \in triggers

WriteActions(new) ==
    /\ action' = new
    /\ search' = [a \in Actions |->
          IF new[a] # action[a] /\ Fires(a) THEN Says(new[a]) ELSE search[a]]

\* trg_tasks_fts_update.
WriteUrls(S) ==
    /\ url' = url \cup S
    /\ found' = [t \in Tasks |-> IF "task trigger" \in triggers /\ t \in S THEN TRUE ELSE found[t]]

Rows(t) == IF t \in DOMAIN counts THEN counts[t] ELSE 0

\* trg_actions_count_insert: the row of t is made when there is none.
CountInsert(t) ==
    counts' = IF counting = "none" THEN counts
              ELSE [u \in DOMAIN counts \cup {t} |-> Rows(u) + IF u = t THEN 1 ELSE 0]

\* trg_actions_count_update; the stale one fires on status alone.
CountRefile(from, to) ==
    counts' = IF counting # "current" THEN counts
              ELSE [u \in DOMAIN counts \cup {to} |->
                       Rows(u) + (IF u = to THEN 1 ELSE 0) - (IF u = from THEN 1 ELSE 0)]

-----------------------------------------------------------------------------
(* One process.                                                            *)

StepOf(p)   == Steps[pc[p][1]]
Migrating(p) == pc[p][1] \in 1..Len(Steps)
Done(p)     == pc[p][1] = Len(Steps) + 1

At(p, how, phase) == Migrating(p) /\ StepOf(p).how = how /\ pc[p][2] = phase

Goto(p, phase) == pc' = [pc EXCEPT ![p] = <<pc[p][1], phase>>]
NextStep(p)    == pc' = [pc EXCEPT ![p] = <<pc[p][1] + 1, "check">>]

\* (Mutant of Fail: the process stops at the step that failed.)
FailInPlace(p) == pc' = [pc EXCEPT ![p] = <<pc[p][1], "off">>]

\* A statement is refused, Migrate returns the error and the command ends;
\* somebody runs another one.
Fail(p) == pc' = [pc EXCEPT ![p] = <<0, "off">>]

schema == <<columns, counting, triggers>>
bounds == <<early, events>>

Start(p) ==
    /\ pc[p][1] = 0
    /\ pc' = [pc EXCEPT ![p] = <<1, "check">>]
    /\ noted' = [noted EXCEPT ![p] = [stale |-> FALSE, urls |-> {}]]
    /\ UNCHANGED <<schema, data, bounds>>

\* dropStaleCountUpdateTrigger, two statements.
ReadTrigger(p) ==
    /\ At(p, "stale trigger", "check")
    /\ IF counting = "stale" THEN Goto(p, "drop") ELSE NextStep(p)
    /\ UNCHANGED <<schema, data, noted, bounds>>

DropTrigger(p) ==
    /\ At(p, "stale trigger", "drop")
    /\ counting' = IF counting \in {"stale", "current"} THEN "dropped" ELSE counting
    /\ noted' = [noted EXCEPT ![p].stale = TRUE]
    /\ NextStep(p)
    /\ UNCHANGED <<columns, triggers, data, bounds>>

\* schema.sql, statement by statement, everything IF NOT EXISTS.  The table
\* of counts and its trigger on insert: without the trigger the table is of no
\* consequence.  Then the trigger on update.
CreateCounts(p) ==
    /\ \/ At(p, "counts table", "check")
          /\ counting' = IF counting = "none" THEN "dropped" ELSE counting
       \/ At(p, "counts trigger", "check")
          /\ counting' = IF counting = "dropped" THEN "current" ELSE counting
    /\ NextStep(p)
    /\ UNCHANGED <<columns, triggers, data, noted, bounds>>

\* The search indexes come before all their triggers: without one an index is
\* of no consequence either.
CreateSearch(p) ==
    /\ \E t \in SearchTriggers : At(p, t, "check") /\ triggers' = triggers \cup {t}
    /\ NextStep(p)
    /\ UNCHANGED <<columns, counting, data, noted, bounds>>

\* (Mutant of CheckColumn: nothing is asked of the catalogue.)
CheckNothing(p) ==
    /\ \E how \in {"drop", "rename", "add"} : At(p, how, "check")
    /\ IF StepOf(p).how = "add" \/ StepOf(p).column \in columns THEN Goto(p, "alter") ELSE NextStep(p)
    /\ UNCHANGED <<schema, data, noted, bounds>>

\* hasColumn.
CheckColumn(p) ==
    /\ \E how \in {"drop", "rename", "add"} : At(p, how, "check")
    /\ IF (StepOf(p).column \in columns) = (StepOf(p).how = "add")
       THEN NextStep(p) ELSE Goto(p, "alter")
    /\ UNCHANGED <<schema, data, noted, bounds>>

\* The triggers on actions name the title.  SQLite parses a trigger when it
\* fires, and every trigger when a column is dropped or renamed.
Resolves(S) == S \cap triggers # {} => "actions.title" \in columns

TriggersResolve == Resolves({"insert trigger", "update trigger"})

\* Would ALTER TABLE go through now.
Alterable(s) ==
    \/ s.how = "add" /\ s.column \notin columns
    \/ s.how \in {"drop", "rename"} /\ s.column \in columns /\ s.to \notin columns /\ TriggersResolve

Filled == {"tasks.work_dir", "actions.title"}

AlterColumn(p) ==
    LET s == StepOf(p)
    IN  /\ \E how \in {"drop", "rename", "add"} : At(p, how, "alter")
        /\ IF Alterable(s)
           THEN /\ columns' = IF s.how = "add" THEN columns \cup {s.column}
                              ELSE (columns \ {s.column}) \cup ({s.to} \ {"nothing"})
                /\ IF s.column \in Filled THEN Goto(p, "write") ELSE NextStep(p)
           ELSE Fail(p) /\ UNCHANGED columns
        /\ UNCHANGED <<counting, triggers, data, noted, bounds>>

\* The statement that fills a new column from an old one, where it is blank;
\* the directory of a task is not in the model.
FillColumn(p) ==
    /\ At(p, "add", "write")
    /\ IF StepOf(p).column # "actions.title"
       THEN NextStep(p) /\ UNCHANGED <<action, search>>
       ELSE IF "actions.prompt_id" \in columns
       THEN /\ WriteActions([a \in Actions |->
                IF action[a] # None /\ action[a].title = "blank"
                THEN [action[a] EXCEPT !.title = "given"] ELSE action[a]])
            /\ NextStep(p)
       ELSE Fail(p) /\ UNCHANGED <<action, search>>
    /\ UNCHANGED <<schema, url, instruction, counts, found, noted, bounds>>

\* (Mutant of CheckInstruction: the fill goes with the ADD, as for the other columns.)
CheckInstructionOnce(p) ==
    /\ At(p, "instruction", "check")
    /\ IF "schedules.prompt_id" \notin columns THEN NextStep(p)
       ELSE IF "schedules.instruction" \in columns THEN Goto(p, "drop") ELSE Goto(p, "alter")
    /\ UNCHANGED <<schema, data, noted, bounds>>

\* prompt_id becomes instruction.  The fill is not tied to the ADD: it is
\* issued as long as the old column is there.
CheckInstruction(p) ==
    /\ At(p, "instruction", "check")
    /\ IF "schedules.prompt_id" \notin columns THEN NextStep(p)
       ELSE IF "schedules.instruction" \in columns THEN Goto(p, "write") ELSE Goto(p, "alter")
    /\ UNCHANGED <<schema, data, noted, bounds>>

MigrateInstruction(p) ==
    /\ \/ /\ At(p, "instruction", "alter")
          /\ IF "schedules.instruction" \in columns THEN Fail(p) /\ UNCHANGED columns
             ELSE Goto(p, "write") /\ columns' = columns \cup {"schedules.instruction"}
          /\ UNCHANGED instruction
       \/ /\ At(p, "instruction", "write")
          /\ IF "schedules.prompt_id" \notin columns THEN Fail(p) /\ UNCHANGED instruction
             ELSE Goto(p, "drop") /\ instruction' = TRUE
          /\ UNCHANGED columns
       \/ /\ At(p, "instruction", "drop")
          /\ IF "schedules.prompt_id" \notin columns \/ ~TriggersResolve
             THEN Fail(p) /\ UNCHANGED columns
             ELSE NextStep(p) /\ columns' = columns \ {"schedules.prompt_id"}
          /\ UNCHANGED instruction
    /\ UNCHANGED <<counting, triggers, action, url, counts, search, found, noted, bounds>>

\* The url goes into the metadata of each task that has none there, one
\* statement each; then the column goes.
CheckUrl(p) ==
    /\ At(p, "url", "check")
    /\ IF "tasks.url" \in columns THEN Goto(p, "alter") ELSE NextStep(p)
    /\ UNCHANGED <<schema, data, noted, bounds>>

\* (Mutant of LoopEnds: an update that fails ends the loop, not the migration.)
LoopBreaks(p) == TRUE

LoopEnds(p) == noted[p].urls = {}

MigrateUrl(p) ==
    /\ \/ /\ At(p, "url", "alter")
          /\ IF "tasks.url" \notin columns THEN Fail(p) /\ UNCHANGED noted
             ELSE Goto(p, "write") /\ noted' = [noted EXCEPT ![p].urls = Tasks \ url]
          /\ UNCHANGED <<columns, url, found>>
       \/ /\ At(p, "url", "write")
          /\ noted[p].urls # {}
          /\ \E t \in noted[p].urls :
                /\ WriteUrls({t})
                /\ noted' = [noted EXCEPT ![p].urls = @ \ {t}]
          /\ UNCHANGED <<columns, pc>>
       \/ /\ At(p, "url", "write")
          /\ LoopEnds(p)
          /\ Goto(p, "drop")
          /\ UNCHANGED <<columns, url, found, noted>>
       \/ /\ At(p, "url", "drop")
          /\ IF "tasks.url" \notin columns \/ ~TriggersResolve THEN Fail(p) /\ UNCHANGED columns
             ELSE NextStep(p) /\ columns' = columns \ {"tasks.url"}
          /\ UNCHANGED <<url, found, noted>>
    /\ UNCHANGED <<counting, triggers, action, instruction, counts, search, bounds>>

\* migrateExperimentalBgToInteractive, one transaction, whatever the status
\* of an action is.
MigrateModes(p) ==
    /\ At(p, "modes", "check")
    /\ WriteActions([a \in Actions |-> IF action[a] = None THEN None
                                       ELSE [action[a] EXCEPT !.mode = "interactive"]])
    /\ NextStep(p)
    /\ UNCHANGED <<schema, url, instruction, counts, found, noted, bounds>>

\* rebuildTaskActionCounts, by the process that has dropped the stale trigger.
RebuildCounts(p) ==
    /\ At(p, "rebuild counts", "check")
    /\ counts' = IF noted[p].stale THEN Recount ELSE counts
    /\ NextStep(p)
    /\ UNCHANGED <<schema, action, url, instruction, search, found, noted, bounds>>

\* backfillTaskActionCounts, when the table has no row at all.
BackfillCounts(p) ==
    /\ At(p, "backfill counts", "check")
    /\ counts' = IF DOMAIN counts = {} THEN Recount ELSE counts
    /\ NextStep(p)
    /\ UNCHANGED <<schema, action, url, instruction, search, found, noted, bounds>>

\* backfillSearchFTS: the rows the index does not know.
IndexTasks(p) ==
    /\ At(p, "index tasks", "check")
    /\ found' = [t \in Tasks |-> IF found[t] = None THEN t \in url ELSE found[t]]
    /\ NextStep(p)
    /\ UNCHANGED <<schema, action, url, instruction, counts, search, noted, bounds>>

\* (Mutant of IndexActions: all or nothing, as for the counts.)
IndexActionsOnce(p) ==
    /\ At(p, "index actions", "check")
    /\ search' = [a \in Actions |-> IF action[a] # None /\ \A b \in Actions : search[b] = None
                                    THEN Text(a) ELSE search[a]]
    /\ NextStep(p)
    /\ UNCHANGED <<schema, action, url, instruction, counts, found, noted, bounds>>

IndexActions(p) ==
    /\ At(p, "index actions", "check")
    /\ search' = [a \in Actions |-> IF action[a] # None /\ search[a] = None
                                    THEN Text(a) ELSE search[a]]
    /\ NextStep(p)
    /\ UNCHANGED <<schema, action, url, instruction, counts, found, noted, bounds>>

Migrate(p) ==
    \/ ReadTrigger(p) \/ DropTrigger(p) \/ CreateCounts(p) \/ CreateSearch(p)
    \/ CheckColumn(p) \/ AlterColumn(p) \/ FillColumn(p)
    \/ CheckInstruction(p) \/ MigrateInstruction(p) \/ CheckUrl(p) \/ MigrateUrl(p)
    \/ MigrateModes(p) \/ RebuildCounts(p) \/ BackfillCounts(p) \/ IndexTasks(p) \/ IndexActions(p)

Crash(p) ==
    /\ Migrating(p)
    /\ events < MaxEvents
    /\ events' = events + 1
    /\ Fail(p)
    /\ UNCHANGED <<schema, data, noted, early>>

-----------------------------------------------------------------------------
(* Commands that were at work before: they insert actions, edit what they *)
(* say, and file them under another task.                                  *)

Insert(a, t) ==
    /\ action[a] = None
    /\ Resolves({"insert trigger"})
    /\ WriteActions([action EXCEPT ![a] = [task |-> t, mode |-> "interactive", result |-> "empty",
                        title |-> IF "actions.title" \in columns THEN "given" ELSE "blank"]])
    /\ CountInsert(t)
    /\ early' = IF Fires(a) /\ "update trigger" \notin triggers THEN early \cup {a} ELSE early

\* An action ends with a result, or `tq action update --title`; other edits of
\* the metadata are like them.
Edit(a) ==
    /\ action[a] # None
    /\ Resolves({"update trigger"})
    /\ \/ WriteActions([action EXCEPT ![a].result = "reported"])
       \/ "actions.title" \in columns /\ WriteActions([action EXCEPT ![a].title = "edited"])
    /\ UNCHANGED <<counts, early>>

Refile(a, t) ==
    /\ action[a] # None /\ action[a].task # t
    /\ action' = [action EXCEPT ![a].task = t]
    /\ CountRefile(action[a].task, t)
    /\ UNCHANGED <<search, early>>

Write ==
    /\ events < MaxEvents
    /\ events' = events + 1
    /\ \E a \in Actions :
          Edit(a) \/ \E t \in Tasks : Insert(a, t) \/ Refile(a, t)
    /\ UNCHANGED <<schema, url, instruction, found, pc, noted>>

Next ==
    \/ \E p \in Procs : Start(p) \/ Migrate(p) \/ Crash(p)
    \/ Write

\* A command that has started goes on, and after one that failed somebody
\* runs the next.
Spec == Init /\ [][Next]_vars /\ \A p \in Procs : WF_vars(Start(p) \/ Migrate(p))

-----------------------------------------------------------------------------
\* No schedule loses its instruction, wherever a migration is killed and
\* whoever else migrates (db/db.go:203-220).
InstructionKept == "schedules.prompt_id" \notin columns => instruction

\* No task loses its url: the column goes only when every metadata has it
\* (db/db.go:230-280).
UrlKept == "tasks.url" \notin columns => url = Tasks

\* Once one migration has come to its end, each task and each action is found,
\* and by what it says now, whether the backfill, a trigger or both have put it
\* there (db/db.go:377-381).  Only an action inserted between the triggers on
\* insert and on update may be found by what it said before an edit: nothing
\* has seen the edit, and the backfill leaves alone what is in the index
\* (db/db.go:387-389).
SearchComplete ==
    (\E p \in Procs : Done(p)) =>
        /\ \A a \in Actions : action[a] # None => search[a] # None
        /\ \A a \in Actions \ early : action[a] # None => search[a] = Text(a)
        /\ \A t \in Tasks : found[t] = (t \in url)

\* Every command gets past the migration in the end: what an interrupted or
\* a competing one has done already is no error for ever
\* (db/db.go:115-322, "idempotent").
Converges == <>(\A p \in Procs : Done(p))

\* What the backfill takes for granted: "if the table already has rows,
\* triggers have been keeping it in sync" (db/db.go:440-441).
CountsInSync ==
    (\E p \in Procs : Done(p)) =>
        \A t \in Tasks : Rows(t) = Cardinality(ActionsUnder(t))
=============================================================================
