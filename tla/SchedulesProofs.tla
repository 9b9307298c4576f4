-------------------------- MODULE SchedulesProofs --------------------------
(***************************************************************************)
(* Proofs about module Schedules, for any number of operators, workers and *)
(* rows: the table of counts agrees with the actions it counts; the types; *)
(* with one worker, the actions of a schedule do not overlap, and there    *)
(* are no more of them than instants it may have run for.                  *)
(*                                                                         *)
(* CountsExact is nearly inductive.  A statement that writes actions keeps *)
(* it, whichever they are, as long as the rows it writes are rows of the   *)
(* table; for `tq action update --task`, which writes to the action it has *)
(* checked, that is what CommandsKnow adds.  The last two rest on what a   *)
(* tick has checked being still so when it writes (FoundFree, Paid), which *)
(* holds when no other tick can do the same.                               *)
(***************************************************************************)
EXTENDS Schedules, TLAPS, FiniteSetTheorems

\* A command that is about to file an action under another task has one.
CommandsKnow ==
    /\ cmd = [o \in Operators |-> cmd[o]]
    /\ \A o \in Operators : At(o, "reassign") => cmd[o].id \in Actions

-----------------------------------------------------------------------------
(* The triggers.                                                           *)

\* Rows that leave a finite set and others that enter it, counted.
LEMMA LeaveAndEnter ==
    ASSUME NEW A, IsFiniteSet(A), NEW L, L \subseteq A,
           NEW E, IsFiniteSet(E), E \cap A = {}
    PROVE  Cardinality((A \ L) \cup E) = Cardinality(A) + Cardinality(E) - Cardinality(L)
<1>1. A \cap L = L /\ (A \ L) \cap E = {}
  OBVIOUS
<1>2. /\ IsFiniteSet(A \ L)
      /\ Cardinality(A \ L) = Cardinality(A) - Cardinality(L)
  BY <1>1, FS_Difference
<1>3. Cardinality((A \ L) \cap E) = 0
  BY <1>1, FS_EmptySet
<1>4. Cardinality((A \ L) \cup E)
        = Cardinality(A \ L) + Cardinality(E) - Cardinality((A \ L) \cap E)
  BY <1>2, FS_Union
<1>5. /\ Cardinality(A) \in Nat /\ Cardinality(E) \in Nat
      /\ IsFiniteSet(L) /\ Cardinality(L) \in Nat
  BY FS_CardinalityType, FS_Subset
<1>. QED
  BY <1>2, <1>3, <1>4, <1>5

\* A statement that writes actions keeps the counts exact.
LEMMA WritesCounted ==
    ASSUME IsFiniteSet(Actions), CountsExact,
           NEW new, DOMAIN new \subseteq Actions, WriteActions(new)
    PROVE  CountsExact'
<1>. SUFFICES ASSUME NEW t \in Tasks, NEW st \in Statuses
              PROVE  count'[t][st] = Cardinality(ActionsOf(t, st)')
  BY DEF CountsExact
<1>. DEFINE A == ActionsOf(t, st)
            E == Entering(new, t, st)
            L == Leaving(new, t, st)
<1>1. ActionsOf(t, st)' = (A \ L) \cup E
  <2>1. \A a \in Actions : action'[a] = IF a \in DOMAIN new THEN new[a] ELSE action[a]
    BY DEF WriteActions
  <2>. QED
    BY <2>1 DEF ActionsOf, Entering, Leaving
<1>2. /\ A \subseteq Actions /\ L \subseteq A
      /\ E \subseteq Actions /\ E \cap A = {}
  BY DEF ActionsOf, Entering, Leaving
<1>3. IsFiniteSet(A) /\ IsFiniteSet(E)
  BY <1>2, FS_Subset
<1>4. Cardinality((A \ L) \cup E) = Cardinality(A) + Cardinality(E) - Cardinality(L)
  <2>. HIDE DEF A, E, L
  <2>. QED
    BY <1>2, <1>3, LeaveAndEnter
<1>5. count'[t][st] = count[t][st] + Cardinality(E) - Cardinality(L)
  BY DEF WriteActions, Counted
<1>6. count[t][st] = Cardinality(A)
  BY DEF CountsExact
<1>. QED
  BY <1>1, <1>4, <1>5, <1>6

\* A cascade deletes the actions of the tasks whose counts it clears.
LEMMA CascadeCounted ==
    ASSUME CountsExact,
           NEW o \in Operators, NEW p \in Projects, DeleteProjectCascade(o, p)
    PROVE  CountsExact'
<1>. SUFFICES ASSUME NEW t \in Tasks, NEW st \in Statuses
              PROVE  count'[t][st] = Cardinality(ActionsOf(t, st)')
  BY DEF CountsExact
<1>. DEFINE gone == {u \in Tasks : LiveTask(u) /\ task[u].project = p}
<1>1. \A a \in Actions : action'[a] = IF LiveAction(a) /\ action[a].task \in gone
                                      THEN DeletedAction(a) ELSE action[a]
  BY DEF DeleteProjectCascade
<1>2. None \notin Tasks /\ st \in ActionStatus
  BY IdsAssumption, StatusAssumption
<1>3. count'[t][st] = IF t \in gone THEN 0 ELSE count[t][st]
  BY DEF DeleteProjectCascade
<1>. HIDE DEF gone
<1>4. ASSUME NEW a \in Actions
      PROVE  \/ action'[a].task = None /\ action[a].task \in gone
             \/ action'[a] = action[a] /\ (LiveAction(a) => action[a].task \notin gone)
  <2>1. CASE LiveAction(a) /\ action[a].task \in gone
    <3>1. action'[a] = DeletedAction(a)
      BY <1>1, <2>1
    <3>. QED
      BY <2>1, <3>1 DEF DeletedAction
  <2>2. CASE ~(LiveAction(a) /\ action[a].task \in gone)
    BY <1>1, <2>2
  <2>. QED
    BY <2>1, <2>2
<1>5. CASE t \in gone
  <2>1. ActionsOf(t, st)' = {}
    BY <1>2, <1>4, <1>5 DEF ActionsOf, LiveAction
  <2>. QED
    BY <1>3, <1>5, <2>1, FS_EmptySet
<1>6. CASE t \notin gone
  <2>1. ActionsOf(t, st)' = ActionsOf(t, st)
    <3>1. ASSUME NEW a \in Actions
          PROVE  a \in ActionsOf(t, st)' <=> a \in ActionsOf(t, st)
      BY <1>2, <1>4, <1>6 DEF ActionsOf
    <3>. QED
      BY <3>1 DEF ActionsOf
  <2>. QED
    BY <1>3, <1>6, <2>1 DEF CountsExact
<1>. QED
  BY <1>5, <1>6

-----------------------------------------------------------------------------
(* The commands and the tick.                                              *)

\* The start.
LEMMA InitCounts == Init => CountsExact /\ CommandsKnow
<1>. SUFFICES ASSUME Init PROVE CountsExact /\ CommandsKnow
  OBVIOUS
<1>1. CountsExact
  <2>. SUFFICES ASSUME NEW t \in Tasks, NEW st \in Statuses
                PROVE  count[t][st] = Cardinality(ActionsOf(t, st))
    BY DEF CountsExact
  <2>1. count[t][st] = 0
    BY DEF Init, BoardInit
  <2>2. ActionsOf(t, st) = {}
    BY IdsAssumption DEF Init, BoardInit, ActionsOf
  <2>. QED
    BY <2>1, <2>2, FS_EmptySet
<1>2. CommandsKnow
  BY DEF Init, BoardInit, CommandsKnow, At
<1>. QED
  BY <1>1, <1>2

\* What leaves the actions and their counts alone keeps them exact.
LEMMA UnwrittenCounted == CountsExact /\ UNCHANGED <<action, count>> => CountsExact'
BY DEF CountsExact, ActionsOf

\* Each step of a command keeps the counts, and what the commands know.
LEMMA TaskCommandCounted ==
    ASSUME IsFiniteSet(Actions), CountsExact, CommandsKnow,
           NEW o \in Operators, TaskCommand(o)
    PROVE  (CountsExact /\ CommandsKnow)'
<1>1. ASSUME NEW p \in Projects,
             CreateProject(o, p) \/ DeleteProject(o, p) \/ DeleteProjectCascade(o, p)
      PROVE  (CountsExact /\ CommandsKnow)'
  <2>1. CountsExact'
    BY <1>1, CascadeCounted, UnwrittenCounted DEF CreateProject, DeleteProject
  <2>2. CommandsKnow'
    BY <1>1 DEF CreateProject, DeleteProject, DeleteProjectCascade, CommandsKnow, At
  <2>. QED
    BY <2>1, <2>2
<1>2. ASSUME NEW t \in Tasks, NEW p \in Projects, CreateTask(o, t, p) \/ UpdateTask(o, t, p)
      PROVE  (CountsExact /\ CommandsKnow)'
  BY <1>2, UnwrittenCounted DEF CreateTask, UpdateTask, CommandsKnow, At
<1>3. ASSUME NEW t \in Tasks, CloseCheckSchedules(o, t) \/ CreateCheck(o, t)
      PROVE  (CountsExact /\ CommandsKnow)'
  <2>1. \E op \in {"closeCounts", "create"} : Step(o, op, t, None)
    BY <1>3 DEF CloseCheckSchedules, CreateCheck
  <2>2. UNCHANGED <<action, count>>
    BY <1>3 DEF CloseCheckSchedules, CreateCheck, board
  <2>. QED
    BY <2>1, <2>2, UnwrittenCounted DEF Step, CommandsKnow, At
<1>4. ASSUME CloseCheckCounts(o) \/ CloseWrite(o)
      PROVE  (CountsExact /\ CommandsKnow)'
  BY <1>4, UnwrittenCounted DEF CloseCheckCounts, CloseWrite, Step, Finish, board, CommandsKnow, At
<1>5. ASSUME CreateWrite(o) \/ ResumeWrite(o)
      PROVE  (CountsExact /\ CommandsKnow)'
  <2>1. PICK a \in ByHand, st \in ActionStatus : InsertAction(a, cmd[o].task, st, None)
    BY <1>5, StatusAssumption DEF CreateWrite, ResumeWrite, ActionStatus, Active
  <2>2. CountsExact'
    BY <2>1, WritesCounted, IdsAssumption DEF InsertAction, WriteAction
  <2>3. CommandsKnow'
    BY <1>5 DEF CreateWrite, ResumeWrite, Finish, CommandsKnow, At
  <2>. QED
    BY <2>2, <2>3
<1>6. ASSUME NEW a \in Actions, NEW t \in Tasks, ReassignCheck(o, a, t)
      PROVE  (CountsExact /\ CommandsKnow)'
  BY <1>6, UnwrittenCounted DEF ReassignCheck, Step, board, CommandsKnow, At
<1>7. ASSUME ReassignWrite(o)
      PROVE  (CountsExact /\ CommandsKnow)'
  <2>1. cmd[o].id \in Actions
    BY <1>7 DEF ReassignWrite, CommandsKnow
  <2>2. CountsExact'
    BY <1>7, <2>1, WritesCounted, UnwrittenCounted DEF ReassignWrite, WriteAction
  <2>3. CommandsKnow'
    BY <1>7 DEF ReassignWrite, Finish, CommandsKnow, At
  <2>. QED
    BY <2>2, <2>3
<1>8. ASSUME NEW a \in Actions, ResumeRead(o, a)
      PROVE  (CountsExact /\ CommandsKnow)'
  BY <1>8, UnwrittenCounted DEF ResumeRead, Step, board, CommandsKnow, At
<1>9. ASSUME Refused(o)
      PROVE  (CountsExact /\ CommandsKnow)'
  BY <1>9, UnwrittenCounted DEF Refused, Finish, board, CommandsKnow, At
<1>. QED
  BY <1>1, <1>2, <1>3, <1>4, <1>5, <1>6, <1>7, <1>8, <1>9 DEF TaskCommand

\* The schedules' commands write no action.
LEMMA ScheduleCommandCounted ==
    ASSUME CountsExact, CommandsKnow, NEW o \in Operators, ScheduleCommand(o)
    PROVE  (CountsExact /\ CommandsKnow)'
<1>1. UNCHANGED <<action, count>>
  BY DEF ScheduleCommand, CreateScheduleCheck, CreateScheduleWrite, EnableRead, EnableEnsure,
         EnableWrite, DisableSchedule, DeleteSchedule, EditSchedule, MoveScheduleCheck,
         MoveScheduleWrite, Refused, board
<1>2. CommandsKnow'
  <2>1. \/ UNCHANGED cmd
        \/ Finish(o)
        \/ \E op, t, i : op # "reassign" /\ Step(o, op, t, i)
    BY DEF ScheduleCommand, CreateScheduleCheck, CreateScheduleWrite, EnableRead, EnableEnsure,
           EnableWrite, DisableSchedule, DeleteSchedule, EditSchedule, MoveScheduleCheck,
           MoveScheduleWrite, Refused
  <2>. QED
    BY <2>1 DEF Finish, Step, CommandsKnow, At
<1>. QED
  BY <1>1, <1>2, UnwrittenCounted

\* The statuses of actions move, and the worker's tick inserts actions.
LEMMA OthersCounted ==
    ASSUME IsFiniteSet(Actions), CountsExact,
           \/ Progress
           \/ \E w \in Workers : Tick(w) \/ TickAborts(w)
           \/ Advance
    PROVE  CountsExact'
<1>1. ASSUME NEW a \in Actions, ResetAction(a) \/ \E st \in Statuses : MoveStatus(a, st)
      PROVE  CountsExact'
  BY <1>1, WritesCounted DEF MoveStatus, ResetAction, WriteAction
<1>2. ASSUME NEW w \in Workers, TickInsert(w)
      PROVE  CountsExact'
  <2>1. PICK new : DOMAIN new \subseteq ByTick /\ WriteActions(new)
    BY <1>2 DEF TickInsert, InsertScheduled
  <2>. QED
    BY <2>1, WritesCounted, IdsAssumption
<1>3. ASSUME NEW w \in Workers, (Tick(w) /\ ~TickInsert(w)) \/ TickAborts(w)
      PROVE  CountsExact'
  BY <1>3, UnwrittenCounted DEF Tick, TickList, TickTasks, TickActive, TickErrors, TickRefused,
                                TickAborts, board
<1>4. ASSUME Advance
      PROVE  CountsExact'
  BY <1>4, UnwrittenCounted DEF Advance, board
<1>. QED
  BY <1>1, <1>2, <1>3, <1>4 DEF Progress

-----------------------------------------------------------------------------
(* The theorem.                                                            *)

\* The table of counts agrees with the actions of each task, for any number of
\* operators, workers, tasks and schedules, whatever their commands and ticks
\* insert, move, reassign and delete (db/schema.sql:69-107).  The count of the
\* code is one of a finite table.
THEOREM CountsAlwaysExact ==
    ASSUME IsFiniteSet(Actions)
    PROVE  Spec => []CountsExact
<1>1. CountsExact /\ CommandsKnow /\ [Next]_vars => (CountsExact /\ CommandsKnow)'
  <2>. SUFFICES ASSUME CountsExact, CommandsKnow, [Next]_vars
                PROVE  (CountsExact /\ CommandsKnow)'
    OBVIOUS
  <2>1. CASE \E o \in Operators : TaskCommand(o) \/ ScheduleCommand(o)
    BY <2>1, TaskCommandCounted, ScheduleCommandCounted
  <2>2. CASE Progress \/ (\E w \in Workers : Tick(w) \/ TickAborts(w)) \/ Advance
    <3>1. CountsExact'
      BY <2>2, OthersCounted
    <3>2. UNCHANGED cmd
      BY <2>2 DEF Progress, MoveStatus, ResetAction, Tick, TickList, TickTasks, TickActive,
                  TickErrors, TickInsert, TickRefused, TickAborts, Advance
    <3>. QED
      BY <3>1, <3>2 DEF CommandsKnow, At
  <2>3. CASE UNCHANGED vars
    BY <2>3, UnwrittenCounted DEF vars, board, CommandsKnow, At
  <2>. QED
    BY <2>1, <2>2, <2>3 DEF Next
<1>. QED
  BY <1>1, InitCounts, PTL DEF Spec

-----------------------------------------------------------------------------
(* Types.  A command past its check of a task has one, an enabling command *)
(* its schedule, a live schedule its task and its cron expression, and a    *)
(* live action its task.                                                   *)

FiledRow == {r \in ActionRow : r.status \in ActionStatus => r.task \in Tasks}

RowsTyped ==
    /\ project \in [Projects -> ProjectRow]
    /\ task \in [Tasks -> TaskRow]
    /\ action \in [Actions -> FiledRow]

SchedulesTyped ==
    /\ schedule \in [Schedules -> ScheduleRow]
    /\ \A s \in Schedules : LiveSchedule(s) => schedule[s].task \in Tasks /\ schedule[s].cron \in Crons

CommandsTyped ==
    /\ cmd \in [Operators -> Command \cup {None}]
    /\ \A o \in Operators : cmd[o] # None =>
          /\ cmd[o].task \in Tasks
          /\ cmd[o].op = "reassign" => cmd[o].id \in Actions
          /\ cmd[o].op \in {"enableEnsure", "enable", "move"} => cmd[o].id \in Schedules

SeenTyped(r) ==
    /\ r.step \in TickSteps
    /\ r.now \in Time
    /\ DOMAIN r.seen \subseteq Schedules
    /\ \A s \in DOMAIN r.seen : r.seen[s] \in Seen

TicksTyped ==
    /\ tick = [w \in Workers |-> tick[w]]
    /\ \A w \in Workers : tick[w] # None => SeenTyped(tick[w])

ClockTyped == clock \in Time /\ faults \in 0..MaxFaults

Types == RowsTyped /\ SchedulesTyped /\ CommandsTyped /\ TicksTyped /\ ClockTyped

\* The start is well typed.
LEMMA InitTypes == Init => Types
<1>. SUFFICES ASSUME Init PROVE Types
  OBVIOUS
<1>1. RowsTyped
  BY DEF Init, BoardInit, RowsTyped, ProjectRow, TaskRow, FiledRow, ActionRow, Gone, ActionStatus,
         Active, Terminal
<1>2. SchedulesTyped
  BY TimeAssumption DEF Init, BoardInit, SchedulesTyped, ScheduleRow, Gone, LiveSchedule, Time
<1>3. CommandsTyped
  BY DEF Init, BoardInit, CommandsTyped
<1>4. TicksTyped
  BY DEF Init, TicksTyped
<1>5. ClockTyped
  BY TimeAssumption, FaultsAssumption DEF Init, ClockTyped, Time
<1>. QED
  BY <1>1, <1>2, <1>3, <1>4, <1>5 DEF Types

\* A row of the right type may be written.
LEMMA WritesTyped ==
    ASSUME RowsTyped, NEW new, WriteActions(new), \A a \in DOMAIN new : new[a] \in FiledRow
    PROVE  action' \in [Actions -> FiledRow]
BY DEF RowsTyped, WriteActions

\* Commands keep the rows of projects, tasks and actions well typed.
LEMMA TaskCommandRows ==
    ASSUME Types, NEW o \in Operators, TaskCommand(o)
    PROVE  RowsTyped'
<1>. USE DEF ProjectRow, TaskRow, Gone, TaskStatus
<1>1. ASSUME NEW p \in Projects, CreateProject(o, p) \/ DeleteProject(o, p)
      PROVE  RowsTyped'
  BY <1>1 DEF CreateProject, DeleteProject, RowsTyped, Types
<1>2. ASSUME NEW p \in Projects, DeleteProjectCascade(o, p)
      PROVE  RowsTyped'
  <2>1. project' \in [Projects -> ProjectRow]
    BY <1>2 DEF DeleteProjectCascade, RowsTyped, Types
  <2>2. task' \in [Tasks -> TaskRow]
    BY <1>2 DEF DeleteProjectCascade, RowsTyped, Types, DeletedTask
  <2>3. \A a \in Actions : DeletedAction(a) \in FiledRow
    BY DEF DeletedAction, FiledRow, ActionRow, RowsTyped, Types, Gone, ActionStatus, Active, Terminal
  <2>4. action' \in [Actions -> FiledRow]
    BY <1>2, <2>3 DEF DeleteProjectCascade, RowsTyped, Types
  <2>. QED
    BY <2>1, <2>2, <2>4 DEF RowsTyped
<1>3. ASSUME NEW t \in Tasks, NEW p \in Projects, CreateTask(o, t, p) \/ UpdateTask(o, t, p)
      PROVE  RowsTyped'
  <2>1. PICK r \in TaskRow : task' = [task EXCEPT ![t] = r]
    <3>1. task[t] \in TaskRow
      BY DEF RowsTyped, Types
    <3>. QED
      BY <1>3, <3>1 DEF CreateTask, UpdateTask
  <2>. QED
    BY <1>3, <2>1 DEF CreateTask, UpdateTask, RowsTyped, Types
<1>4. ASSUME CloseWrite(o)
      PROVE  RowsTyped'
  <2>1. PICK p \in Projects : task' = [task EXCEPT ![cmd[o].task] = [status |-> "closed", project |-> p]]
    BY <1>4 DEF CloseWrite
  <2>. QED
    BY <1>4, <2>1 DEF CloseWrite, RowsTyped, Types
<1>5. ASSUME CreateWrite(o) \/ ResumeWrite(o)
      PROVE  RowsTyped'
  <2>1. PICK a \in ByHand, st \in ActionStatus : InsertAction(a, cmd[o].task, st, None)
    BY <1>5, StatusAssumption DEF CreateWrite, ResumeWrite, ActionStatus, Active
  <2>2. cmd[o].task \in Tasks
    BY <1>5 DEF CreateWrite, ResumeWrite, At, Types, CommandsTyped
  <2>3. [status |-> st, task |-> cmd[o].task, by |-> None, reset |-> FALSE] \in FiledRow
    BY <2>2 DEF FiledRow, ActionRow
  <2>4. action' \in [Actions -> FiledRow]
    BY <2>1, <2>3, WritesTyped DEF InsertAction, WriteAction, Types
  <2>. QED
    BY <1>5, <2>4 DEF CreateWrite, ResumeWrite, RowsTyped, Types
<1>6. ASSUME ReassignWrite(o)
      PROVE  RowsTyped'
  <2>1. cmd[o].task \in Tasks /\ cmd[o].id \in Actions
    BY <1>6 DEF ReassignWrite, At, Types, CommandsTyped
  <2>2. [action[cmd[o].id] EXCEPT !.task = cmd[o].task] \in FiledRow
    BY <2>1 DEF FiledRow, ActionRow, RowsTyped, Types
  <2>3. action' \in [Actions -> FiledRow]
    BY <1>6, <2>2, WritesTyped DEF ReassignWrite, WriteAction, RowsTyped, Types
  <2>. QED
    BY <1>6, <2>3 DEF ReassignWrite, RowsTyped, Types
<1>7. ASSUME UNCHANGED board
      PROVE  RowsTyped'
  BY <1>7 DEF board, RowsTyped, Types
<1>. QED
  BY <1>1, <1>2, <1>3, <1>4, <1>5, <1>6, <1>7
  DEF TaskCommand, CloseCheckSchedules, CloseCheckCounts, CreateCheck, ReassignCheck, ResumeRead,
      Refused

\* Statuses of actions move.
LEMMA ProgressRows ==
    ASSUME RowsTyped, Progress
    PROVE  RowsTyped'
<1>1. ASSUME NEW a \in Actions, NEW st \in Statuses, MoveStatus(a, st)
      PROVE  RowsTyped'
  <2>1. action[a].status \in ActionStatus
    BY <1>1 DEF MoveStatus, Moves, Active, Terminal, ActionStatus
  <2>2. [action[a] EXCEPT !.status = st] \in FiledRow
    BY <2>1, StatusAssumption DEF RowsTyped, FiledRow, ActionRow
  <2>3. action' \in [Actions -> FiledRow]
    BY <1>1, <2>2, WritesTyped DEF MoveStatus, WriteAction
  <2>. QED
    BY <1>1, <2>3 DEF MoveStatus, RowsTyped
<1>2. ASSUME NEW a \in Actions, ResetAction(a)
      PROVE  RowsTyped'
  <2>1. action[a].status \in ActionStatus /\ "pending" \in ActionStatus
    BY <1>2 DEF ResetAction, Active, Terminal, ActionStatus
  <2>2. [action[a] EXCEPT !.status = "pending", !.reset = action[a].by # None] \in FiledRow
    BY <2>1 DEF RowsTyped, FiledRow, ActionRow
  <2>3. action' \in [Actions -> FiledRow]
    BY <1>2, <2>2, WritesTyped DEF ResetAction, WriteAction
  <2>. QED
    BY <1>2, <2>3 DEF ResetAction, RowsTyped
<1>. QED
  BY <1>1, <1>2 DEF Progress

\* Commands keep the schedules well typed.
LEMMA CommandSchedules ==
    ASSUME Types, NEW o \in Operators, TaskCommand(o) \/ ScheduleCommand(o)
    PROVE  SchedulesTyped'
<1>. USE DEF LiveSchedule
<1>1. ASSUME NEW p \in Projects, DeleteProjectCascade(o, p)
      PROVE  SchedulesTyped'
  <2>1. \A s \in Schedules : DeletedSchedule(s) \in ScheduleRow /\ DeletedSchedule(s).status # "live"
    BY TimeAssumption DEF DeletedSchedule, ScheduleRow, Gone, Time, SchedulesTyped, Types
  <2>. QED
    BY <1>1, <2>1 DEF DeleteProjectCascade, SchedulesTyped, Types
<1>2. ASSUME CreateScheduleWrite(o)
      PROVE  SchedulesTyped'
  <2>1. cmd[o].task \in Tasks
    BY <1>2 DEF CreateScheduleWrite, At, CommandsTyped, Types
  <2>2. PICK s \in Schedules, c \in Crons, v \in BOOLEAN :
            schedule' = [schedule EXCEPT ![s] =
                [status |-> "live", task |-> cmd[o].task, enabled |-> TRUE,
                 cron |-> c, valid |-> v, base |-> clock, created |-> clock]]
    BY <1>2 DEF CreateScheduleWrite
  <2>3. [status |-> "live", task |-> cmd[o].task, enabled |-> TRUE,
         cron |-> c, valid |-> v, base |-> clock, created |-> clock] \in ScheduleRow
    BY <2>1 DEF ScheduleRow, ClockTyped, Types
  <2>. QED
    BY <2>1, <2>2, <2>3 DEF SchedulesTyped, Types
<1>3. ASSUME NEW s \in Schedules, DeleteSchedule(o, s)
      PROVE  SchedulesTyped'
  <2>1. DeletedSchedule(s) \in ScheduleRow /\ DeletedSchedule(s).status # "live"
    BY TimeAssumption DEF DeletedSchedule, ScheduleRow, Gone, Time, SchedulesTyped, Types
  <2>. QED
    BY <1>3, <2>1 DEF DeleteSchedule, SchedulesTyped, Types
<1>4. ASSUME NEW s \in Schedules, NEW r \in ScheduleRow,
             LiveSchedule(s) => r.task \in Tasks /\ r.cron \in Crons,
             r.status = schedule[s].status,
             schedule' = [schedule EXCEPT ![s] = r]
      PROVE  SchedulesTyped'
  BY <1>4 DEF SchedulesTyped, Types
<1>5. ASSUME NEW s \in Schedules, DisableSchedule(o, s)
      PROVE  SchedulesTyped'
  <2>. DEFINE r == [schedule[s] EXCEPT !.enabled = FALSE]
  <2>1. r \in ScheduleRow /\ r.status = schedule[s].status
    BY DEF ScheduleRow, SchedulesTyped, Types
  <2>2. r.task = schedule[s].task /\ r.cron = schedule[s].cron
    BY DEF ScheduleRow, SchedulesTyped, Types
  <2>3. schedule' = [schedule EXCEPT ![s] = r]
    BY <1>5 DEF DisableSchedule
  <2>. QED
    BY <1>4, <2>1, <2>2, <2>3 DEF SchedulesTyped, Types
<1>6. ASSUME NEW s \in Schedules, EditSchedule(o, s)
      PROVE  SchedulesTyped'
  <2>1. PICK c \in Crons, v \in BOOLEAN :
            schedule' = [schedule EXCEPT ![s].cron = c, ![s].valid = v]
    BY <1>6 DEF EditSchedule
  <2>. DEFINE r == [schedule[s] EXCEPT !.cron = c, !.valid = v]
  <2>2. r \in ScheduleRow /\ r.status = schedule[s].status
    BY DEF ScheduleRow, SchedulesTyped, Types
  <2>3. r.task = schedule[s].task /\ r.cron \in Crons
    BY DEF ScheduleRow, SchedulesTyped, Types
  <2>4. schedule' = [schedule EXCEPT ![s] = r]
    BY <2>1 DEF SchedulesTyped, Types
  <2>. QED
    BY <1>4, <2>2, <2>3, <2>4 DEF SchedulesTyped, Types
<1>7. ASSUME EnableWrite(o) \/ MoveScheduleWrite(o)
      PROVE  SchedulesTyped'
  <2>1. cmd[o].id \in Schedules /\ cmd[o].task \in Tasks
    BY <1>7 DEF EnableWrite, MoveScheduleWrite, At, CommandsTyped, Types
  <2>2. PICK s \in Schedules : s = cmd[o].id
    BY <2>1
  <2>. DEFINE enabled == [schedule[s] EXCEPT !.enabled = TRUE]
              moved   == [schedule[s] EXCEPT !.task = cmd[o].task]
  <2>3. /\ enabled \in ScheduleRow /\ enabled.status = schedule[s].status
        /\ moved \in ScheduleRow /\ moved.status = schedule[s].status
    BY <2>1 DEF ScheduleRow, SchedulesTyped, Types
  <2>4. /\ enabled.task = schedule[s].task /\ enabled.cron = schedule[s].cron
        /\ moved.task = cmd[o].task /\ moved.cron = schedule[s].cron
    BY DEF ScheduleRow, SchedulesTyped, Types
  <2>5. \/ UNCHANGED schedule
        \/ schedule' = [schedule EXCEPT ![s] = enabled]
        \/ schedule' = [schedule EXCEPT ![s] = moved]
    BY <1>7, <2>2 DEF EnableWrite, MoveScheduleWrite, UpdateRow
  <2>. HIDE DEF enabled, moved
  <2>. QED
    BY <1>4, <2>1, <2>3, <2>4, <2>5 DEF SchedulesTyped, Types
<1>8. ASSUME UNCHANGED schedule
      PROVE  SchedulesTyped'
  BY <1>8 DEF SchedulesTyped, Types
<1>9. CASE TaskCommand(o)
  BY <1>1, <1>8, <1>9
  DEF TaskCommand, CreateProject, DeleteProject, CreateTask, UpdateTask, CloseCheckSchedules,
      CloseCheckCounts, CloseWrite, CreateCheck, CreateWrite, ReassignCheck, ReassignWrite,
      ResumeRead, ResumeWrite, Refused, board
<1>10. CASE ScheduleCommand(o)
  BY <1>2, <1>3, <1>5, <1>6, <1>7, <1>8, <1>10
  DEF ScheduleCommand, CreateScheduleCheck, EnableRead, EnableEnsure, MoveScheduleCheck, Refused, board
<1>. QED
  BY <1>9, <1>10

\* A command goes on with a task it has found, or with the one it has.
LEMMA CommandCommands ==
    ASSUME Types, NEW o \in Operators, TaskCommand(o) \/ ScheduleCommand(o)
    PROVE  CommandsTyped'
<1>1. ASSUME NEW op \in Ops, NEW t \in Tasks, NEW i \in Actions \cup Schedules \cup {None},
             op = "reassign" => i \in Actions,
             op \in {"enableEnsure", "enable", "move"} => i \in Schedules,
             Step(o, op, t, i)
      PROVE  CommandsTyped'
  BY <1>1 DEF Step, Command, CommandsTyped, Types
<1>2. ASSUME Finish(o) \/ UNCHANGED cmd
      PROVE  CommandsTyped'
  BY <1>2 DEF Finish, CommandsTyped, Types
<1>3. ASSUME NEW t \in Tasks,
             \/ CloseCheckSchedules(o, t) \/ CreateCheck(o, t) \/ CreateScheduleCheck(o, t)
             \/ \E a \in Actions : ReassignCheck(o, a, t)
             \/ \E s \in Schedules : MoveScheduleCheck(o, s, t)
      PROVE  CommandsTyped'
  BY <1>1, <1>3 DEF CloseCheckSchedules, CreateCheck, CreateScheduleCheck, ReassignCheck,
                    MoveScheduleCheck, Ops
<1>4. ASSUME NEW a \in Actions, ResumeRead(o, a)
      PROVE  CommandsTyped'
  <2>1. action[a].task \in Tasks
    BY <1>4 DEF ResumeRead, ActionStatus, RowsTyped, FiledRow, Types
  <2>. QED
    BY <1>1, <1>4, <2>1 DEF ResumeRead, Ops
<1>5. ASSUME NEW s \in Schedules, EnableRead(o, s)
      PROVE  CommandsTyped'
  <2>1. schedule[s].task \in Tasks
    BY <1>5 DEF EnableRead, SchedulesTyped, Types
  <2>. QED
    BY <1>1, <1>5, <2>1 DEF EnableRead, Ops
<1>6. ASSUME CloseCheckCounts(o) \/ EnableEnsure(o)
      PROVE  CommandsTyped'
  <2>1. /\ cmd[o].task \in Tasks
        /\ cmd[o].op = "enableEnsure" => cmd[o].id \in Schedules
    BY <1>6 DEF CloseCheckCounts, EnableEnsure, At, CommandsTyped, Types
  <2>. QED
    BY <1>1, <1>2, <1>6, <2>1 DEF CloseCheckCounts, EnableEnsure, At, Ops
<1>7. CASE TaskCommand(o)
  BY <1>2, <1>3, <1>4, <1>6, <1>7
  DEF TaskCommand, CreateProject, DeleteProject, DeleteProjectCascade, CreateTask, UpdateTask,
      CloseWrite, CreateWrite, ReassignWrite, ResumeWrite, Refused
<1>8. CASE ScheduleCommand(o)
  BY <1>2, <1>3, <1>5, <1>6, <1>8
  DEF ScheduleCommand, CreateScheduleWrite, EnableWrite, DisableSchedule, DeleteSchedule,
      EditSchedule, MoveScheduleWrite, Refused
<1>. QED
  BY <1>7, <1>8

\* The update of last_run_at keeps types, and nothing else changes.
LEMMA RanAtTyped ==
    ASSUME SchedulesTyped, NEW S, NEW now \in Time, RanAt(S, now)
    PROVE  /\ SchedulesTyped'
           /\ \A s \in Schedules : /\ schedule'[s].status = schedule[s].status
                                   /\ schedule'[s].task = schedule[s].task
                                   /\ schedule'[s].enabled = schedule[s].enabled
<1>1. ASSUME NEW s \in Schedules
      PROVE  /\ schedule'[s] \in ScheduleRow
             /\ schedule'[s].status = schedule[s].status
             /\ schedule'[s].task = schedule[s].task
             /\ schedule'[s].enabled = schedule[s].enabled
             /\ schedule'[s].cron = schedule[s].cron
  <2>. DEFINE r == [schedule[s] EXCEPT !.base = now]
  <2>1. /\ schedule[s] \in ScheduleRow
        /\ r \in ScheduleRow
        /\ r.status = schedule[s].status /\ r.task = schedule[s].task
        /\ r.enabled = schedule[s].enabled /\ r.cron = schedule[s].cron
    BY DEF SchedulesTyped, ScheduleRow
  <2>2. schedule'[s] = r \/ schedule'[s] = schedule[s]
    BY DEF RanAt
  <2>. HIDE DEF r
  <2>. QED
    BY <2>1, <2>2
<1>2. schedule' = [s \in Schedules |-> schedule'[s]]
  BY DEF RanAt
<1>. QED
  BY <1>1, <1>2 DEF SchedulesTyped, LiveSchedule

\* What a tick goes on with is part of what it has seen.
LEMMA ProceedTyped ==
    ASSUME TicksTyped, NEW w \in Workers, NEW step \in TickSteps, NEW now \in Time, NEW seen,
           DOMAIN seen \subseteq Schedules, \A s \in DOMAIN seen : seen[s] \in Seen,
           Proceed(w, step, now, seen)
    PROVE  TicksTyped'
<1>. DEFINE r == IF seen = <<>> THEN None ELSE [step |-> step, now |-> now, seen |-> seen]
<1>1. tick' = [tick EXCEPT ![w] = r]
  BY DEF Proceed
<1>2. r # None => SeenTyped(r)
  BY DEF SeenTyped
<1>. HIDE DEF r
<1>. QED
  BY <1>1, <1>2 DEF TicksTyped

\* Steps of a tick keep everything well typed.
LEMMA TickTypes ==
    ASSUME Types, NEW w \in Workers, Tick(w) \/ TickAborts(w)
    PROVE  Types'
<1>1. CASE TickList(w)
  <2>. DEFINE enabled == {s \in Schedules : LiveSchedule(s) /\ schedule[s].enabled}
              seen    == [s \in enabled |-> [task |-> schedule[s].task, valid |-> schedule[s].valid,
                                             base |-> schedule[s].base, cron |-> schedule[s].cron]]
  <2>1. \A s \in DOMAIN seen : seen[s] \in Seen
    BY DEF Types, SchedulesTyped, ScheduleRow, Seen
  <2>2. DOMAIN seen \subseteq Schedules
    OBVIOUS
  <2>3. Proceed(w, "tasks", clock, seen)
    BY <1>1 DEF TickList
  <2>4. TicksTyped'
    <3>. HIDE DEF seen
    <3>. QED
      BY <2>1, <2>2, <2>3, ProceedTyped DEF Types, ClockTyped, TickSteps
  <2>. QED
    BY <1>1, <2>4 DEF TickList, board, Types, RowsTyped, SchedulesTyped, LiveSchedule,
                      CommandsTyped, ClockTyped
<1>2. ASSUME tick[w] # None
      PROVE  SeenTyped(tick[w])
  BY <1>2 DEF Types, TicksTyped
<1>3. ASSUME tick[w] # None, NEW S, NEW step \in TickSteps,
             Proceed(w, step, tick[w].now, Keep(tick[w].seen, S))
      PROVE  TicksTyped'
  <2>1. /\ DOMAIN Keep(tick[w].seen, S) \subseteq Schedules
        /\ \A s \in DOMAIN Keep(tick[w].seen, S) : Keep(tick[w].seen, S)[s] \in Seen
    BY <1>2, <1>3 DEF Keep, SeenTyped
  <2>. QED
    BY <1>2, <1>3, <2>1, ProceedTyped DEF SeenTyped, Types
<1>4. CASE TickTasks(w) \/ TickActive(w)
  <2>1. TicksTyped'
    BY <1>3, <1>4 DEF TickTasks, TickActive, Ticking, TickSteps
  <2>. QED
    BY <1>4, <2>1 DEF TickTasks, TickActive, board, Types, RowsTyped, SchedulesTyped, LiveSchedule,
                      CommandsTyped, ClockTyped
<1>5. CASE TickErrors(w)
  <2>1. TicksTyped'
    BY <1>3, <1>5 DEF TickErrors, Ticking, TickSteps
  <2>2. SchedulesTyped'
    BY <1>2, <1>5, RanAtTyped DEF TickErrors, Ticking, SeenTyped, Types
  <2>. QED
    BY <1>5, <2>1, <2>2 DEF TickErrors, Types, RowsTyped, CommandsTyped, ClockTyped
<1>6. ASSUME tick' = [tick EXCEPT ![w] = None]
      PROVE  TicksTyped'
  BY <1>6 DEF TicksTyped, Types
<1>7. CASE TickInsert(w)
  <2>1. SchedulesTyped'
    BY <1>2, <1>7, RanAtTyped DEF TickInsert, Ticking, SeenTyped, Types
  <2>2. PICK id \in [DOMAIN tick[w].seen -> ByTick] :
            WriteActions([a \in {id[s] : s \in DOMAIN tick[w].seen} |->
              LET s == CHOOSE x \in DOMAIN tick[w].seen : id[x] = a
              IN  [status |-> "pending", task |-> tick[w].seen[s].task, by |-> s, reset |-> FALSE]])
    BY <1>7 DEF TickInsert, InsertScheduled
  <2>3. ASSUME NEW s \in DOMAIN tick[w].seen
        PROVE  [status |-> "pending", task |-> tick[w].seen[s].task, by |-> s, reset |-> FALSE]
                  \in FiledRow
    BY <1>2, <1>7 DEF TickInsert, Ticking, SeenTyped, Seen, FiledRow, ActionRow, ActionStatus, Active
  <2>4. action' \in [Actions -> FiledRow]
    BY <2>2, <2>3, WritesTyped DEF Types
  <2>. QED
    BY <1>6, <1>7, <2>1, <2>4 DEF TickInsert, Types, RowsTyped, CommandsTyped, ClockTyped
<1>8. CASE TickRefused(w) \/ TickAborts(w)
  BY <1>6, <1>8, FaultsAssumption
  DEF TickRefused, TickAborts, board, Types, RowsTyped, SchedulesTyped, LiveSchedule,
      CommandsTyped, ClockTyped
<1>. QED
  BY <1>1, <1>4, <1>5, <1>7, <1>8 DEF Tick

\* Every step keeps the types.
LEMMA StepTypes == Types /\ [Next]_vars => Types'
<1>. SUFFICES ASSUME Types, [Next]_vars PROVE Types'
  OBVIOUS
<1>1. ASSUME NEW o \in Operators, TaskCommand(o) \/ ScheduleCommand(o),
             UNCHANGED <<clock, tick, faults>>
      PROVE  Types'
  <2>1. RowsTyped'
    <3>1. CASE TaskCommand(o)
      BY <3>1, TaskCommandRows
    <3>2. CASE ScheduleCommand(o)
      BY <3>2 DEF ScheduleCommand, CreateScheduleCheck, CreateScheduleWrite, EnableRead, EnableEnsure,
                  EnableWrite, DisableSchedule, DeleteSchedule, EditSchedule, MoveScheduleCheck,
                  MoveScheduleWrite, Refused, board, RowsTyped, Types
    <3>. QED
      BY <1>1, <3>1, <3>2
  <2>. QED
    BY <1>1, <2>1, CommandSchedules, CommandCommands DEF Types, TicksTyped, ClockTyped
<1>2. CASE Progress /\ UNCHANGED <<clock, tick, faults>>
  <2>1. UNCHANGED <<schedule, cmd>>
    BY <1>2 DEF Progress, MoveStatus, ResetAction
  <2>. QED
    BY <1>2, <2>1, ProgressRows DEF Types, SchedulesTyped, LiveSchedule, CommandsTyped, TicksTyped,
                                    ClockTyped
<1>3. CASE Advance
  BY <1>3, TimeAssumption
  DEF Advance, board, Time, Types, RowsTyped, SchedulesTyped, LiveSchedule, CommandsTyped, TicksTyped,
      ClockTyped
<1>4. CASE UNCHANGED vars
  BY <1>4 DEF vars, board, Types, RowsTyped, SchedulesTyped, LiveSchedule, CommandsTyped, TicksTyped,
              ClockTyped
<1>. QED
  BY <1>1, <1>2, <1>3, <1>4, TickTypes DEF Next

\* So types hold all the time.
LEMMA TypesAlways == Spec => []Types
<1>. QED
  BY InitTypes, StepTypes, PTL DEF Spec

\* The table of counts has its shape.
CountsShaped == count = [t \in Tasks |-> [st \in Statuses |-> count[t][st]]]

\* The counts are well formed in all behaviours.
LEMMA ShapeAlways == Spec => []CountsShaped
<1>1. Init => CountsShaped
  BY DEF Init, BoardInit, CountsShaped
<1>2. CountsShaped /\ [Next]_vars => CountsShaped'
  <2>. SUFFICES ASSUME CountsShaped, [Next]_vars PROVE CountsShaped'
    OBVIOUS
  <2>1. ASSUME NEW new, WriteActions(new)
        PROVE  CountsShaped'
    BY <2>1 DEF WriteActions, Counted, CountsShaped
  <2>2. ASSUME NEW o \in Operators, NEW p \in Projects, DeleteProjectCascade(o, p)
        PROVE  CountsShaped'
    BY <2>2 DEF DeleteProjectCascade, CountsShaped
  <2>3. ASSUME UNCHANGED count
        PROVE  CountsShaped'
    BY <2>3 DEF CountsShaped
  <2>4. ASSUME NEW o \in Operators, TaskCommand(o)
        PROVE  CountsShaped'
    BY <2>1, <2>2, <2>3, <2>4
    DEF TaskCommand, CreateProject, DeleteProject, CreateTask, UpdateTask, CloseCheckSchedules,
        CloseCheckCounts, CloseWrite, CreateCheck, CreateWrite, ReassignCheck, ReassignWrite,
        ResumeRead, ResumeWrite, Refused, board, InsertAction, WriteAction
  <2>5. ASSUME NEW o \in Operators, ScheduleCommand(o)
        PROVE  CountsShaped'
    BY <2>3, <2>5
    DEF ScheduleCommand, CreateScheduleCheck, CreateScheduleWrite, EnableRead, EnableEnsure,
        EnableWrite, DisableSchedule, DeleteSchedule, EditSchedule, MoveScheduleCheck,
        MoveScheduleWrite, Refused, board
  <2>6. CASE Progress
    BY <2>1, <2>6 DEF Progress, MoveStatus, ResetAction, WriteAction
  <2>7. ASSUME NEW w \in Workers, Tick(w) \/ TickAborts(w)
        PROVE  CountsShaped'
    BY <2>1, <2>3, <2>7 DEF Tick, TickList, TickTasks, TickActive, TickErrors, TickInsert,
                            InsertScheduled, TickRefused, TickAborts, board
  <2>8. CASE Advance \/ UNCHANGED vars
    BY <2>3, <2>8 DEF Advance, vars, board
  <2>. QED
    BY <2>4, <2>5, <2>6, <2>7, <2>8 DEF Next
<1>. QED
  BY <1>1, <1>2, PTL DEF Spec

\* The board, the commands under way and what ticks have seen are well typed:
\* so a tick's and a command's writes are about rows of the right tables.
\* (That counts are never negative is what CountsAlwaysExact adds.)
THEOREM TypeCorrect ==
    ASSUME IsFiniteSet(Actions)
    PROVE  Spec => []TypeOK
<1>1. Types /\ CountsShaped /\ CountsExact => TypeOK
  <2>. SUFFICES ASSUME Types, CountsShaped, CountsExact PROVE TypeOK
    OBVIOUS
  <2>1. ASSUME NEW t \in Tasks, NEW st \in Statuses
        PROVE  count[t][st] \in Nat
    <3>1. IsFiniteSet(ActionsOf(t, st))
      BY FS_Subset DEF ActionsOf
    <3>. QED
      BY <3>1, FS_CardinalityType DEF CountsExact
  <2>2. count \in [Tasks -> [Statuses -> Nat]]
    BY <2>1 DEF CountsShaped
  <2>3. action \in [Actions -> ActionRow]
    BY DEF Types, RowsTyped, FiledRow
  <2>4. BoardTypeOK
    BY <2>2, <2>3 DEF BoardTypeOK, Types, RowsTyped, SchedulesTyped, CommandsTyped
  <2>. QED
    BY <2>4 DEF TypeOK, Types, ClockTyped, TicksTyped, SeenTyped
<1>. QED
  BY <1>1, TypesAlways, ShapeAlways, CountsAlwaysExact, PTL

-----------------------------------------------------------------------------
(* Actions of one schedule do not overlap, with one worker and any number  *)
(* of operators: between the look at the active actions and the insert     *)
(* only a reset makes one of them active.                                  *)

SingleWorker == \A x, y \in Workers : x = y

\* No action of schedule s is active, but those that were reset.
Free(s) == \A a \in Actions : action[a].by = s /\ action[a].status \in Active => action[a].reset

\* What a tick has found free.
FoundFree ==
    \A w \in Workers : tick[w] # None /\ tick[w].step \in {"errors", "insert"} =>
        \A s \in DOMAIN tick[w].seen : Free(s)

\* No action is made for a schedule; one that is active now is a reset one, or
\* was active before.
Calm ==
    \A a \in Actions :
        \/ action'[a].by = None
        \/ /\ action'[a].by = action[a].by
           /\ \/ action'[a].status \notin Active
              \/ action'[a].reset
              \/ action[a].status \in Active /\ action'[a].reset = action[a].reset

\* Rows written by commands leave schedules calm.
LEMMA WritesCalm ==
    ASSUME NEW a \in Actions, NEW r, WriteAction(a, r),
           \/ r.by = None
           \/ /\ r.by = action[a].by
              /\ \/ r.status \notin Active
                 \/ r.reset
                 \/ action[a].status \in Active /\ r.reset = action[a].reset
    PROVE  Calm
<1>1. \A b \in Actions : action'[b] = IF b = a THEN r ELSE action[b]
  BY DEF WriteAction, WriteActions
<1>. QED
  BY <1>1 DEF Calm

\* So does every command.
LEMMA CommandCalm ==
    ASSUME Types, NEW o \in Operators, TaskCommand(o) \/ ScheduleCommand(o)
    PROVE  Calm
<1>1. ASSUME NEW p \in Projects, DeleteProjectCascade(o, p)
      PROVE  Calm
  <2>1. ASSUME NEW a \in Actions
        PROVE  action'[a] \in {action[a], DeletedAction(a)}
    BY <1>1 DEF DeleteProjectCascade
  <2>2. \A a \in Actions : DeletedAction(a).status \notin Active /\ DeletedAction(a).by = action[a].by
    BY DEF DeletedAction, Active
  <2>. QED
    BY <2>1, <2>2 DEF Calm
<1>2. CASE CreateWrite(o) \/ ResumeWrite(o)
  <2>1. PICK a \in Actions, st \in ActionStatus : InsertAction(a, cmd[o].task, st, None)
    BY <1>2, StatusAssumption, IdsAssumption DEF CreateWrite, ResumeWrite, ActionStatus, Active
  <2>. QED
    BY <2>1, WritesCalm DEF InsertAction
<1>3. CASE ReassignWrite(o)
  <2>1. PICK a \in Actions : a = cmd[o].id
    BY <1>3 DEF ReassignWrite, At, Types, CommandsTyped
  <2>. DEFINE r == [action[a] EXCEPT !.task = cmd[o].task]
  <2>2. r.by = action[a].by /\ r.status = action[a].status /\ r.reset = action[a].reset
    BY DEF Types, RowsTyped, FiledRow, ActionRow
  <2>3. WriteAction(a, r) \/ UNCHANGED action
    BY <1>3, <2>1 DEF ReassignWrite
  <2>. HIDE DEF r
  <2>. QED
    BY <2>2, <2>3, WritesCalm DEF Calm
<1>4. CASE UNCHANGED action
  BY <1>4 DEF Calm
<1>5. CASE TaskCommand(o)
  BY <1>1, <1>2, <1>3, <1>4, <1>5
  DEF TaskCommand, CreateProject, DeleteProject, CreateTask, UpdateTask, CloseCheckSchedules,
      CloseCheckCounts, CloseWrite, CreateCheck, ReassignCheck, ResumeRead, Refused, board
<1>6. CASE ScheduleCommand(o)
  BY <1>4, <1>6
  DEF ScheduleCommand, CreateScheduleCheck, CreateScheduleWrite, EnableRead, EnableEnsure, EnableWrite,
      DisableSchedule, DeleteSchedule, EditSchedule, MoveScheduleCheck, MoveScheduleWrite, Refused, board
<1>. QED
  BY <1>5, <1>6

\* And the moves of statuses, of which only a reset starts from an end.
LEMMA ProgressCalm ==
    ASSUME Types, Progress
    PROVE  Calm
<1>1. ASSUME NEW a \in Actions, NEW st \in Statuses, MoveStatus(a, st)
      PROVE  Calm
  <2>. DEFINE r == [action[a] EXCEPT !.status = st]
  <2>1. r.by = action[a].by /\ r.status = st /\ r.reset = action[a].reset
    BY DEF Types, RowsTyped, FiledRow, ActionRow
  <2>2. action[a].status \in Active
    BY <1>1 DEF MoveStatus, Moves, Active
  <2>3. WriteAction(a, r)
    BY <1>1 DEF MoveStatus
  <2>. HIDE DEF r
  <2>. QED
    BY <2>1, <2>2, <2>3, WritesCalm
<1>2. ASSUME NEW a \in Actions, ResetAction(a)
      PROVE  Calm
  <2>. DEFINE r == [action[a] EXCEPT !.status = "pending", !.reset = action[a].by # None]
  <2>1. r.by = action[a].by /\ r.reset = (action[a].by # None)
    BY DEF Types, RowsTyped, FiledRow, ActionRow
  <2>2. WriteAction(a, r)
    BY <1>2 DEF ResetAction
  <2>. HIDE DEF r
  <2>. QED
    BY <2>1, <2>2, WritesCalm
<1>. QED
  BY <1>1, <1>2 DEF Progress

\* What is calm keeps schedules apart, and leaves free what a tick has found.
LEMMA CalmKeepsFree ==
    ASSUME Types, NoOverlap, Calm
    PROVE  /\ NoOverlap'
           /\ \A s \in Schedules : Free(s) => Free(s)'
<1>1. NoOverlap'
  BY DEF NoOverlap, Calm
<1>2. ASSUME NEW s \in Schedules, Free(s)
      PROVE  Free(s)'
  BY <1>2, IdsAssumption DEF Free, Calm
<1>. QED
  BY <1>1, <1>2

\* The tick: with one worker, it goes on with what it has just found free.
LEMMA TickKeepsApart ==
    ASSUME SingleWorker, Types, NoOverlap, FoundFree, NEW w \in Workers, Tick(w) \/ TickAborts(w)
    PROVE  (NoOverlap /\ FoundFree)'
<1>1. \A x \in Workers : x = w
  BY DEF SingleWorker
<1>2. ASSUME tick'[w] = None
      PROVE  FoundFree'
  BY <1>1, <1>2 DEF FoundFree
<1>3. ASSUME NEW step, NEW now, NEW seen, Proceed(w, step, now, seen),
             step \in {"errors", "insert"} => \A s \in DOMAIN seen : Free(s)'
      PROVE  FoundFree'
  <2>1. tick'[w] = None \/ tick'[w] = [step |-> step, now |-> now, seen |-> seen]
    BY <1>3 DEF Proceed, Types, TicksTyped
  <2>. QED
    BY <1>1, <1>3, <2>1 DEF FoundFree, Free
<1>4. CASE TickList(w) \/ TickTasks(w)
  <2>1. FoundFree'
    BY <1>3, <1>4 DEF TickList, TickTasks
  <2>. QED
    BY <1>4, <2>1 DEF TickList, TickTasks, board, NoOverlap
<1>5. CASE TickActive(w)
  <2>. DEFINE seen == Keep(tick[w].seen, {s \in Schedules : ~HasActive(s)})
  <2>1. \A s \in DOMAIN seen : Free(s)
    BY DEF Keep, HasActive, Free
  <2>2. UNCHANGED action
    BY <1>5 DEF TickActive, board
  <2>3. Proceed(w, IF \E s \in DOMAIN seen : ~seen[s].valid THEN "errors" ELSE "insert",
                tick[w].now, seen)
    BY <1>5 DEF TickActive
  <2>4. FoundFree'
    <3>. HIDE DEF seen
    <3>. QED
      BY <1>3, <2>1, <2>2, <2>3 DEF Free
  <2>. QED
    BY <2>2, <2>4 DEF NoOverlap
<1>6. CASE TickErrors(w)
  <2>1. \A s \in DOMAIN tick[w].seen : Free(s)
    BY <1>6 DEF TickErrors, Ticking, FoundFree
  <2>2. UNCHANGED action
    BY <1>6 DEF TickErrors
  <2>3. PICK S : Proceed(w, "insert", tick[w].now, Keep(tick[w].seen, S))
    BY <1>6 DEF TickErrors
  <2>4. FoundFree'
    BY <1>3, <2>1, <2>2, <2>3 DEF Keep, Free
  <2>. QED
    BY <2>2, <2>4 DEF NoOverlap
<1>7. CASE TickInsert(w)
  <2>. DEFINE seen == tick[w].seen
  <2>1. \A s \in DOMAIN seen : s \in Schedules /\ Free(s)
    BY <1>7 DEF TickInsert, Ticking, FoundFree, Types, TicksTyped, SeenTyped
  <2>2. PICK id \in [DOMAIN seen -> ByTick] :
            /\ \A s1, s2 \in DOMAIN seen : id[s1] = id[s2] => s1 = s2
            /\ WriteActions([a \in {id[s] : s \in DOMAIN seen} |->
                  LET s == CHOOSE x \in DOMAIN seen : id[x] = a
                  IN  [status |-> "pending", task |-> seen[s].task, by |-> s, reset |-> FALSE]])
    BY <1>7 DEF TickInsert, InsertScheduled
  <2>. HIDE DEF seen
  <2>3. ASSUME NEW a \in Actions
        PROVE  \/ action'[a] = action[a] /\ \A s \in DOMAIN seen : a # id[s]
               \/ \E s \in DOMAIN seen : a = id[s] /\ action'[a].by = s
    BY <2>2 DEF WriteActions
  <2>4. NoOverlap'
    <3>. SUFFICES ASSUME NEW a \in Actions, NEW b \in Actions, a # b,
                         action'[a].by # None, action'[a].by = action'[b].by,
                         {action'[a].status, action'[b].status} \subseteq Active
                  PROVE  action'[a].reset \/ action'[b].reset
      BY DEF NoOverlap
    <3>1. CASE action'[a] = action[a] /\ action'[b] = action[b]
      BY <3>1 DEF NoOverlap
    <3>2. CASE action'[a] = action[a] /\ \E s \in DOMAIN seen : action'[b].by = s
      BY <2>1, <3>2 DEF Free
    <3>3. CASE action'[b] = action[b] /\ \E s \in DOMAIN seen : action'[a].by = s
      BY <2>1, <3>3 DEF Free
    <3>4. CASE \E s, t \in DOMAIN seen : /\ a = id[s] /\ action'[a].by = s
                                         /\ b = id[t] /\ action'[b].by = t
      BY <3>4
    <3>. QED
      BY <2>3, <3>1, <3>2, <3>3, <3>4
  <2>5. tick'[w] = None
    BY <1>7 DEF TickInsert, Types, TicksTyped
  <2>. QED
    BY <1>2, <2>4, <2>5
<1>8. CASE TickRefused(w) \/ TickAborts(w)
  <2>1. tick'[w] = None /\ UNCHANGED action
    BY <1>8 DEF TickRefused, TickAborts, board, Types, TicksTyped
  <2>. QED
    BY <1>2, <2>1 DEF NoOverlap
<1>. QED
  BY <1>4, <1>5, <1>6, <1>7, <1>8 DEF Tick

\* With one worker, and any number of operators, two actions of a schedule are
\* active at a time only when one was reset by hand (dispatch/schedule.go:158).
THEOREM ActionsDoNotOverlap ==
    ASSUME SingleWorker
    PROVE  Spec => []NoOverlap
<1>1. Init => NoOverlap /\ FoundFree
  BY DEF Init, BoardInit, NoOverlap, FoundFree
<1>2. Types /\ NoOverlap /\ FoundFree /\ [Next]_vars => (NoOverlap /\ FoundFree)'
  <2>. SUFFICES ASSUME Types, NoOverlap, FoundFree, [Next]_vars PROVE (NoOverlap /\ FoundFree)'
    OBVIOUS
  <2>1. ASSUME Calm, UNCHANGED tick
        PROVE  (NoOverlap /\ FoundFree)'
    <3>1. NoOverlap' /\ \A s \in Schedules : Free(s) => Free(s)'
      BY <2>1, CalmKeepsFree
    <3>2. FoundFree'
      BY <2>1, <3>1 DEF FoundFree, Free, Types, TicksTyped, SeenTyped
    <3>. QED
      BY <3>1, <3>2
  <2>2. CASE \E w \in Workers : Tick(w) \/ TickAborts(w)
    BY <2>2, TickKeepsApart
  <2>3. CASE Advance \/ UNCHANGED vars
    BY <2>1, <2>3 DEF Advance, vars, board, Calm
  <2>. QED
    BY <2>1, <2>2, <2>3, CommandCalm, ProgressCalm DEF Next
<1>. QED
  BY <1>1, <1>2, TypesAlways, PTL DEF Spec
-----------------------------------------------------------------------------
(* A schedule makes no more actions than its cron expressions name         *)
(* instants, with one worker.  What has been made for a schedule is paid    *)
(* for by the instants up to its last run; the tick that inserts the next   *)
(* action has read that time, found an instant after it, and writes the     *)
(* time of its own look with the action.                                   *)

By(s) == {a \in Actions : action[a].by = s}

\* The instants a schedule created at c may have run for, up to n.
Fired(c, n) == {i \in UNION Crons : c < i /\ i <= n}

\* What schedule s made is paid for by the instants up to n.
PaidBy(s, n) ==
    /\ IsFiniteSet(By(s))
    /\ Cardinality(By(s)) <= Cardinality(Fired(schedule[s].created, n))

\* A row of schedules, and what was made for it.
RowPaid(s) ==
    /\ PaidBy(s, clock)
    /\ LiveSchedule(s) => schedule[s].created <= schedule[s].base /\ PaidBy(s, schedule[s].base)
    /\ schedule[s].status = "none" => By(s) = {}

\* What a tick has read of it.
TickPaid(w) ==
    tick[w] # None =>
        /\ tick[w].now <= clock
        /\ \A s \in DOMAIN tick[w].seen :
              /\ schedule[s].status # "none"
              /\ schedule[s].created <= tick[w].seen[s].base
              /\ PaidBy(s, tick[w].seen[s].base)
              /\ tick[w].step # "tasks" => Due(tick[w].seen[s], tick[w].now)

Paid == (\A s \in Schedules : RowPaid(s)) /\ (\A w \in Workers : TickPaid(w))

\* Instants are numbers.
LEMMA InstantsAreNumbers == \A i \in UNION Crons : i \in Int
BY TimeAssumption DEF Instants

\* There are finitely many.
LEMMA FiredFinite ==
    ASSUME NEW c, NEW n
    PROVE  IsFiniteSet(Fired(c, n)) /\ Cardinality(Fired(c, n)) \in Nat
<1>1. UNION Crons \subseteq 1..MaxTime
  BY TimeAssumption DEF Instants
<1>2. IsFiniteSet(1..MaxTime)
  BY TimeAssumption, FS_Interval
<1>3. Fired(c, n) \subseteq 1..MaxTime
  BY <1>1 DEF Fired
<1>4. IsFiniteSet(Fired(c, n))
  BY <1>2, <1>3, FS_Subset
<1>. QED
  BY <1>1, <1>4, FS_CardinalityType, TimeAssumption

\* More time, more instants ...
LEMMA FiredMore ==
    ASSUME NEW c \in Int, NEW n \in Int, NEW m \in Int, n <= m
    PROVE  Cardinality(Fired(c, n)) <= Cardinality(Fired(c, m))
<1>1. Fired(c, n) \subseteq Fired(c, m)
  <2>. SUFFICES ASSUME NEW i \in UNION Crons, c < i, i <= n PROVE i <= m
    BY DEF Fired
  <2>. QED
    BY InstantsAreNumbers
<1>. QED
  BY <1>1, FiredFinite, FS_Subset

\* ... and one more if there is one in between.
LEMMA FiredOneMore ==
    ASSUME NEW c \in Int, NEW n \in Int, NEW m \in Int, NEW i \in UNION Crons,
           c <= n, n < i, i <= m
    PROVE  Cardinality(Fired(c, n)) + 1 <= Cardinality(Fired(c, m))
<1>1. i \in Int
  BY InstantsAreNumbers
<1>2. i \notin Fired(c, n)
  BY <1>1 DEF Fired
<1>3. Fired(c, n) \cup {i} \subseteq Fired(c, m)
  <2>1. i \in Fired(c, m)
    BY <1>1 DEF Fired
  <2>2. ASSUME NEW j \in UNION Crons, c < j, j <= n PROVE j <= m
    BY <1>1, <2>2, InstantsAreNumbers
  <2>. QED
    BY <2>1, <2>2 DEF Fired
<1>4. Cardinality(Fired(c, n) \cup {i}) = Cardinality(Fired(c, n)) + 1
  BY <1>2, FiredFinite, FS_AddElement
<1>. QED
  BY <1>3, <1>4, FiredFinite, FS_Subset

\* Nothing is made for a schedule that keeps its creation: what was paid for is.
LEMMA StaysPaid ==
    ASSUME NEW s \in Schedules, By(s)' \subseteq By(s), NEW n \in Int, NEW m \in Int, n <= m,
           PaidBy(s, n), schedule[s].created \in Int, schedule'[s].created = schedule[s].created
    PROVE  IsFiniteSet(By(s)') /\ Cardinality(By(s)') <= Cardinality(Fired(schedule'[s].created, m))
<1>1. IsFiniteSet(By(s)') /\ Cardinality(By(s)') <= Cardinality(By(s))
  BY FS_Subset DEF PaidBy
<1>2. Cardinality(By(s)') \in Nat /\ Cardinality(By(s)) \in Nat
  BY <1>1, FS_CardinalityType DEF PaidBy
<1>3. Cardinality(By(s)) <= Cardinality(Fired(schedule[s].created, n))
  BY DEF PaidBy
<1>4. Cardinality(Fired(schedule[s].created, n)) <= Cardinality(Fired(schedule[s].created, m))
  BY FiredMore
<1>5. /\ Cardinality(Fired(schedule[s].created, n)) \in Nat
      /\ Cardinality(Fired(schedule[s].created, m)) \in Nat
  BY FiredFinite
<1>. QED
  BY <1>1, <1>2, <1>3, <1>4, <1>5

\* What commands do to schedules: a row keeps its creation, its last run and
\* its end, and a new one begins now.
RowsGoOn ==
    \A s \in Schedules :
        /\ schedule[s].status # "none" =>
              schedule'[s].status # "none" /\ schedule'[s].created = schedule[s].created
        /\ LiveSchedule(s)' =>
              \/ LiveSchedule(s) /\ schedule'[s].base = schedule[s].base
              \/ /\ schedule[s].status = "none"
                 /\ schedule'[s].base = clock /\ schedule'[s].created = clock
        /\ schedule'[s].status = "none" => schedule'[s] = schedule[s]

\* One step of the proof per command that writes schedules.
LEMMA CommandRows ==
    ASSUME Types, NEW o \in Operators, TaskCommand(o) \/ ScheduleCommand(o)
    PROVE  RowsGoOn
<1>. USE DEF LiveSchedule
<1>1. ASSUME NEW p \in Projects, DeleteProjectCascade(o, p)
      PROVE  RowsGoOn
  BY <1>1 DEF DeleteProjectCascade, RowsGoOn, DeletedSchedule
<1>2. CASE CreateScheduleWrite(o)
  BY <1>2 DEF CreateScheduleWrite, RowsGoOn, Types, SchedulesTyped
<1>3. ASSUME NEW s \in Schedules, DeleteSchedule(o, s)
      PROVE  RowsGoOn
  BY <1>3 DEF DeleteSchedule, RowsGoOn, DeletedSchedule, Types, SchedulesTyped
<1>4. ASSUME NEW s \in Schedules, DisableSchedule(o, s)
      PROVE  RowsGoOn
  BY <1>4 DEF DisableSchedule, RowsGoOn, Types, SchedulesTyped, ScheduleRow
<1>5. ASSUME NEW s \in Schedules, EditSchedule(o, s)
      PROVE  RowsGoOn
  <2>1. PICK c \in Crons, v \in BOOLEAN :
           schedule' = [schedule EXCEPT ![s] = [schedule[s] EXCEPT !.cron = c, !.valid = v]]
    BY <1>5 DEF EditSchedule, Types, SchedulesTyped
  <2>. QED
    BY <1>5, <2>1 DEF EditSchedule, RowsGoOn, Types, SchedulesTyped, ScheduleRow
<1>6. CASE EnableWrite(o) \/ MoveScheduleWrite(o)
  BY <1>6 DEF EnableWrite, MoveScheduleWrite, UpdateRow, RowsGoOn, Types, SchedulesTyped,
     ScheduleRow
<1>7. CASE UNCHANGED schedule
  BY <1>7 DEF RowsGoOn
<1>8. CASE TaskCommand(o)
  BY <1>1, <1>7, <1>8
  DEF TaskCommand, CreateProject, DeleteProject, CreateTask, UpdateTask, CloseCheckSchedules,
      CloseCheckCounts, CloseWrite, CreateCheck, CreateWrite, ReassignCheck, ReassignWrite,
      ResumeRead, ResumeWrite, Refused, board
<1>9. CASE ScheduleCommand(o)
  BY <1>2, <1>3, <1>4, <1>5, <1>6, <1>7, <1>9
  DEF ScheduleCommand, CreateScheduleCheck, EnableRead, EnableEnsure, MoveScheduleCheck, Refused,
      board
<1>. QED
  BY <1>8, <1>9

\* Times are numbers.
LEMMA TimesAreNumbers ==
    ASSUME Types
    PROVE  /\ clock \in Int
           /\ \A s \in Schedules : schedule[s].created \in Int /\ schedule[s].base \in Int
           /\ \A w \in Workers : tick[w] # None =>
                 /\ tick[w].now \in Int
                 /\ \A s \in DOMAIN tick[w].seen :
                       /\ s \in Schedules /\ tick[w].seen[s].base \in Int
                       /\ tick[w].seen[s].cron \in Crons
<1>1. Time \subseteq Int
  BY TimeAssumption DEF Time
<1>. QED
  BY <1>1 DEF Types, ClockTyped, SchedulesTyped, ScheduleRow, TicksTyped, SeenTyped, Seen

\* Commands, status moves and time keep the books.
LEMMA CalmKeepsPaid ==
    ASSUME Types, Types', Paid, Calm, RowsGoOn, UNCHANGED tick, clock <= clock'
    PROVE  Paid'
<1>1. \A s \in Schedules : By(s)' \subseteq By(s)
  BY IdsAssumption DEF Calm, By
<1>2. ASSUME NEW s \in Schedules
      PROVE  RowPaid(s)'
  <2>1. CASE schedule[s].status = "none"
    <3>1. By(s)' = {}
      BY <1>1, <1>2, <2>1 DEF Paid, RowPaid
    <3>2. \A n : PaidBy(s, n)'
      BY <3>1, FS_EmptySet, FiredFinite DEF PaidBy
    <3>3. LiveSchedule(s)' => schedule'[s].created <= schedule'[s].base
      BY <2>1, TimesAreNumbers DEF RowsGoOn, LiveSchedule
    <3>. QED
      BY <3>1, <3>2, <3>3 DEF RowPaid
  <2>2. CASE schedule[s].status # "none"
    <3>1. schedule'[s].status # "none" /\ schedule'[s].created = schedule[s].created
      BY <2>2 DEF RowsGoOn
    <3>2. PaidBy(s, clock)'
      <4>1. clock' \in Int
        BY TimeAssumption DEF Types, ClockTyped, Time
      <4>. QED
        BY <1>1, <3>1, <4>1, StaysPaid, TimesAreNumbers DEF Paid, RowPaid, PaidBy
    <3>3. ASSUME LiveSchedule(s)'
          PROVE  schedule'[s].created <= schedule'[s].base /\ PaidBy(s, schedule[s].base)'
      <4>1. LiveSchedule(s) /\ schedule'[s].base = schedule[s].base
        BY <2>2, <3>3 DEF RowsGoOn
      <4>. QED
        BY <1>1, <3>1, <4>1, StaysPaid, TimesAreNumbers DEF Paid, RowPaid, PaidBy
    <3>. QED
      BY <3>1, <3>2, <3>3 DEF RowPaid
  <2>. QED
    BY <2>1, <2>2
<1>3. ASSUME NEW w \in Workers
      PROVE  TickPaid(w)'
  <2>. SUFFICES ASSUME tick[w] # None
                PROVE  TickPaid(w)'
    BY DEF TickPaid
  <2>1. tick[w].now <= clock'
    <3>1. clock' \in Int
      BY TimeAssumption DEF Types, ClockTyped, Time
    <3>. QED
      BY <3>1, TimesAreNumbers DEF Paid, TickPaid
  <2>2. ASSUME NEW s \in DOMAIN tick[w].seen
        PROVE  /\ schedule'[s].status # "none"
               /\ schedule'[s].created <= tick[w].seen[s].base
               /\ PaidBy(s, tick[w].seen[s].base)'
    <3>1. /\ s \in Schedules
          /\ schedule'[s].status # "none" /\ schedule'[s].created = schedule[s].created
      BY TimesAreNumbers DEF Paid, TickPaid, RowsGoOn
    <3>2. IsFiniteSet(By(s)') /\ Cardinality(By(s)') <=
             Cardinality(Fired(schedule'[s].created, tick[w].seen[s].base))
      BY <1>1, <3>1, StaysPaid, TimesAreNumbers DEF Paid, TickPaid
    <3>. QED
      BY <3>1, <3>2 DEF Paid, TickPaid, PaidBy
  <2>. QED
    BY <2>1, <2>2 DEF Paid, TickPaid
<1>. QED
  BY <1>2, <1>3 DEF Paid

\* With one worker, so do the steps of its tick.
LEMMA TickKeepsPaid ==
    ASSUME SingleWorker, Types, Paid, NEW w \in Workers, Tick(w) \/ TickAborts(w)
    PROVE  Paid'
<1>1. \A x \in Workers : x = w
  BY DEF SingleWorker
<1>2. UNCHANGED clock
  BY DEF Tick, TickList, TickTasks, TickActive, TickErrors, TickInsert, TickRefused, TickAborts
<1>3. ASSUME tick'[w] = None
      PROVE  \A x \in Workers : TickPaid(x)'
  BY <1>1, <1>3 DEF TickPaid
<1>4. ASSUME UNCHANGED <<action, schedule>>
      PROVE  /\ \A s \in Schedules : \A n : PaidBy(s, n) => PaidBy(s, n)'
             /\ \A s \in Schedules : RowPaid(s)'
  BY <1>2, <1>4 DEF Paid, RowPaid, PaidBy, By, LiveSchedule
<1>5. CASE TickList(w)
  <2>. DEFINE enabled == {s \in Schedules : LiveSchedule(s) /\ schedule[s].enabled}
              seen    == [s \in enabled |-> [task |-> schedule[s].task, valid |-> schedule[s].valid,
                                             base |-> schedule[s].base, cron |-> schedule[s].cron]]
  <2>1. UNCHANGED <<action, schedule>> /\ Proceed(w, "tasks", clock, seen)
    BY <1>5 DEF TickList, board
  <2>2. ASSUME NEW s \in DOMAIN seen
        PROVE  /\ s \in Schedules /\ schedule[s].status # "none"
               /\ schedule[s].created <= seen[s].base /\ PaidBy(s, seen[s].base)
    BY DEF Paid, RowPaid, LiveSchedule
  <2>. HIDE DEF seen
  <2>3. tick'[w] = None \/ tick'[w] = [step |-> "tasks", now |-> clock, seen |-> seen]
    BY <2>1 DEF Proceed, Types, TicksTyped
  <2>4. tick'[w] # None => TickPaid(w)'
    BY <1>2, <1>4, <2>1, <2>2, <2>3, TimesAreNumbers DEF TickPaid
  <2>. QED
    BY <1>1, <1>3, <1>4, <2>1, <2>4 DEF Paid
<1>6. ASSUME NEW step, NEW S, Proceed(w, step, tick[w].now, Keep(tick[w].seen, S)),
             tick[w] # None,
             \A s \in Schedules : /\ schedule'[s].status = schedule[s].status
                                  /\ schedule'[s].created = schedule[s].created,
             UNCHANGED action,
             step # "tasks" => \A s \in DOMAIN tick[w].seen \cap S : Due(tick[w].seen[s], tick[w].now)
      PROVE  TickPaid(w)'
  <2>. DEFINE seen == Keep(tick[w].seen, S)
  <2>1. ASSUME NEW s \in DOMAIN seen
        PROVE  /\ s \in DOMAIN tick[w].seen /\ s \in S /\ s \in Schedules
               /\ seen[s] = tick[w].seen[s]
    BY <1>6, TimesAreNumbers DEF Keep
  <2>2. Proceed(w, step, tick[w].now, seen)
    BY <1>6
  <2>. HIDE DEF seen
  <2>3. tick'[w] = None \/ tick'[w] = [step |-> step, now |-> tick[w].now, seen |-> seen]
    BY <2>2 DEF Proceed, Types, TicksTyped
  <2>4. ASSUME NEW s \in DOMAIN seen
        PROVE  /\ schedule'[s].status # "none"
               /\ schedule'[s].created <= seen[s].base
               /\ IsFiniteSet(By(s)')
               /\ Cardinality(By(s)') <= Cardinality(Fired(schedule'[s].created, seen[s].base))
               /\ step # "tasks" => Due(seen[s], tick[w].now)
    <3>1. /\ schedule[s].status # "none" /\ schedule[s].created <= seen[s].base
          /\ PaidBy(s, seen[s].base)
      BY <1>6, <2>1 DEF Paid, TickPaid
    <3>2. step # "tasks" => Due(seen[s], tick[w].now)
      BY <1>6, <2>1
    <3>. QED
      BY <1>6, <2>1, <3>1, <3>2 DEF PaidBy, By
  <2>5. tick[w].now <= clock
    BY <1>6 DEF Paid, TickPaid
  <2>6. CASE tick'[w] = [step |-> step, now |-> tick[w].now, seen |-> seen]
    BY <1>2, <2>4, <2>5, <2>6 DEF TickPaid, PaidBy
  <2>. QED
    BY <2>3, <2>6 DEF TickPaid
<1>7. CASE TickTasks(w)
  <2>1. PICK S : /\ Proceed(w, "active", tick[w].now, Keep(tick[w].seen, S))
                 /\ \A s \in DOMAIN tick[w].seen \cap S : Due(tick[w].seen[s], tick[w].now)
    BY <1>7 DEF TickTasks
  <2>2. tick[w] # None /\ UNCHANGED <<action, schedule>>
    BY <1>7 DEF TickTasks, Ticking, board
  <2>3. TickPaid(w)'
    BY <1>6, <2>1, <2>2
  <2>. QED
    BY <1>1, <1>4, <2>2, <2>3 DEF Paid
<1>8. CASE TickActive(w)
  <2>1. tick[w] # None /\ UNCHANGED <<action, schedule>> /\ tick[w].step = "active"
    BY <1>8 DEF TickActive, Ticking, board
  <2>2. PICK step, S : Proceed(w, step, tick[w].now, Keep(tick[w].seen, S))
    BY <1>8 DEF TickActive
  <2>3. \A s \in DOMAIN tick[w].seen : Due(tick[w].seen[s], tick[w].now)
    BY <2>1 DEF Paid, TickPaid
  <2>4. TickPaid(w)'
    BY <1>6, <2>1, <2>2, <2>3
  <2>. QED
    BY <1>1, <1>4, <2>1, <2>4 DEF Paid
<1>9. ASSUME NEW S, RanAt(S, tick[w].now), tick[w] # None, NEW s \in Schedules
      PROVE  /\ schedule'[s].status = schedule[s].status
             /\ schedule'[s].created = schedule[s].created
             /\ schedule'[s].base = IF s \in S /\ LiveSchedule(s) THEN tick[w].now ELSE schedule[s].base
  BY <1>9 DEF RanAt, Types, SchedulesTyped, ScheduleRow
\* What a due schedule has, and one action more, is paid by the time of the tick.
<1>10. ASSUME tick[w] # None, tick[w].step # "tasks", NEW s \in DOMAIN tick[w].seen
       PROVE  /\ s \in Schedules
              /\ schedule[s].status # "none"
              /\ schedule[s].created <= tick[w].now /\ tick[w].now <= clock
              /\ IsFiniteSet(By(s))
              /\ Cardinality(By(s)) + 1 <= Cardinality(Fired(schedule[s].created, tick[w].now))
  <2>1. /\ s \in Schedules /\ schedule[s].created \in Int /\ tick[w].now \in Int
        /\ tick[w].seen[s].base \in Int /\ tick[w].seen[s].cron \in Crons
    BY <1>10, TimesAreNumbers
  <2>2. /\ tick[w].now <= clock
        /\ schedule[s].created <= tick[w].seen[s].base
        /\ PaidBy(s, tick[w].seen[s].base)
        /\ schedule[s].status # "none"
        /\ Due(tick[w].seen[s], tick[w].now)
    BY <1>10 DEF Paid, TickPaid
  <2>3. PICK i \in UNION Crons : tick[w].seen[s].base < i /\ i <= tick[w].now
    BY <2>1, <2>2 DEF Due
  <2>4. i \in Int
    BY InstantsAreNumbers
  <2>5. Cardinality(Fired(schedule[s].created, tick[w].seen[s].base)) + 1
          <= Cardinality(Fired(schedule[s].created, tick[w].now))
    BY <2>1, <2>2, <2>3, FiredOneMore
  <2>6. /\ IsFiniteSet(By(s)) /\ Cardinality(By(s)) \in Nat
        /\ Cardinality(By(s)) <= Cardinality(Fired(schedule[s].created, tick[w].seen[s].base))
    BY <2>2, FS_CardinalityType DEF PaidBy
  <2>7. /\ Cardinality(Fired(schedule[s].created, tick[w].seen[s].base)) \in Nat
        /\ Cardinality(Fired(schedule[s].created, tick[w].now)) \in Nat
    BY FiredFinite
  <2>8. schedule[s].created <= tick[w].now
    BY <2>1, <2>2, <2>3, <2>4
  <2>9. Cardinality(By(s)) + 1 <= Cardinality(Fired(schedule[s].created, tick[w].now))
    BY <2>5, <2>6, <2>7
  <2>. QED
    BY <2>1, <2>2, <2>6, <2>8, <2>9
<1>11. CASE TickErrors(w)
  <2>1. PICK bad : /\ bad \subseteq DOMAIN tick[w].seen
                   /\ RanAt(bad, tick[w].now)
                   /\ Proceed(w, "insert", tick[w].now, Keep(tick[w].seen, Schedules \ bad))
    BY <1>11 DEF TickErrors
  <2>2. tick[w] # None /\ tick[w].step = "errors" /\ UNCHANGED action
    BY <1>11 DEF TickErrors, Ticking
  <2>3. \A s \in DOMAIN tick[w].seen : Due(tick[w].seen[s], tick[w].now)
    BY <2>2 DEF Paid, TickPaid
  <2>4. TickPaid(w)'
    BY <1>6, <1>9, <2>1, <2>2, <2>3
  <2>5. ASSUME NEW s \in Schedules
        PROVE  RowPaid(s)'
    <3>1. /\ schedule'[s].status = schedule[s].status /\ schedule'[s].created = schedule[s].created
          /\ schedule'[s].base = IF s \in bad /\ LiveSchedule(s) THEN tick[w].now ELSE schedule[s].base
      BY <1>9, <2>1, <2>2
    <3>2. By(s)' = By(s)
      BY <2>2 DEF By
    <3>3. CASE s \in bad /\ LiveSchedule(s)
      <4>1. /\ schedule[s].created <= tick[w].now /\ IsFiniteSet(By(s))
            /\ Cardinality(By(s)) + 1 <= Cardinality(Fired(schedule[s].created, tick[w].now))
        BY <1>10, <2>1, <2>2, <3>3
      <4>2. Cardinality(By(s)) \in Nat /\ Cardinality(Fired(schedule[s].created, tick[w].now)) \in Nat
        BY <4>1, FiredFinite, FS_CardinalityType
      <4>3. Cardinality(By(s)) <= Cardinality(Fired(schedule[s].created, tick[w].now))
        BY <4>1, <4>2
      <4>. QED
        BY <1>2, <3>1, <3>2, <3>3, <4>1, <4>3 DEF Paid, RowPaid, PaidBy, LiveSchedule
    <3>4. CASE ~(s \in bad /\ LiveSchedule(s))
      BY <1>2, <3>1, <3>2, <3>4 DEF Paid, RowPaid, PaidBy, LiveSchedule
    <3>. QED
      BY <3>3, <3>4
  <2>. QED
    BY <1>1, <2>4, <2>5 DEF Paid
<1>12. CASE TickInsert(w)
  <2>. DEFINE seen == tick[w].seen
  <2>1. /\ tick[w] # None /\ tick[w].step = "insert" /\ RanAt(DOMAIN seen, tick[w].now)
        /\ tick'[w] = None
    BY <1>12 DEF TickInsert, Ticking, Types, TicksTyped
  <2>2. PICK id \in [DOMAIN seen -> ByTick] :
            /\ \A s1, s2 \in DOMAIN seen : id[s1] = id[s2] => s1 = s2
            /\ WriteActions([a \in {id[s] : s \in DOMAIN seen} |->
                  LET s == CHOOSE x \in DOMAIN seen : id[x] = a
                  IN  [status |-> "pending", task |-> seen[s].task, by |-> s, reset |-> FALSE]])
    BY <1>12 DEF TickInsert, InsertScheduled
  <2>. HIDE DEF seen
  <2>3. ASSUME NEW a \in Actions
        PROVE  \/ action'[a] = action[a]
               \/ \E s \in DOMAIN seen : a = id[s] /\ action'[a].by = s
    BY <2>2 DEF WriteActions
  <2>4. ASSUME NEW s \in Schedules
        PROVE  By(s)' \subseteq IF s \in DOMAIN seen THEN By(s) \cup {id[s]} ELSE By(s)
    BY <2>3 DEF By
  <2>5. ASSUME NEW s \in Schedules
        PROVE  RowPaid(s)'
    <3>1. /\ schedule'[s].status = schedule[s].status /\ schedule'[s].created = schedule[s].created
          /\ schedule'[s].base = IF s \in DOMAIN seen /\ LiveSchedule(s)
                                 THEN tick[w].now ELSE schedule[s].base
      BY <1>9, <2>1
    <3>2. CASE s \in DOMAIN seen
      <4>1. /\ schedule[s].created <= tick[w].now /\ tick[w].now <= clock
            /\ schedule[s].status # "none" /\ IsFiniteSet(By(s))
            /\ Cardinality(By(s)) + 1 <= Cardinality(Fired(schedule[s].created, tick[w].now))
        BY <1>10, <2>1, <3>2 DEF seen
      <4>2. /\ IsFiniteSet(By(s) \cup {id[s]})
            /\ Cardinality(By(s) \cup {id[s]}) <= Cardinality(By(s)) + 1
        <5>1. CASE id[s] \in By(s)
          <6>1. By(s) \cup {id[s]} = By(s) /\ Cardinality(By(s)) \in Nat
            BY <4>1, <5>1, FS_CardinalityType
          <6>. QED
            BY <4>1, <6>1
        <5>2. CASE id[s] \notin By(s)
          BY <4>1, <5>2, FS_AddElement, FS_CardinalityType
        <5>. QED
          BY <5>1, <5>2
      <4>3. By(s)' \subseteq By(s) \cup {id[s]}
        BY <2>4, <3>2
      <4>4. IsFiniteSet(By(s)') /\ Cardinality(By(s)') <= Cardinality(By(s) \cup {id[s]})
        BY <4>2, <4>3, FS_Subset
      <4>5. /\ Cardinality(By(s)) \in Nat /\ Cardinality(By(s) \cup {id[s]}) \in Nat
            /\ Cardinality(By(s)') \in Nat
            /\ Cardinality(Fired(schedule[s].created, tick[w].now)) \in Nat
            /\ Cardinality(Fired(schedule[s].created, clock)) \in Nat
        BY <4>1, <4>2, <4>4, FS_CardinalityType, FiredFinite
      <4>6. Cardinality(By(s)') <= Cardinality(Fired(schedule[s].created, tick[w].now))
        BY <4>1, <4>2, <4>4, <4>5
      <4>7. Cardinality(Fired(schedule[s].created, tick[w].now))
              <= Cardinality(Fired(schedule[s].created, clock))
        BY <2>1, <4>1, FiredMore, TimesAreNumbers
      <4>8. Cardinality(By(s)') <= Cardinality(Fired(schedule[s].created, clock))
        BY <4>5, <4>6, <4>7
      <4>. QED
        BY <1>2, <3>1, <3>2, <4>1, <4>4, <4>6, <4>8 DEF RowPaid, PaidBy, LiveSchedule
    <3>3. CASE s \notin DOMAIN seen
      <4>1. By(s)' \subseteq By(s)
        BY <2>4, <3>3
      <4>2. \A n \in Int : PaidBy(s, n) => PaidBy(s, n)'
        BY <3>1, <4>1, StaysPaid, TimesAreNumbers DEF PaidBy
      <4>3. schedule'[s].base = schedule[s].base
        BY <3>1, <3>3
      <4>. QED
        BY <1>2, <3>1, <4>1, <4>2, <4>3, TimesAreNumbers DEF Paid, RowPaid, LiveSchedule
    <3>. QED
      BY <3>2, <3>3
  <2>. QED
    BY <1>3, <2>1, <2>5 DEF Paid
<1>13. CASE TickRefused(w) \/ TickAborts(w)
  <2>1. tick'[w] = None /\ UNCHANGED <<action, schedule>>
    BY <1>13 DEF TickRefused, TickAborts, board, Types, TicksTyped
  <2>. QED
    BY <1>3, <1>4, <2>1 DEF Paid
<1>. QED
  BY <1>5, <1>7, <1>8, <1>11, <1>12, <1>13 DEF Tick

\* With one worker a schedule never makes more actions than cron expressions
\* name instants since its creation, whatever operators do to schedules, tasks
\* and actions meanwhile and wherever ticks fail or are killed: no instant is
\* used twice (dispatch/schedule.go:142, db/schedule.go:211).
THEOREM NotTwicePerInstant ==
    ASSUME SingleWorker
    PROVE  Spec => []OncePerInstant
<1>1. Init => Paid
  <2>. SUFFICES ASSUME Init PROVE Paid
    OBVIOUS
  <2>1. \A s \in Schedules : By(s) = {} /\ schedule[s].status = "none"
    BY IdsAssumption DEF Init, BoardInit, By
  <2>2. \A s \in Schedules : \A n : PaidBy(s, n)
    BY <2>1, FS_EmptySet, FiredFinite DEF PaidBy
  <2>3. \A w \in Workers : tick[w] = None
    BY DEF Init
  <2>. QED
    BY <2>1, <2>2, <2>3 DEF Paid, RowPaid, TickPaid, LiveSchedule
<1>2. Types /\ Types' /\ Paid /\ [Next]_vars => Paid'
  <2>. SUFFICES ASSUME Types, Types', Paid, [Next]_vars PROVE Paid'
    OBVIOUS
  <2>1. ASSUME NEW o \in Operators, TaskCommand(o) \/ ScheduleCommand(o),
               UNCHANGED <<clock, tick, faults>>
        PROVE  Paid'
    BY <2>1, CommandCalm, CommandRows, CalmKeepsPaid, TimesAreNumbers
  <2>2. CASE Progress /\ UNCHANGED <<clock, tick, faults>>
    <3>1. RowsGoOn
      BY <2>2 DEF Progress, MoveStatus, ResetAction, RowsGoOn, LiveSchedule
    <3>. QED
      BY <2>2, <3>1, ProgressCalm, CalmKeepsPaid, TimesAreNumbers
  <2>3. CASE Advance \/ UNCHANGED vars
    <3>1. UNCHANGED <<board, tick>> /\ clock <= clock'
      BY <2>3, TimesAreNumbers DEF Advance, vars
    <3>2. Calm /\ RowsGoOn
      BY <3>1 DEF board, Calm, RowsGoOn, LiveSchedule
    <3>. QED
      BY <3>1, <3>2, CalmKeepsPaid
  <2>. QED
    BY <2>1, <2>2, <2>3, TickKeepsPaid DEF Next
<1>3. Paid => OncePerInstant
  BY DEF Paid, RowPaid, PaidBy, By, Fired, OncePerInstant
<1>. QED
  BY <1>1, <1>2, <1>3, TypesAlways, PTL DEF Spec
=============================================================================
