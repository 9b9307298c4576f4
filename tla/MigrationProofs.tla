-------------------------- MODULE MigrationProofs --------------------------
(***************************************************************************)
(* Proofs about module Migration, for any databases to start from, any     *)
(* number of commands that migrate at a time, crashes and writers: what a  *)
(* dropped column held is not lost, and the search indexes end up          *)
(* complete.                                                               *)
(*                                                                         *)
(* The column goes in the last statement of its step.  The invariant Good  *)
(* says what a process knows when it has come there: a fill issued by      *)
(* itself has gone through, and nobody takes it back.  SearchInv says the  *)
(* same of the statements that create the triggers and fill the indexes,   *)
(* and that what is in an index is what the row says, but for the rows     *)
(* inserted between the two triggers.                                      *)
(***************************************************************************)
EXTENDS Migration, TLAPS, FiniteSetTheorems

Phases == {"off", "check", "alter", "write", "drop"}

Shapes ==
    /\ pc \in [Procs -> Nat \X Phases]
    /\ noted \in [Procs -> [stale : BOOLEAN, urls : SUBSET Tasks]]
    /\ url \subseteq Tasks

\* At the statement that drops it, the instruction has been copied.
InstructionCopied ==
    \A p \in Procs : At(p, "instruction", "drop") => instruction

\* A task without its url in the metadata is one the loop has yet to come to.
UrlsNoted ==
    \A p \in Procs :
        /\ At(p, "url", "write") => Tasks \ url \subseteq noted[p].urls
        /\ At(p, "url", "drop") => url = Tasks

Good == Shapes /\ InstructionKept /\ InstructionCopied /\ UrlKept /\ UrlsNoted

\* The steps of one column leave alone the two that are copied row by row,
\* and give no other column their names.
Own(s) == s.how \in {"drop", "rename", "add"} =>
             {s.column, s.to} \cap {"schedules.prompt_id", "tasks.url"} = {}

\* Every migration step only works on its own columns.
LEMMA OtherColumns == \A i \in 1..Len(Steps) : Own(Steps[i])
<1>1. /\ Own(Steps[1]) /\ Own(Steps[2]) /\ Own(Steps[3]) /\ Own(Steps[4]) /\ Own(Steps[5])
      /\ Own(Steps[6]) /\ Own(Steps[7]) /\ Own(Steps[8]) /\ Own(Steps[9]) /\ Own(Steps[10])
      /\ Own(Steps[11]) /\ Own(Steps[12]) /\ Own(Steps[13]) /\ Own(Steps[14]) /\ Own(Steps[15])
      /\ Own(Steps[16]) /\ Own(Steps[17]) /\ Own(Steps[18]) /\ Own(Steps[19]) /\ Own(Steps[20])
      /\ Own(Steps[21]) /\ Own(Steps[22]) /\ Own(Steps[23]) /\ Own(Steps[24]) /\ Own(Steps[25])
      /\ Own(Steps[26])
  BY DEF Steps, Own, Drop, Rename, Add, Named
<1>2. Len(Steps) = 26
  BY DEF Steps
<1>. QED
  BY <1>1, <1>2

\* The invariant holds at the start.
LEMMA InitGood == Init => Good
<1>. SUFFICES ASSUME Init PROVE Good
  OBVIOUS
<1>1. \A p \in Procs : ~Migrating(p)
  BY DEF Init, Migrating
<1>2. Shapes
  BY DEF Init, Shapes, Phases
<1>3. InstructionKept /\ UrlKept
  BY DEF Init, InstructionKept, UrlKept
<1>4. InstructionCopied /\ UrlsNoted
  BY <1>1 DEF InstructionCopied, UrlsNoted, At
<1>. QED
  BY <1>2, <1>3, <1>4 DEF Good

\* Is x a place where the invariant asks something.
Watched(x) ==
    /\ x[1] \in 1..Len(Steps)
    /\ \/ Steps[x[1]].how = "instruction" /\ x[2] = "drop"
       \/ Steps[x[1]].how = "url" /\ x[2] \in {"write", "drop"}

\* A step to any other place keeps it, if it leaves the two columns and what is
\* copied from them alone.
LEMMA Elsewhere ==
    ASSUME Good, NEW p \in Procs, NEW x \in Nat \X Phases,
           pc' = [pc EXCEPT ![p] = x], ~Watched(x),
           noted' \in [Procs -> [stale : BOOLEAN, urls : SUBSET Tasks]],
           \A q \in Procs \ {p} : noted'[q] = noted[q],
           \A c \in {"schedules.prompt_id", "tasks.url"} : c \in columns' <=> c \in columns,
           UNCHANGED <<url, instruction>>
    PROVE  Good'
<1>1. Shapes'
  BY DEF Good, Shapes
<1>2. InstructionKept' /\ UrlKept'
  BY DEF Good, InstructionKept, UrlKept
<1>3. /\ pc'[p] = x
      /\ \A q \in Procs \ {p} : pc'[q] = pc[q]
  BY DEF Good, Shapes
<1>4. InstructionCopied'
  BY <1>3 DEF Good, InstructionCopied, At, Migrating, StepOf, Watched
<1>5. UrlsNoted'
  BY <1>3 DEF Good, UrlsNoted, At, Migrating, StepOf, Watched
<1>. QED
  BY <1>1, <1>2, <1>4, <1>5 DEF Good

\* So do the next step and the end of a command.
LEMMA MovesOn ==
    ASSUME Good, NEW p \in Procs, NextStep(p) \/ Fail(p) \/ Goto(p, "alter"),
           noted' \in [Procs -> [stale : BOOLEAN, urls : SUBSET Tasks]],
           \A q \in Procs \ {p} : noted'[q] = noted[q],
           \A c \in {"schedules.prompt_id", "tasks.url"} : c \in columns' <=> c \in columns,
           UNCHANGED <<url, instruction>>
    PROVE  Good'
<1>1. pc[p][1] \in Nat
  BY DEF Good, Shapes
<1>2. PICK x \in Nat \X Phases : pc' = [pc EXCEPT ![p] = x] /\ x[2] \in {"check", "off", "alter"}
  <2>1. <<pc[p][1] + 1, "check">> \in Nat \X Phases /\ <<0, "off">> \in Nat \X Phases
        /\ <<pc[p][1], "alter">> \in Nat \X Phases
    BY <1>1 DEF Phases
  <2>. QED
    BY <2>1 DEF NextStep, Fail, Goto
<1>. QED
  BY <1>2, Elsewhere DEF Watched

\* And a statement of another step.
LEMMA GoesTo ==
    ASSUME Good, NEW p \in Procs, NEW how, NEW phase \in Phases, NEW was, At(p, how, was), Goto(p, phase),
           how \notin {"instruction", "url"} \/ (how = "instruction" /\ phase # "drop"),
           noted' \in [Procs -> [stale : BOOLEAN, urls : SUBSET Tasks]],
           \A q \in Procs \ {p} : noted'[q] = noted[q],
           \A c \in {"schedules.prompt_id", "tasks.url"} : c \in columns' <=> c \in columns,
           UNCHANGED <<url, instruction>>
    PROVE  Good'
<1>. DEFINE x == <<pc[p][1], phase>>
<1>1. x \in Nat \X Phases /\ pc' = [pc EXCEPT ![p] = x]
  BY DEF Good, Shapes, Goto
<1>2. ~Watched(x)
  BY DEF Watched, At, StepOf
<1>. QED
  BY <1>1, <1>2, Elsewhere

-----------------------------------------------------------------------------
(* The statements.                                                         *)

\* Those that have nothing to do with instructions and urls.
LEMMA OtherStatements ==
    ASSUME Good, NEW p \in Procs,
           \/ Start(p) \/ ReadTrigger(p) \/ DropTrigger(p) \/ CreateCounts(p) \/ CreateSearch(p)
           \/ CheckColumn(p) \/ FillColumn(p) \/ CheckUrl(p) \/ MigrateModes(p)
           \/ RebuildCounts(p) \/ BackfillCounts(p) \/ IndexTasks(p) \/ IndexActions(p) \/ Crash(p)
    PROVE  Good'
<1>1. /\ UNCHANGED <<columns, url, instruction>>
      /\ noted' \in [Procs -> [stale : BOOLEAN, urls : SUBSET Tasks]]
      /\ \A q \in Procs \ {p} : noted'[q] = noted[q]
  <2>1. UNCHANGED <<columns, url, instruction>>
    BY DEF Start, ReadTrigger, DropTrigger, CreateCounts, CreateSearch, CheckColumn, FillColumn,
           CheckUrl, MigrateModes, RebuildCounts, BackfillCounts, IndexTasks, IndexActions, Crash,
           schema, data
  <2>2. \/ UNCHANGED noted
        \/ noted' = [noted EXCEPT ![p] = [stale |-> FALSE, urls |-> {}]]
        \/ noted' = [noted EXCEPT ![p].stale = TRUE]
    BY DEF Start, ReadTrigger, DropTrigger, CreateCounts, CreateSearch, CheckColumn, FillColumn,
           CheckUrl, MigrateModes, RebuildCounts, BackfillCounts, IndexTasks, IndexActions, Crash
  <2>3. noted' \in [Procs -> [stale : BOOLEAN, urls : SUBSET Tasks]]
    <3>1. CASE UNCHANGED noted
      BY <3>1 DEF Good, Shapes
    <3>2. CASE noted' = [noted EXCEPT ![p] = [stale |-> FALSE, urls |-> {}]]
      BY <3>2 DEF Good, Shapes
    <3>3. CASE noted' = [noted EXCEPT ![p].stale = TRUE]
      <4>1. noted[p] \in [stale : BOOLEAN, urls : SUBSET Tasks]
        BY DEF Good, Shapes
      <4>2. [noted[p] EXCEPT !.stale = TRUE] \in [stale : BOOLEAN, urls : SUBSET Tasks]
        BY <4>1
      <4>. QED
        BY <3>3, <4>2 DEF Good, Shapes
    <3>. QED
      BY <2>2, <3>1, <3>2, <3>3
  <2>4. \A q \in Procs \ {p} : noted'[q] = noted[q]
    BY <2>2 DEF Good, Shapes
  <2>. QED
    BY <2>1, <2>3, <2>4
<1>2. CASE Start(p)
  <2>1. pc' = [pc EXCEPT ![p] = <<1, "check">>] /\ <<1, "check">> \in Nat \X Phases
    BY <1>2 DEF Start, Phases
  <2>. QED
    BY <1>1, <2>1, Elsewhere DEF Watched
<1>3. CASE ReadTrigger(p) /\ Goto(p, "drop")
  BY <1>1, <1>3, GoesTo DEF ReadTrigger, Phases
<1>4. CASE ~Start(p) /\ ~(ReadTrigger(p) /\ Goto(p, "drop"))
  <2>1. NextStep(p) \/ Fail(p) \/ Goto(p, "alter")
    BY <1>4
    DEF ReadTrigger, DropTrigger, CreateCounts, CreateSearch, CheckColumn, FillColumn, CheckUrl,
        MigrateModes, RebuildCounts, BackfillCounts, IndexTasks, IndexActions, Crash
  <2>. QED
    BY <1>1, <2>1, MovesOn
<1>. QED
  BY <1>2, <1>3, <1>4

\* The columns of the other steps.
LEMMA AlterGood ==
    ASSUME Good, NEW p \in Procs, AlterColumn(p)
    PROVE  Good'
<1>. DEFINE s == StepOf(p)
<1>1. PICK how \in {"drop", "rename", "add"} : At(p, how, "alter")
  BY DEF AlterColumn
<1>2. s.column \notin {"schedules.prompt_id", "tasks.url"}
  BY <1>1, OtherColumns DEF At, StepOf, Migrating, Own
<1>3. s.to \notin {"schedules.prompt_id", "tasks.url"}
  BY <1>1, OtherColumns DEF At, StepOf, Migrating, Own
<1>4. \A c \in {"schedules.prompt_id", "tasks.url"} : c \in columns' <=> c \in columns
  BY <1>2, <1>3 DEF AlterColumn
<1>5. UNCHANGED <<url, instruction, noted>>
  BY DEF AlterColumn, data
<1>6. NextStep(p) \/ Fail(p) \/ Goto(p, "write")
  BY DEF AlterColumn
<1>7. noted' \in [Procs -> [stale : BOOLEAN, urls : SUBSET Tasks]]
      /\ \A q \in Procs \ {p} : noted'[q] = noted[q]
  BY <1>5 DEF Good, Shapes
<1>. QED
  BY <1>1, <1>4, <1>5, <1>6, <1>7, MovesOn, GoesTo DEF Phases

\* The instruction: the fill makes it, and only then the column goes.
LEMMA InstructionGood ==
    ASSUME Good, NEW p \in Procs, CheckInstruction(p) \/ MigrateInstruction(p)
    PROVE  Good'
<1>1. /\ UNCHANGED <<url, noted>>
      /\ noted' \in [Procs -> [stale : BOOLEAN, urls : SUBSET Tasks]]
      /\ \A q \in Procs \ {p} : noted'[q] = noted[q]
  BY DEF CheckInstruction, MigrateInstruction, data, Good, Shapes
<1>2. CASE CheckInstruction(p)
  <2>1. UNCHANGED <<columns, instruction>> /\ At(p, "instruction", "check")
    BY <1>2 DEF CheckInstruction, schema, data
  <2>2. NextStep(p) \/ Goto(p, "alter") \/ Goto(p, "write")
    BY <1>2 DEF CheckInstruction
  <2>. QED
    BY <1>1, <2>1, <2>2, MovesOn, GoesTo DEF Phases
<1>3. CASE MigrateInstruction(p) /\ At(p, "instruction", "alter")
  <2>1. UNCHANGED instruction /\ (Fail(p) \/ Goto(p, "write"))
        /\ columns' \subseteq columns \cup {"schedules.instruction"} /\ columns \subseteq columns'
    BY <1>3 DEF MigrateInstruction, At
  <2>. QED
    BY <1>1, <1>3, <2>1, MovesOn, GoesTo DEF Phases
<1>4. CASE MigrateInstruction(p) /\ At(p, "instruction", "write")
  <2>1. \/ Fail(p) /\ UNCHANGED <<columns, instruction>>
        \/ Goto(p, "drop") /\ instruction' = TRUE /\ UNCHANGED columns
    BY <1>4 DEF MigrateInstruction, At
  <2>2. CASE Goto(p, "drop") /\ instruction' = TRUE /\ UNCHANGED columns
    <3>1. pc'[p] = <<pc[p][1], "drop">> /\ \A q \in Procs \ {p} : pc'[q] = pc[q]
      BY <2>2 DEF Goto, Good, Shapes
    <3>2. UrlsNoted'
      BY <1>1, <1>4, <3>1 DEF Good, UrlsNoted, At, Migrating, StepOf
    <3>3. Shapes'
      BY <1>1, <2>2 DEF Goto, Good, Shapes, Phases
    <3>. QED
      BY <1>1, <2>2, <3>2, <3>3 DEF Good, InstructionKept, InstructionCopied, UrlKept
  <2>. QED
    BY <1>1, <2>1, <2>2, MovesOn
<1>5. CASE MigrateInstruction(p) /\ At(p, "instruction", "drop")
  <2>1. \/ Fail(p) /\ UNCHANGED <<columns, instruction>>
        \/ NextStep(p) /\ columns' = columns \ {"schedules.prompt_id"} /\ UNCHANGED instruction
    BY <1>5 DEF MigrateInstruction, At
  <2>2. CASE NextStep(p) /\ columns' = columns \ {"schedules.prompt_id"} /\ UNCHANGED instruction
    <3>1. instruction
      BY <1>5 DEF Good, InstructionCopied
    <3>2. pc'[p][2] = "check" /\ \A q \in Procs \ {p} : pc'[q] = pc[q]
      BY <2>2 DEF NextStep, Good, Shapes
    <3>3. UrlsNoted'
      BY <1>1, <3>2 DEF Good, UrlsNoted, At, Migrating, StepOf
    <3>4. Shapes'
      BY <1>1, <2>2 DEF NextStep, Good, Shapes, Phases
    <3>. QED
      BY <1>1, <2>2, <3>1, <3>3, <3>4 DEF Good, InstructionKept, InstructionCopied, UrlKept
  <2>. QED
    BY <1>1, <2>1, <2>2, MovesOn
<1>. QED
  BY <1>2, <1>3, <1>4, <1>5 DEF MigrateInstruction

\* The urls: what the loop has yet to come to shrinks only by a task whose
\* metadata has its url now, and the column goes when nothing is left.
LEMMA UrlGood ==
    ASSUME Good, NEW p \in Procs, MigrateUrl(p)
    PROVE  Good'
<1>1. UNCHANGED instruction
  BY DEF MigrateUrl
<1>2. noted[p] \in [stale : BOOLEAN, urls : SUBSET Tasks]
  BY DEF Good, Shapes
<1>3. CASE At(p, "url", "alter")
  <2>1. UNCHANGED <<columns, url>>
    BY <1>3 DEF MigrateUrl, At
  <2>2. CASE Fail(p) /\ UNCHANGED noted
    BY <1>1, <2>1, <2>2, MovesOn DEF Good, Shapes
  <2>3. CASE Goto(p, "write") /\ noted' = [noted EXCEPT ![p].urls = Tasks \ url]
    <3>1. pc'[p] = <<pc[p][1], "write">> /\ \A q \in Procs \ {p} : pc'[q] = pc[q]
      BY <2>3 DEF Goto, Good, Shapes
    <3>2. /\ noted'[p] = [noted[p] EXCEPT !.urls = Tasks \ url]
          /\ \A q \in Procs \ {p} : noted'[q] = noted[q]
      BY <2>3 DEF Good, Shapes
    <3>3. noted'[p].urls = Tasks \ url /\ noted'[p] \in [stale : BOOLEAN, urls : SUBSET Tasks]
      BY <1>2, <3>2
    <3>4. Shapes'
      <4>1. pc' \in [Procs -> Nat \X Phases]
        BY <2>3 DEF Goto, Good, Shapes, Phases
      <4>2. noted' \in [Procs -> [stale : BOOLEAN, urls : SUBSET Tasks]]
        BY <2>3, <3>2, <3>3 DEF Good, Shapes
      <4>. QED
        BY <2>1, <4>1, <4>2 DEF Good, Shapes
    <3>5. InstructionCopied'
      BY <1>1, <3>1 DEF Good, InstructionCopied, At, Migrating, StepOf
    <3>6. UrlsNoted'
      BY <2>1, <3>1, <3>2, <3>3 DEF Good, UrlsNoted, At, Migrating, StepOf
    <3>. QED
      BY <1>1, <2>1, <3>4, <3>5, <3>6 DEF Good, InstructionKept, UrlKept
  <2>. QED
    BY <1>3, <2>2, <2>3 DEF MigrateUrl, At
<1>4. CASE /\ At(p, "url", "write")
           /\ \E t \in noted[p].urls :
                 WriteUrls({t}) /\ noted' = [noted EXCEPT ![p].urls = @ \ {t}]
           /\ UNCHANGED <<columns, pc>>
  <2>1. PICK t \in noted[p].urls :
           WriteUrls({t}) /\ noted' = [noted EXCEPT ![p].urls = @ \ {t}]
    BY <1>4
  <2>2. url' = url \cup {t} /\ t \in Tasks
    BY <1>2, <2>1 DEF WriteUrls
  <2>3. /\ noted'[p] = [noted[p] EXCEPT !.urls = @ \ {t}]
        /\ \A q \in Procs \ {p} : noted'[q] = noted[q]
    BY <2>1 DEF Good, Shapes
  <2>4. noted'[p].urls = noted[p].urls \ {t}
        /\ noted'[p] \in [stale : BOOLEAN, urls : SUBSET Tasks]
    BY <1>2, <2>3
  <2>5. Shapes'
    <3>1. noted' \in [Procs -> [stale : BOOLEAN, urls : SUBSET Tasks]]
      BY <2>1, <2>3, <2>4 DEF Good, Shapes
    <3>. QED
      BY <1>4, <2>2, <3>1 DEF Good, Shapes
  <2>6. InstructionCopied'
    BY <1>1, <1>4 DEF Good, InstructionCopied, At, Migrating, StepOf
  <2>7. UrlsNoted'
    <3>1. \A q \in Procs : At(q, "url", "write")' => (Tasks \ url)' \subseteq (noted[q].urls)'
      BY <1>4, <2>2, <2>3, <2>4 DEF Good, UrlsNoted, At, Migrating, StepOf
    <3>2. \A q \in Procs : At(q, "url", "drop")' => url' = Tasks
      BY <1>4, <2>2 DEF Good, UrlsNoted, At, Migrating, StepOf
    <3>. QED
      BY <3>1, <3>2 DEF UrlsNoted
  <2>. QED
    BY <1>1, <1>4, <2>2, <2>5, <2>6, <2>7 DEF Good, Shapes, InstructionKept, UrlKept
<1>5. CASE /\ At(p, "url", "write") /\ LoopEnds(p) /\ Goto(p, "drop")
           /\ UNCHANGED <<columns, url, noted>>
  <2>1. url = Tasks
    BY <1>5 DEF LoopEnds, Good, Shapes, UrlsNoted
  <2>2. pc'[p] = <<pc[p][1], "drop">> /\ \A q \in Procs \ {p} : pc'[q] = pc[q]
    BY <1>5 DEF Goto, Good, Shapes
  <2>3. Shapes'
    BY <1>5 DEF Goto, Good, Shapes, Phases
  <2>4. InstructionCopied'
    BY <1>1, <1>5, <2>2 DEF Good, InstructionCopied, At, Migrating, StepOf
  <2>5. UrlsNoted'
    BY <1>5, <2>1, <2>2 DEF Good, UrlsNoted, At, Migrating, StepOf
  <2>. QED
    BY <1>1, <1>5, <2>3, <2>4, <2>5 DEF Good, InstructionKept, UrlKept
<1>6. CASE At(p, "url", "drop")
  <2>1. url = Tasks /\ UNCHANGED <<url, noted>>
    BY <1>6 DEF MigrateUrl, At, Good, UrlsNoted
  <2>2. CASE Fail(p) /\ UNCHANGED columns
    BY <1>1, <2>1, <2>2, MovesOn DEF Good, Shapes
  <2>3. CASE NextStep(p) /\ columns' = columns \ {"tasks.url"}
    <3>1. pc'[p][2] = "check" /\ \A q \in Procs \ {p} : pc'[q] = pc[q]
      BY <2>3 DEF NextStep, Good, Shapes
    <3>2. Shapes'
      BY <2>1, <2>3 DEF NextStep, Good, Shapes, Phases
    <3>3. InstructionCopied'
      BY <1>1, <3>1 DEF Good, InstructionCopied, At, Migrating, StepOf
    <3>4. UrlsNoted'
      BY <2>1, <3>1 DEF Good, UrlsNoted, At, Migrating, StepOf
    <3>. QED
      BY <1>1, <2>1, <2>3, <3>2, <3>3, <3>4 DEF Good, InstructionKept, UrlKept
  <2>. QED
    BY <1>6, <2>2, <2>3 DEF MigrateUrl, At
<1>. QED
  BY <1>3, <1>4, <1>5, <1>6 DEF MigrateUrl

\* A step that touches neither the columns, nor what is copied, nor a process.
LEMMA UntouchedGood ==
    Good /\ UNCHANGED <<columns, url, instruction, pc, noted>> => Good'
BY DEF Good, Shapes, InstructionKept, InstructionCopied, UrlKept, UrlsNoted, At, Migrating, StepOf

\* Every step of a starting tq keeps Good.
LEMMA StepGood == Good /\ [Next]_vars => Good'
<1>. SUFFICES ASSUME Good, [Next]_vars PROVE Good'
  OBVIOUS
<1>1. CASE UNCHANGED vars
  BY <1>1, UntouchedGood DEF vars, data
<1>2. CASE Write
  BY <1>2, UntouchedGood DEF Write, schema
<1>3. ASSUME NEW p \in Procs, Start(p) \/ Migrate(p) \/ Crash(p)
      PROVE  Good'
  BY <1>3, OtherStatements, AlterGood, InstructionGood, UrlGood DEF Migrate
<1>. QED
  BY <1>1, <1>2, <1>3 DEF Next

\* Good holds of all behaviours.
LEMMA GoodAlways == Spec => []Good
<1>. QED
  BY InitGood, StepGood, PTL DEF Spec

-----------------------------------------------------------------------------
\* No schedule loses its instruction: the old column is dropped only by a
\* command whose own copy has gone through, whatever the others do and
\* wherever they die (db/db.go:203-220).
THEOREM InstructionNeverLost == Spec => []InstructionKept
<1>1. Good => InstructionKept
  BY DEF Good
<1>. QED
  BY <1>1, GoodAlways, PTL

\* No task loses its url: the tasks a command has found without it in their
\* metadata when it began the loop are all that can lack it when the loop is
\* over (db/db.go:230-280).
THEOREM UrlsNeverLost == Spec => []UrlKept
<1>1. Good => UrlKept
  BY DEF Good
<1>. QED
  BY <1>1, GoodAlways, PTL

-----------------------------------------------------------------------------
(* Types.  Good has those of url and noted.                                *)

Places == {<<0, "off">>} \cup ((1..Len(Steps)) \X {"check", "alter", "write", "drop"})
          \cup {<<Len(Steps) + 1, "check">>}

PlacesOK == pc \in [Procs -> Places]
SchemaOK == columns \subseteq Columns /\ counting \in Counting /\ triggers \subseteq SearchTriggers
RowsOK   == action \in [Actions -> Row \cup {None}] /\ instruction \in BOOLEAN
CountsOK == DOMAIN counts \subseteq Tasks /\ \A t \in DOMAIN counts : counts[t] \in Int
IndexOK  == search \in [Actions -> Entry \cup {None}] /\ found \in [Tasks -> BOOLEAN \cup {None}]
BoundsOK == early \subseteq Actions /\ events \in 0..MaxEvents

Types == PlacesOK /\ SchemaOK /\ RowsOK /\ CountsOK /\ IndexOK /\ BoundsOK

\* Where a statement takes its process.
Goes(p) ==
    \/ Fail(p)
    \/ pc[p][1] = 0 /\ pc' = [pc EXCEPT ![p] = <<1, "check">>]
    \/ Migrating(p) /\ NextStep(p)
    \/ Migrating(p) /\ \E phase \in {"check", "alter", "write", "drop"} : Goto(p, phase)

\* There are no other moves.
LEMMA AllGo ==
    ASSUME NEW p \in Procs, Start(p) \/ Migrate(p) \/ Crash(p)
    PROVE  Goes(p) \/ UNCHANGED pc
<1>1. CASE Start(p) \/ Crash(p)
  BY <1>1 DEF Start, Crash, Goes
<1>2. CASE Migrate(p)
  <2>1. Migrating(p)
    BY <1>2 DEF Migrate, ReadTrigger, DropTrigger, CreateCounts, CreateSearch, CheckColumn,
       AlterColumn, FillColumn, CheckInstruction, MigrateInstruction, CheckUrl, MigrateUrl,
       MigrateModes, RebuildCounts, BackfillCounts, IndexTasks, IndexActions, At
  <2>. QED
    BY <1>2, <2>1 DEF Migrate, ReadTrigger, DropTrigger, CreateCounts, CreateSearch, CheckColumn,
       AlterColumn, FillColumn, CheckInstruction, MigrateInstruction, CheckUrl, MigrateUrl,
       MigrateModes, RebuildCounts, BackfillCounts, IndexTasks, IndexActions, Goes
<1>. QED
  BY <1>1, <1>2

\* There are twenty-six steps; these matter to the search indexes.
LEMMA StepNames ==
    /\ Len(Steps) = 26
    /\ Steps[1].how = "stale trigger"
    /\ Steps[2].how = "counts table"
    /\ Steps[3].how = "counts trigger"
    /\ Steps[4].how = "task trigger"
    /\ Steps[5].how = "insert trigger"
    /\ Steps[6].how = "update trigger"
    /\ Steps[25].how = "index tasks"
    /\ Steps[26].how = "index actions"
BY DEF Steps, Drop, Rename, Add, Named

\* A move leads to a place there is.
LEMMA PlacesStay ==
    ASSUME PlacesOK, NEW p \in Procs, Goes(p)
    PROVE  PlacesOK'
<1>1. /\ <<0, "off">> \in Places /\ <<1, "check">> \in Places
      /\ \A i \in 1..26 : <<i + 1, "check">> \in Places
      /\ \A i \in 1..26 : \A phase \in {"check", "alter", "write", "drop"} : <<i, phase>> \in Places
  <2>1. Places = {<<0, "off">>} \cup ((1..26) \X {"check", "alter", "write", "drop"})
                 \cup {<<27, "check">>}
    <3>1. Len(Steps) = 26
      BY StepNames, Zenon
    <3>2. 26 + 1 = 27
      OBVIOUS
    <3>. QED
      BY <3>1, <3>2, Zenon DEF Places
  <2>2. ASSUME NEW i \in 1..26 PROVE <<i + 1, "check">> \in Places
    <3>1. CASE i = 26
      BY <2>1, <3>1
    <3>2. CASE i # 26
      <4>1. i + 1 \in 1..26
        BY <3>2
      <4>. QED
        BY <2>1, <4>1
    <3>. QED
      BY <3>1, <3>2
  <2>3. 1 \in 1..26
    OBVIOUS
  <2>. QED
    BY <2>1, <2>2, <2>3
<1>2. Migrating(p) => pc[p][1] \in 1..26
  BY StepNames DEF Migrating
<1>. QED
  BY <1>1, <1>2 DEF PlacesOK, Goes, Fail, NextStep, Goto

\* The columns of all steps are columns.
LEMMA StepColumns ==
    /\ \A i \in 1..Len(Steps) : Steps[i].column \in Columns /\ Steps[i].to \in Columns
    /\ "schedules.instruction" \in Columns
BY DEF Columns

\* What a row says is an entry of the index; the columns are independent.
LEMMA TextTyped ==
    ASSUME NEW r \in Row
    PROVE  /\ Says(r) \in Entry
           /\ [r EXCEPT !.title = "given"] \in Row
           /\ [r EXCEPT !.title = "edited"] \in Row
           /\ [r EXCEPT !.mode = "interactive"] \in Row
           /\ [r EXCEPT !.result = "reported"] \in Row
           /\ \A t \in Tasks : [r EXCEPT !.task = t] \in Row /\ Says([r EXCEPT !.task = t]) = Says(r)
<1>1. Says(r) \in Entry
  BY DEF Row, Entry, Says
<1>2. [r EXCEPT !.title = "given"] \in Row /\ [r EXCEPT !.title = "edited"] \in Row
  BY DEF Row, Titles
<1>3. [r EXCEPT !.mode = "interactive"] \in Row /\ [r EXCEPT !.result = "reported"] \in Row
  BY DEF Row, Modes, Results
<1>4. ASSUME NEW t \in Tasks
      PROVE  [r EXCEPT !.task = t] \in Row /\ Says([r EXCEPT !.task = t]) = Says(r)
  BY DEF Row, Says
<1>. QED
  BY <1>1, <1>2, <1>3, <1>4

\* Written rows are found by what they say.
LEMMA WritesTyped ==
    ASSUME RowsOK, IndexOK, NEW new \in [Actions -> Row \cup {None}], WriteActions(new),
           \A a \in Actions : new[a] = None => action[a] = None
    PROVE  /\ action' \in [Actions -> Row \cup {None}]
           /\ search' \in [Actions -> Entry \cup {None}]
<1>1. \A a \in Actions : new[a] # action[a] => new[a] \in Row
  BY DEF RowsOK
<1>. QED
  BY <1>1, TextTyped DEF WriteActions, IndexOK

\* The statements that write actions, but for the writes of commands at work.
LEMMA ActionsRewritten ==
    ASSUME RowsOK, NEW p \in Procs, FillColumn(p) \/ MigrateModes(p)
    PROVE  \/ UNCHANGED <<action, search>>
           \/ \E new \in [Actions -> Row \cup {None}] :
                 WriteActions(new) /\ \A a \in Actions : new[a] = None <=> action[a] = None
<1>1. \A a \in Actions : action[a] # None => action[a] \in Row
  BY DEF RowsOK
<1>2. CASE FillColumn(p)
  <2>. DEFINE new == [a \in Actions |-> IF action[a] # None /\ action[a].title = "blank"
                                        THEN [action[a] EXCEPT !.title = "given"] ELSE action[a]]
  <2>1. new \in [Actions -> Row \cup {None}]
    BY <1>1, TextTyped
  <2>2. \A a \in Actions : new[a] = None <=> action[a] = None
    BY <1>1, TextTyped, NoneAssumption
  <2>3. WriteActions(new) \/ UNCHANGED <<action, search>>
    BY <1>2 DEF FillColumn
  <2>. HIDE DEF new
  <2>. QED
    BY <2>1, <2>2, <2>3
<1>3. CASE MigrateModes(p)
  <2>. DEFINE new == [a \in Actions |-> IF action[a] = None THEN None
                                        ELSE [action[a] EXCEPT !.mode = "interactive"]]
  <2>1. new \in [Actions -> Row \cup {None}]
    BY <1>1, TextTyped
  <2>2. \A a \in Actions : new[a] = None <=> action[a] = None
    BY <1>1, TextTyped, NoneAssumption
  <2>3. WriteActions(new)
    BY <1>3 DEF MigrateModes
  <2>. HIDE DEF new
  <2>. QED
    BY <2>1, <2>2, <2>3
<1>. QED
  BY <1>2, <1>3

\* And those of commands at work.
LEMMA ActionWritten ==
    ASSUME RowsOK, NEW a \in Actions, NEW t \in Tasks
    PROVE  /\ Insert(a, t) =>
                 \E r \in Row : action[a] = None /\ WriteActions([action EXCEPT ![a] = r])
           /\ Edit(a) =>
                 \E r \in Row : action[a] # None /\ WriteActions([action EXCEPT ![a] = r])
           /\ Refile(a, t) =>
                 \E r \in Row : /\ action[a] # None /\ action' = [action EXCEPT ![a] = r]
                                /\ Says(r) = Says(action[a])
                                /\ UNCHANGED search
<1>1. ASSUME Insert(a, t)
      PROVE  \E r \in Row : action[a] = None /\ WriteActions([action EXCEPT ![a] = r])
  <2>. DEFINE r == [task |-> t, mode |-> "interactive", result |-> "empty",
                    title |-> IF "actions.title" \in columns THEN "given" ELSE "blank"]
  <2>1. r \in Row
    BY DEF Row, Modes, Titles, Results
  <2>2. action[a] = None /\ WriteActions([action EXCEPT ![a] = r])
    BY <1>1 DEF Insert
  <2>. HIDE DEF r
  <2>. QED
    BY <2>1, <2>2
<1>2. ASSUME Edit(a)
      PROVE  \E r \in Row : action[a] # None /\ WriteActions([action EXCEPT ![a] = r])
  <2>. DEFINE told    == [action[a] EXCEPT !.result = "reported"]
              renamed == [action[a] EXCEPT !.title = "edited"]
  <2>1. action[a] # None /\ told \in Row /\ renamed \in Row
    BY <1>2, TextTyped DEF Edit, RowsOK
  <2>2. \/ WriteActions([action EXCEPT ![a] = told])
        \/ WriteActions([action EXCEPT ![a] = renamed])
    BY <1>2 DEF Edit
  <2>. HIDE DEF told, renamed
  <2>. QED
    BY <2>1, <2>2
<1>3. ASSUME Refile(a, t)
      PROVE  \E r \in Row : /\ action[a] # None /\ action' = [action EXCEPT ![a] = r]
                            /\ Says(r) = Says(action[a])
                            /\ UNCHANGED search
  <2>. DEFINE r == [action[a] EXCEPT !.task = t]
  <2>1. action[a] # None /\ action[a] \in Row
    BY <1>3 DEF Refile, RowsOK
  <2>2. r \in Row /\ Says(r) = Says(action[a])
    BY <2>1, TextTyped
  <2>3. action' = [action EXCEPT ![a] = r] /\ UNCHANGED search
    BY <1>3 DEF Refile
  <2>. HIDE DEF r
  <2>. QED
    BY <2>1, <2>2, <2>3
<1>. QED
  BY <1>1, <1>2, <1>3

\* Counts are numbers.
LEMMA RecountTyped ==
    ASSUME IsFiniteSet(Actions)
    PROVE  DOMAIN Recount \subseteq Tasks /\ \A t \in DOMAIN Recount : Recount[t] \in Int
<1>1. \A t \in Tasks : Cardinality(ActionsUnder(t)) \in Nat
  BY FS_Subset, FS_CardinalityType DEF ActionsUnder
<1>. QED
  BY <1>1 DEF Recount

\* The triggers keep them numbers.
LEMMA CountedTyped ==
    ASSUME CountsOK, NEW t \in Tasks, NEW u \in Tasks, CountInsert(t) \/ CountRefile(u, t)
    PROVE  CountsOK'
<1>1. \A x \in DOMAIN counts \cup {t} : Rows(x) \in Int
  BY DEF CountsOK, Rows
<1>2. CASE CountInsert(t)
  BY <1>1, <1>2 DEF CountsOK, CountInsert
<1>3. CASE CountRefile(u, t)
  BY <1>1, <1>3 DEF CountsOK, CountRefile
<1>. QED
  BY <1>2, <1>3

\* The start.
LEMMA InitTypes ==
    ASSUME IsFiniteSet(Actions)
    PROVE  Init => Types
<1>. SUFFICES ASSUME Init PROVE Types
  OBVIOUS
<1>1. PICK v \in Versions :
         /\ columns = v.columns /\ counting = v.counting
         /\ counts = IF v.counting = "none" THEN <<>> ELSE Recount
         /\ \E home \in [Old -> Tasks] :
              action = [a \in Actions |-> IF a \in Old
                            THEN [task  |-> home[a], mode |-> "experimental_bg", result |-> "empty",
                                  title |-> IF "actions.title" \in v.columns THEN "given" ELSE "blank"]
                            ELSE None]
  BY DEF Init
<1>2. SchemaOK
  BY <1>1, VersionsAssumption DEF Init, SchemaOK, Counting
<1>3. RowsOK
  <2>1. PICK home \in [Old -> Tasks] :
            action = [a \in Actions |-> IF a \in Old
                          THEN [task  |-> home[a], mode |-> "experimental_bg", result |-> "empty",
                                title |-> IF "actions.title" \in v.columns THEN "given" ELSE "blank"]
                          ELSE None]
    BY <1>1
  <2>2. \A a \in Actions : action[a] \in Row \cup {None}
    BY <2>1 DEF Row, Modes, Titles, Results
  <2>. QED
    BY <2>1, <2>2 DEF Init, RowsOK
<1>4. CountsOK
  BY <1>1, RecountTyped DEF CountsOK
<1>5. PlacesOK /\ IndexOK /\ BoundsOK
  BY BoundsAssumption DEF Init, PlacesOK, Places, IndexOK, BoundsOK
<1>. QED
  BY <1>2, <1>3, <1>4, <1>5 DEF Types

\* Every statement of the migration keeps the types.
LEMMA MigrationTyped ==
    ASSUME IsFiniteSet(Actions), Types, Good, NEW p \in Procs, Start(p) \/ Migrate(p) \/ Crash(p)
    PROVE  Types'
<1>. USE DEF Types
<1>1. PlacesOK'
  BY AllGo, PlacesStay DEF PlacesOK
<1>2. SchemaOK'
  <2>1. CASE AlterColumn(p)
    <3>1. StepOf(p).column \in Columns /\ StepOf(p).to \in Columns
      BY <2>1, StepColumns DEF AlterColumn, At, Migrating, StepOf
    <3>2. columns' \subseteq columns \cup {StepOf(p).column, StepOf(p).to}
      BY <2>1 DEF AlterColumn
    <3>. QED
      BY <2>1, <3>1, <3>2 DEF AlterColumn, SchemaOK
  <2>2. CASE MigrateInstruction(p) \/ MigrateUrl(p)
    BY <2>2, StepColumns DEF MigrateInstruction, MigrateUrl, SchemaOK
  <2>3. CASE DropTrigger(p) \/ CreateCounts(p) \/ CreateSearch(p)
    BY <2>3 DEF DropTrigger, CreateCounts, CreateSearch, SchemaOK, Counting
  <2>. QED
    BY <2>1, <2>2, <2>3 DEF Migrate, Start, Crash, ReadTrigger, CheckColumn, FillColumn,
       CheckInstruction, CheckUrl, MigrateModes, RebuildCounts, BackfillCounts, IndexTasks,
       IndexActions, schema, SchemaOK
<1>3. RowsOK' /\ IndexOK'
  <2>1. CASE FillColumn(p) \/ MigrateModes(p)
    <3>1. UNCHANGED <<instruction, found>>
      BY <2>1 DEF FillColumn, MigrateModes
    <3>. QED
      BY <2>1, <3>1, ActionsRewritten, WritesTyped DEF RowsOK, IndexOK
  <2>2. CASE MigrateInstruction(p)
    BY <2>2 DEF MigrateInstruction, RowsOK, IndexOK
  <2>3. CASE MigrateUrl(p)
    <3>1. UNCHANGED <<action, instruction, search>>
      BY <2>3 DEF MigrateUrl
    <3>2. UNCHANGED found \/ \E S : WriteUrls(S)
      BY <2>3 DEF MigrateUrl
    <3>. QED
      BY <3>1, <3>2 DEF WriteUrls, RowsOK, IndexOK
  <2>4. CASE IndexTasks(p)
    <3>1. ASSUME NEW t \in Tasks
          PROVE  (IF found[t] = None THEN t \in url ELSE found[t]) \in BOOLEAN \cup {None}
      <4>1. (t \in url) \in BOOLEAN
        OBVIOUS
      <4>2. found[t] \in BOOLEAN \cup {None}
        BY DEF IndexOK
      <4>. QED
        BY <4>1, <4>2
    <3>2. found' = [t \in Tasks |-> IF found[t] = None THEN t \in url ELSE found[t]]
      BY <2>4 DEF IndexTasks
    <3>3. found' \in [Tasks -> BOOLEAN \cup {None}]
      BY <3>1, <3>2, Zenon
    <3>. QED
      BY <2>4, <3>3 DEF IndexTasks, RowsOK, IndexOK
  <2>5. CASE IndexActions(p)
    <3>1. \A a \in Actions : action[a] # None => Text(a) \in Entry
      BY TextTyped DEF RowsOK, Text
    <3>. QED
      BY <2>5, <3>1 DEF IndexActions, RowsOK, IndexOK
  <2>6. CASE UNCHANGED <<action, instruction, search, found>>
    BY <2>6 DEF RowsOK, IndexOK
  <2>. QED
    BY <2>1, <2>2, <2>3, <2>4, <2>5, <2>6 DEF Migrate, Start, Crash, ReadTrigger, DropTrigger,
       CreateCounts, CreateSearch, CheckColumn, AlterColumn, CheckInstruction, CheckUrl,
       RebuildCounts, BackfillCounts, data
<1>4. CountsOK'
  <2>1. UNCHANGED counts \/ counts' = Recount
    BY DEF Migrate, Start, Crash, ReadTrigger, DropTrigger, CreateCounts, CreateSearch,
       CheckColumn, AlterColumn, FillColumn, CheckInstruction, MigrateInstruction, CheckUrl,
       MigrateUrl, MigrateModes, RebuildCounts, BackfillCounts, IndexTasks, IndexActions, data
  <2>. QED
    BY <2>1, RecountTyped DEF CountsOK
<1>5. BoundsOK'
  <2>1. CASE Crash(p)
    BY <2>1, BoundsAssumption DEF Crash, BoundsOK
  <2>2. UNCHANGED <<early, events>> \/ Crash(p)
    BY DEF Migrate, Start, ReadTrigger, DropTrigger, CreateCounts, CreateSearch, CheckColumn,
       AlterColumn, FillColumn, CheckInstruction, MigrateInstruction, CheckUrl, MigrateUrl,
       MigrateModes, RebuildCounts, BackfillCounts, IndexTasks, IndexActions, bounds
  <2>. QED
    BY <2>1, <2>2 DEF BoundsOK
<1>. QED
  BY <1>1, <1>2, <1>3, <1>4, <1>5

\* So do commands at work.
LEMMA WriteTyped ==
    ASSUME Types, Write
    PROVE  Types'
<1>. USE DEF Types
<1>1. PICK a \in Actions, t \in Tasks : Insert(a, t) \/ Edit(a) \/ Refile(a, t)
  <2>1. PICK a \in Actions : Edit(a) \/ \E t \in Tasks : Insert(a, t) \/ Refile(a, t)
    BY DEF Write
  <2>2. Edit(a) => action[a].task \in Tasks
    BY DEF Edit, RowsOK, Row
  <2>. QED
    BY <2>1, <2>2
<1>2. /\ UNCHANGED <<pc, schema, instruction, found>>
      /\ events' \in 0..MaxEvents /\ early' \subseteq Actions
  <2>1. UNCHANGED <<pc, schema, instruction, found>> /\ events' \in 0..MaxEvents
    BY BoundsAssumption DEF Write, BoundsOK
  <2>2. early' \subseteq early \cup {a}
    BY <1>1 DEF Insert, Edit, Refile
  <2>. QED
    BY <2>1, <2>2 DEF BoundsOK
<1>3. CASE Insert(a, t) \/ Edit(a)
  <2>1. PICK r \in Row : WriteActions([action EXCEPT ![a] = r])
    BY <1>3, ActionWritten
  <2>2. /\ [action EXCEPT ![a] = r] \in [Actions -> Row \cup {None}]
        /\ \A b \in Actions : [action EXCEPT ![a] = r][b] = None => action[b] = None
    BY NoneAssumption, <2>1 DEF RowsOK
  <2>3. action' \in [Actions -> Row \cup {None}] /\ search' \in [Actions -> Entry \cup {None}]
    BY <2>1, <2>2, WritesTyped
  <2>4. CountsOK'
    <3>1. CASE Insert(a, t)
      BY <3>1, CountedTyped DEF Insert
    <3>2. CASE Edit(a)
      BY <3>2 DEF Edit, CountsOK
    <3>. QED
      BY <1>3, <3>1, <3>2
  <2>. QED
    BY <1>2, <2>3, <2>4 DEF PlacesOK, SchemaOK, schema, RowsOK, IndexOK, BoundsOK
<1>4. CASE Refile(a, t)
  <2>1. PICK r \in Row : action' = [action EXCEPT ![a] = r] /\ UNCHANGED search
    BY <1>4, ActionWritten
  <2>2. action[a].task \in Tasks
    BY <1>4 DEF Refile, RowsOK, Row
  <2>3. CountsOK'
    BY <1>4, <2>2, CountedTyped DEF Refile
  <2>. QED
    BY <1>2, <2>1, <2>3 DEF PlacesOK, SchemaOK, schema, RowsOK, IndexOK, BoundsOK
<1>. QED
  BY <1>1, <1>3, <1>4

\* Every step keeps the types.
LEMMA TypesStep ==
    ASSUME IsFiniteSet(Actions), Types, Good, [Next]_vars
    PROVE  Types'
<1>1. CASE UNCHANGED vars
  BY <1>1 DEF vars, data, Types, PlacesOK, SchemaOK, RowsOK, CountsOK, IndexOK, BoundsOK
<1>. QED
  BY <1>1, MigrationTyped, WriteTyped DEF Next

\* Types hold in all behaviours.
LEMMA TypesAlways ==
    ASSUME IsFiniteSet(Actions)
    PROVE  Spec => []Types
<1>1. Types /\ Good /\ [Next]_vars => Types'
  BY TypesStep
<1>. QED
  BY <1>1, InitTypes, GoodAlways, PTL DEF Spec

\* Wherever migrations die and whoever writes meanwhile, rows are rows, counts
\* are numbers, and each process is at a statement there is (db/db.go).
THEOREM TypeCorrect ==
    ASSUME IsFiniteSet(Actions)
    PROVE  Spec => []TypeOK
<1>1. Types /\ Good => TypeOK
  BY DEF Types, PlacesOK, Places, SchemaOK, RowsOK, CountsOK, IndexOK, BoundsOK, Good, Shapes,
     TypeOK
<1>. QED
  BY <1>1, TypesAlways, GoodAlways, PTL

-----------------------------------------------------------------------------
(* The search indexes.  What is in them says what the row says, but for    *)
(* the rows in early; an entry made before the trigger on update is there  *)
(* is of such a row; and a process past the statement that creates a       *)
(* trigger or fills an index knows that it has gone through, whoever       *)
(* issued it: nobody takes triggers away, nor rows out of the indexes.     *)

AllFound  == \A t \in Tasks : found[t] # None
AllListed == \A a \in Actions : action[a] # None => search[a] # None

FreshActions ==
    \A a \in Actions \ early : search[a] # None => action[a] # None /\ search[a] = Text(a)

FreshTasks == \A t \in Tasks : found[t] # None => found[t] = (t \in url)

\* Without a trigger on update, nothing is in an index but the rows in early.
Blank ==
    /\ "update trigger" \notin triggers => \A a \in Actions \ early : search[a] = None
    /\ "task trigger" \notin triggers => \A t \in Tasks : found[t] = None

Reached ==
    \A p \in Procs :
        /\ pc[p][1] > 4 => "task trigger" \in triggers
        /\ pc[p][1] > 5 => "insert trigger" \in triggers
        /\ pc[p][1] > 6 => "update trigger" \in triggers
        /\ pc[p][1] > 25 => AllFound
        /\ pc[p][1] > 26 => AllListed

SearchInv == FreshActions /\ FreshTasks /\ Blank /\ Reached

\* What a process knows.
LEMMA Knows ==
    ASSUME Reached, NEW p \in Procs
    PROVE  /\ pc[p][1] > 4 => "task trigger" \in triggers
           /\ pc[p][1] > 5 => "insert trigger" \in triggers
           /\ pc[p][1] > 6 => "update trigger" \in triggers
           /\ pc[p][1] > 25 => AllFound
           /\ pc[p][1] > 26 => AllListed
BY Zenon DEF Reached

\* The statements are the only way past their steps.
LEMMA OneWayThrough ==
    ASSUME NEW p \in Procs, Migrate(p)
    PROVE  /\ pc[p][1] = 4 => "task trigger" \in triggers'
           /\ pc[p][1] = 5 => "insert trigger" \in triggers'
           /\ pc[p][1] = 6 => "update trigger" \in triggers'
           /\ pc[p][1] = 25 => IndexTasks(p)
           /\ pc[p][1] = 26 => IndexActions(p)
           /\ IndexTasks(p) \/ IndexActions(p) => pc[p][1] > 6
           /\ IndexTasks(p) => ~IndexActions(p)
<1>1. pc[p][1] \in {4, 5, 6} => CreateSearch(p)
  BY StepNames DEF At, StepOf, Migrate, ReadTrigger, DropTrigger, CreateCounts, CreateSearch,
     CheckColumn, AlterColumn, FillColumn, CheckInstruction, MigrateInstruction, CheckUrl,
     MigrateUrl, MigrateModes, RebuildCounts, BackfillCounts, IndexTasks, IndexActions
<1>2. CreateSearch(p) => StepOf(p).how \in triggers'
  BY DEF CreateSearch, At
<1>3. ASSUME pc[p][1] = 25 PROVE IndexTasks(p)
  BY <1>3, StepNames DEF At, StepOf, Migrate, ReadTrigger, DropTrigger, CreateCounts, CreateSearch,
     SearchTriggers,
     CheckColumn, AlterColumn, FillColumn, CheckInstruction, MigrateInstruction, CheckUrl,
     MigrateUrl, MigrateModes, RebuildCounts, BackfillCounts, IndexTasks, IndexActions
<1>4. ASSUME pc[p][1] = 26 PROVE IndexActions(p)
  BY <1>4, StepNames DEF At, StepOf, Migrate, ReadTrigger, DropTrigger, CreateCounts, CreateSearch,
     SearchTriggers,
     CheckColumn, AlterColumn, FillColumn, CheckInstruction, MigrateInstruction, CheckUrl,
     MigrateUrl, MigrateModes, RebuildCounts, BackfillCounts, IndexTasks, IndexActions
<1>5. Migrating(p) => pc[p][1] \in 1..26
  BY StepNames DEF Migrating
<1>6. IndexTasks(p) \/ IndexActions(p) => pc[p][1] > 6
  <2>1. IndexTasks(p) \/ IndexActions(p) => pc[p][1] \in 1..26 \ {1, 2, 3, 4, 5, 6}
    BY <1>5, StepNames DEF IndexTasks, IndexActions, At, StepOf
  <2>. QED
    BY <2>1
<1>7. IndexTasks(p) => ~IndexActions(p)
  BY DEF IndexTasks, IndexActions, At
<1>8. /\ pc[p][1] = 4 => "task trigger" \in triggers'
      /\ pc[p][1] = 5 => "insert trigger" \in triggers'
      /\ pc[p][1] = 6 => "update trigger" \in triggers'
  BY <1>1, <1>2, StepNames DEF StepOf
<1>. QED
  BY <1>3, <1>4, <1>6, <1>7, <1>8

\* Between two statements, only these things can happen to what is indexed.
Rewritten == \E new \in [Actions -> Row \cup {None}] :
    /\ WriteActions(new)
    /\ \A a \in Actions : action[a] # None => new[a] # None
    /\ early \subseteq early'
    /\ "insert trigger" \in triggers /\ "update trigger" \notin triggers
          => {a \in Actions : action[a] = None /\ new[a] # None} \subseteq early'
    /\ UNCHANGED <<triggers, url, found>>

Moved == \E a \in Actions, r \in Row :
    /\ action[a] # None
    /\ action' = [action EXCEPT ![a] = r]
    /\ Says(r) = Says(action[a])
    /\ UNCHANGED <<triggers, search, url, found, early>>

UrlCopied == \E t \in Tasks : WriteUrls({t}) /\ UNCHANGED <<triggers, action, search, early>>

Untouched == triggers \subseteq triggers' /\ UNCHANGED <<action, search, url, found, early>>

\* Every step but the two backfills is one of them.
LEMMA WhatHappens ==
    ASSUME Types, Good, Next
    PROVE  \/ Rewritten \/ Moved \/ UrlCopied \/ Untouched
           \/ \E p \in Procs : IndexTasks(p) \/ IndexActions(p)
<1>. USE DEF Types
<1>1. ASSUME NEW p \in Procs, Start(p) \/ Migrate(p) \/ Crash(p)
      PROVE  \/ Rewritten \/ UrlCopied \/ Untouched
             \/ IndexTasks(p) \/ IndexActions(p)
  <2>1. CASE FillColumn(p) \/ MigrateModes(p)
    <3>1. UNCHANGED <<triggers, url, found, early>>
      BY <2>1 DEF FillColumn, MigrateModes, schema, bounds
    <3>2. CASE UNCHANGED <<action, search>>
      BY <3>1, <3>2 DEF Untouched
    <3>3. CASE \E new \in [Actions -> Row \cup {None}] :
                  WriteActions(new) /\ \A a \in Actions : new[a] = None <=> action[a] = None
      BY <3>1, <3>3 DEF Rewritten
    <3>. QED
      BY <2>1, <3>2, <3>3, ActionsRewritten
  <2>2. CASE MigrateUrl(p)
    <3>1. noted[p].urls \subseteq Tasks
      BY DEF Good, Shapes
    <3>. QED
      BY <2>2, <3>1 DEF MigrateUrl, UrlCopied, Untouched, bounds
  <2>3. CASE Start(p) \/ Crash(p)
    BY <2>3 DEF Start, Crash, Untouched, schema, data, bounds
  <2>4. CASE /\ Migrate(p)
             /\ ~(FillColumn(p) \/ MigrateModes(p) \/ MigrateUrl(p) \/ IndexTasks(p) \/ IndexActions(p))
    BY <2>4 DEF Migrate, ReadTrigger, DropTrigger, CreateCounts, CreateSearch, CheckColumn,
       AlterColumn, CheckInstruction, MigrateInstruction, CheckUrl, RebuildCounts,
       BackfillCounts, schema, data, bounds, Untouched
  <2>. QED
    BY <1>1, <2>1, <2>2, <2>3, <2>4
<1>2. ASSUME Write PROVE Rewritten \/ Moved
  <2>1. PICK a \in Actions : Edit(a) \/ \E t \in Tasks : Insert(a, t) \/ Refile(a, t)
    BY <1>2 DEF Write
  <2>2. UNCHANGED <<triggers, url, found>>
    BY <1>2 DEF Write, schema
  <2>3. CASE Edit(a)
    <3>0. action[a].task \in Tasks
      BY <2>3 DEF Edit, RowsOK, Row
    <3>1. PICK r \in Row : action[a] # None /\ WriteActions([action EXCEPT ![a] = r])
      BY <2>3, <3>0, ActionWritten
    <3>. DEFINE new == [action EXCEPT ![a] = r]
    <3>2. /\ new \in [Actions -> Row \cup {None}]
          /\ \A b \in Actions : action[b] # None <=> new[b] # None
      BY <3>1, NoneAssumption DEF RowsOK
    <3>3. WriteActions(new) /\ UNCHANGED early
      BY <2>3, <3>1 DEF Edit
    <3>. HIDE DEF new
    <3>. QED
      BY <2>2, <3>2, <3>3 DEF Rewritten
  <2>4. ASSUME NEW t \in Tasks, Insert(a, t) PROVE Rewritten
    <3>1. PICK r \in Row : action[a] = None /\ WriteActions([action EXCEPT ![a] = r])
      BY <2>4, ActionWritten
    <3>. DEFINE new == [action EXCEPT ![a] = r]
    <3>2. /\ new \in [Actions -> Row \cup {None}]
          /\ \A b \in Actions : action[b] # None => new[b] # None
          /\ \A b \in Actions : action[b] = None /\ new[b] # None => b = a
      BY <3>1 DEF RowsOK
    <3>3. WriteActions(new)
      BY <3>1
    <3>4. /\ early \subseteq early'
          /\ "insert trigger" \in triggers /\ "update trigger" \notin triggers => a \in early'
      BY <2>4 DEF Insert, Fires
    <3>. HIDE DEF new
    <3>. QED
      BY <2>2, <3>2, <3>3, <3>4 DEF Rewritten
  <2>5. ASSUME NEW t \in Tasks, Refile(a, t) PROVE Moved
    BY <2>2, <2>5, ActionWritten DEF Moved, Refile
  <2>. QED
    BY <2>1, <2>3, <2>4, <2>5
<1>. QED
  BY <1>1, <1>2 DEF Next

\* What is in the indexes stays true, and stays in them.
LEMMA RewriteKeeps ==
    ASSUME Types, SearchInv, Rewritten \/ Moved
    PROVE  /\ FreshActions' /\ FreshTasks' /\ Blank'
           /\ AllFound => AllFound'
           /\ "insert trigger" \in triggers /\ AllListed => AllListed'
<1>. USE DEF Types
<1>1. CASE Rewritten
  <2>1. PICK new \in [Actions -> Row \cup {None}] :
            /\ WriteActions(new)
            /\ \A a \in Actions : action[a] # None => new[a] # None
            /\ early \subseteq early'
            /\ "insert trigger" \in triggers /\ "update trigger" \notin triggers
                  => {a \in Actions : action[a] = None /\ new[a] # None} \subseteq early'
            /\ UNCHANGED <<triggers, url, found>>
    BY <1>1 DEF Rewritten
  <2>2. /\ action' = new
        /\ \A a \in Actions : search'[a] =
              IF new[a] # action[a] /\ Fires(a) THEN Says(new[a]) ELSE search[a]
    BY <2>1 DEF WriteActions
  <2>3. ASSUME NEW a \in Actions, new[a] # action[a]
        PROVE  new[a] \in Row /\ Says(new[a]) # None
    <3>1. new[a] \in Row
      BY <2>1, <2>3
    <3>. QED
      BY <3>1, TextTyped, NoneAssumption
  <2>4. ASSUME NEW a \in Actions \ early', search'[a] # None
        PROVE  /\ action'[a] # None /\ search'[a] = Text(a)'
               /\ "update trigger" \in triggers
    <3>1. a \notin early
      BY <2>1
    <3>2. CASE new[a] # action[a] /\ Fires(a)
      BY <2>1, <2>2, <2>3, <3>2, NoneAssumption DEF Text, Fires
    <3>3. CASE new[a] = action[a]
      BY <2>2, <2>4, <3>1, <3>3 DEF SearchInv, FreshActions, Blank, Text
    <3>4. CASE new[a] # action[a] /\ ~Fires(a)
      <4>1. search[a] # None
        BY <2>2, <2>4, <3>4
      <4>2. action[a] # None /\ "update trigger" \in triggers
        BY <3>1, <4>1 DEF SearchInv, FreshActions, Blank
      <4>. QED
        BY <3>4, <4>2 DEF Fires
    <3>. QED
      BY <3>2, <3>3, <3>4
  <2>5. FreshActions'
    BY <2>4 DEF FreshActions
  <2>6. Blank'
    BY <2>1, <2>4 DEF SearchInv, Blank
  <2>7. "insert trigger" \in triggers /\ AllListed => AllListed'
    <3>1. ASSUME "insert trigger" \in triggers, AllListed, NEW a \in Actions, new[a] # None
          PROVE  search'[a] # None
      <4>1. CASE action[a] = None
        BY <2>2, <2>3, <3>1, <4>1 DEF Fires
      <4>2. CASE action[a] # None
        BY <2>2, <2>3, <3>1, <4>2 DEF AllListed
      <4>. QED
        BY <4>1, <4>2
    <3>. QED
      BY <2>2, <3>1 DEF AllListed
  <2>8. FreshTasks' /\ (AllFound => AllFound')
    BY <2>1 DEF SearchInv, FreshTasks, AllFound
  <2>. QED
    BY <2>5, <2>6, <2>7, <2>8
<1>2. CASE Moved
  <2>1. PICK b \in Actions, r \in Row :
            /\ action[b] # None
            /\ action' = [action EXCEPT ![b] = r]
            /\ Says(r) = Says(action[b])
            /\ UNCHANGED <<triggers, search, url, found, early>>
    BY <1>2 DEF Moved
  <2>2. ASSUME NEW a \in Actions
        PROVE  (action'[a] = None <=> action[a] = None) /\ Text(a)' = Text(a)
    BY <2>1, NoneAssumption DEF RowsOK, Text
  <2>. QED
    BY <2>1, <2>2 DEF SearchInv, FreshActions, FreshTasks, Blank, AllFound, AllListed
<1>. QED
  BY <1>1, <1>2

\* So it does when an url is copied, or nothing is written at all.
LEMMA RestKeeps ==
    ASSUME Types, SearchInv, UrlCopied \/ Untouched
    PROVE  /\ FreshActions' /\ FreshTasks' /\ Blank'
           /\ AllFound => AllFound'
           /\ AllListed => AllListed'
<1>1. CASE UrlCopied
  <2>1. PICK t \in Tasks : WriteUrls({t}) /\ UNCHANGED <<triggers, action, search, early>>
    BY <1>1 DEF UrlCopied
  <2>2. /\ url' = url \cup {t}
        /\ \A u \in Tasks :
              found'[u] = IF "task trigger" \in triggers /\ u = t THEN TRUE ELSE found[u]
    BY <2>1 DEF WriteUrls
  <2>3. FreshActions' /\ (AllListed => AllListed')
    BY <2>1 DEF SearchInv, FreshActions, AllListed, Text
  <2>4. Blank'
    BY <2>1, <2>2 DEF SearchInv, Blank
  <2>5. AllFound => AllFound'
    BY <2>2, NoneAssumption DEF AllFound
  <2>6. FreshTasks'
    <3>1. ASSUME NEW u \in Tasks, found'[u] # None PROVE found'[u] = (u \in url')
      <4>1. CASE "task trigger" \in triggers /\ u = t
        BY <2>2, <4>1, Zenon
      <4>2. CASE "task trigger" \notin triggers
        BY <2>2, <3>1, <4>2 DEF SearchInv, Blank
      <4>3. CASE u # t
        <5>1. found'[u] = found[u] /\ found[u] = (u \in url)
          BY <2>2, <3>1, <4>3 DEF SearchInv, FreshTasks
        <5>2. (u \in url') = (u \in url)
          <6>1. url' = url \cup {t}
            BY <2>2
          <6>. QED
            BY <4>3, <6>1
        <5>. QED
          BY <5>1, <5>2, Zenon
      <4>. QED
        BY <4>1, <4>2, <4>3
    <3>. QED
      BY <3>1 DEF FreshTasks
  <2>. QED
    BY <2>3, <2>4, <2>5, <2>6
<1>2. CASE Untouched
  BY <1>2 DEF Untouched, SearchInv, FreshActions, FreshTasks, Blank, AllFound, AllListed, Text
<1>. QED
  BY <1>1, <1>2

\* The backfills put in what is missing.
LEMMA BackfillKeeps ==
    ASSUME Types, SearchInv, NEW p \in Procs, IndexTasks(p) \/ IndexActions(p)
    PROVE  /\ UNCHANGED triggers
           /\ FreshActions' /\ FreshTasks' /\ Blank'
           /\ AllFound \/ IndexTasks(p) => AllFound'
           /\ AllListed \/ IndexActions(p) => AllListed'
<1>. USE DEF Types
<1>1. {"task trigger", "update trigger"} \subseteq triggers /\ UNCHANGED <<triggers, early>>
  <2>1. Migrate(p)
    BY DEF Migrate
  <2>2. pc[p][1] > 6 /\ pc[p][1] \in 1..26
    BY <2>1, OneWayThrough, StepNames DEF IndexTasks, IndexActions, At, Migrating
  <2>3. {"task trigger", "update trigger"} \subseteq triggers
    <3>1. pc[p][1] > 4
      BY <2>2
    <3>. QED
      BY <2>2, <3>1, Knows, Zenon DEF SearchInv
  <2>. QED
    BY <2>3 DEF IndexTasks, IndexActions, schema, bounds
<1>2. IndexTasks(p) => ~IndexActions(p)
  BY DEF IndexTasks, IndexActions, At
<1>3. CASE IndexTasks(p)
  <2>1. /\ UNCHANGED <<action, search, url>>
        /\ \A t \in Tasks : found'[t] = IF found[t] = None THEN t \in url ELSE found[t]
    BY <1>3 DEF IndexTasks
  <2>2. FreshActions' /\ (AllListed => AllListed')
    BY <1>1, <2>1 DEF SearchInv, FreshActions, AllListed, Text
  <2>3. FreshTasks'
    BY <2>1 DEF SearchInv, FreshTasks
  <2>4. AllFound'
    <3>1. ASSUME NEW t \in Tasks PROVE (t \in url) # None
      <4>1. (t \in url) \in BOOLEAN
        OBVIOUS
      <4>. QED
        BY <4>1, NoneAssumption, Zenon
    <3>. QED
      BY <2>1, <3>1 DEF AllFound
  <2>. QED
    BY <1>1, <1>3, <1>2, <2>2, <2>3, <2>4 DEF Blank
<1>4. CASE IndexActions(p)
  <2>1. /\ UNCHANGED <<action, url, found>>
        /\ \A a \in Actions : search'[a] = IF action[a] # None /\ search[a] = None
                                              THEN Text(a) ELSE search[a]
    BY <1>4 DEF IndexActions
  <2>2. FreshTasks' /\ (AllFound => AllFound')
    BY <2>1 DEF SearchInv, FreshTasks, AllFound
  <2>3. FreshActions'
    BY <1>1, <2>1 DEF SearchInv, FreshActions, Text
  <2>4. AllListed'
    <3>1. \A a \in Actions : action[a] # None => Text(a) # None
      BY TextTyped, NoneAssumption DEF RowsOK, Text
    <3>. QED
      BY <2>1, <3>1 DEF AllListed
  <2>. QED
    BY <1>1, <1>4, <1>2, <2>2, <2>3, <2>4 DEF Blank
<1>. QED
  BY <1>3, <1>4

\* A process gets on by one step, and by these only when their statement has
\* gone through.
LEMMA StepsOfOne ==
    ASSUME Types, Good, NEW p \in Procs, Start(p) \/ Migrate(p) \/ Crash(p)
    PROVE  /\ \A q \in Procs \ {p} : pc'[q] = pc[q]
           /\ pc'[p][1] > 4 => pc[p][1] > 4 \/ "task trigger" \in triggers'
           /\ pc'[p][1] > 5 => pc[p][1] > 5 \/ "insert trigger" \in triggers'
           /\ pc'[p][1] > 6 => pc[p][1] > 6 \/ "update trigger" \in triggers'
           /\ pc'[p][1] > 25 => pc[p][1] > 25 \/ IndexTasks(p)
           /\ pc'[p][1] > 26 => pc[p][1] > 26 \/ IndexActions(p)
<1>1. Goes(p) \/ UNCHANGED pc
  BY AllGo
<1>2. \A q \in Procs \ {p} : pc'[q] = pc[q]
  BY <1>1 DEF Types, PlacesOK, Goes, Fail, NextStep, Goto
<1>3. pc[p][1] \in Nat
  BY DEF Good, Shapes
<1>4. \/ pc'[p][1] \in {0, 1, pc[p][1]}
      \/ Migrate(p) /\ pc'[p][1] = pc[p][1] + 1
  BY <1>1 DEF Types, PlacesOK, Goes, Fail, NextStep, Goto, Start, Crash
<1>. QED
  <2>1. ASSUME NEW n \in Nat, n \in {4, 5, 6, 25, 26}, pc'[p][1] > n, ~(pc[p][1] > n)
        PROVE  Migrate(p) /\ pc[p][1] = n
    BY <1>3, <1>4, <2>1
  <2>. QED
    BY <1>2, <1>3, <2>1, OneWayThrough

\* Every step keeps the invariant.
LEMMA SearchStep ==
    ASSUME Types, Good, SearchInv, [Next]_vars
    PROVE  SearchInv'
<1>1. CASE UNCHANGED vars
  BY <1>1 DEF vars, data, SearchInv, FreshActions, FreshTasks, Blank, Reached, AllFound, AllListed,
     Text
<1>2. CASE Next
  <2>1. /\ FreshActions' /\ FreshTasks' /\ Blank'
        /\ triggers \subseteq triggers'
        /\ AllFound => AllFound'
        /\ "insert trigger" \in triggers /\ AllListed => AllListed'
        /\ \A p \in Procs : /\ IndexTasks(p) => AllFound'
                            /\ IndexActions(p) => AllListed'
    <3>1. CASE Rewritten \/ Moved
      BY <3>1, RewriteKeeps, BackfillKeeps DEF Rewritten, Moved
    <3>2. CASE UrlCopied \/ Untouched
      <4>1. triggers \subseteq triggers'
        BY <3>2 DEF UrlCopied, Untouched
      <4>. QED
        BY <3>2, <4>1, RestKeeps, BackfillKeeps
    <3>3. CASE \E p \in Procs : IndexTasks(p) \/ IndexActions(p)
      BY <3>3, BackfillKeeps
    <3>. QED
      BY <1>2, <3>1, <3>2, <3>3, WhatHappens
  <2>2. \A q \in Procs : pc[q][1] \in Nat /\ pc'[q][1] \in Nat
    BY StepGood DEF Good, Shapes
  <2>3. Reached'
    <3>1. CASE UNCHANGED pc
      <4>1. ASSUME NEW q \in Procs
            PROVE  /\ pc'[q][1] > 4 => "task trigger" \in triggers'
                   /\ pc'[q][1] > 5 => "insert trigger" \in triggers'
                   /\ pc'[q][1] > 6 => "update trigger" \in triggers'
                   /\ pc'[q][1] > 25 => AllFound'
                   /\ pc'[q][1] > 26 => AllListed'
        <5>1. pc[q][1] > 26 => pc[q][1] > 5
          BY <2>2
        <5>2. /\ "task trigger" \in triggers => "task trigger" \in triggers'
              /\ "insert trigger" \in triggers => "insert trigger" \in triggers'
              /\ "update trigger" \in triggers => "update trigger" \in triggers'
          BY <2>1, Zenon
        <5>. QED
          BY <2>1, <3>1, <5>1, <5>2, Knows, Zenon DEF SearchInv
      <4>. QED
        BY <4>1, Zenon DEF Reached
    <3>2. ASSUME NEW p \in Procs, Start(p) \/ Migrate(p) \/ Crash(p)
          PROVE  Reached'
      <4>1. ASSUME NEW q \in Procs
            PROVE  /\ pc'[q][1] > 4 => "task trigger" \in triggers'
                   /\ pc'[q][1] > 5 => "insert trigger" \in triggers'
                   /\ pc'[q][1] > 6 => "update trigger" \in triggers'
                   /\ pc'[q][1] > 25 => AllFound'
                   /\ pc'[q][1] > 26 => AllListed'
        <5>1. /\ pc[q][1] > 4 => "task trigger" \in triggers
              /\ pc[q][1] > 5 => "insert trigger" \in triggers
              /\ pc[q][1] > 6 => "update trigger" \in triggers
              /\ pc[q][1] > 25 => AllFound
              /\ pc[q][1] > 26 => AllListed /\ "insert trigger" \in triggers
          <6>1. pc[q][1] > 26 => pc[q][1] > 5
            BY <2>2
          <6>. QED
            BY <6>1, Knows, Zenon DEF SearchInv
        <5>2. CASE q = p
          BY <2>1, <3>2, <5>1, <5>2, StepsOfOne
        <5>3. CASE q # p
          BY <2>1, <3>2, <5>1, <5>3, StepsOfOne
        <5>. QED
          BY <5>2, <5>3
      <4>. QED
        BY <4>1 DEF Reached
    <3>. QED
      BY <1>2, <3>1, <3>2 DEF Next, Write
  <2>. QED
    BY <2>1, <2>3 DEF SearchInv
<1>. QED
  BY <1>1, <1>2

\* The invariant holds at the start: nothing has been created, nobody has begun.
LEMMA InitSearch == Init => SearchInv
BY DEF Init, SearchInv, FreshActions, FreshTasks, Blank, Reached

\* Once one migration has come to its end, each task and each action is found,
\* and by what it says now, whichever process or trigger has put it there,
\* whoever has edited it meanwhile and wherever the others died
\* (db/db.go:377-381); only an action inserted between the two triggers may be
\* found by what it said before (db/db.go:387-389).
THEOREM SearchIsComplete ==
    ASSUME IsFiniteSet(Actions)
    PROVE  Spec => []SearchComplete
<1>1. SearchInv => SearchComplete
  <2>. SUFFICES ASSUME SearchInv, NEW p \in Procs, Done(p)
                PROVE  /\ \A a \in Actions : action[a] # None => search[a] # None
                       /\ \A a \in Actions \ early : action[a] # None => search[a] = Text(a)
                       /\ \A t \in Tasks : found[t] = (t \in url)
    BY Zenon DEF SearchComplete
  <2>1. AllFound /\ AllListed
    <3>1. Len(Steps) = 26
      BY StepNames, Zenon
    <3>2. pc[p][1] = 26 + 1
      BY <3>1, Zenon DEF Done
    <3>3. 26 + 1 > 25 /\ 26 + 1 > 26
      OBVIOUS
    <3>. QED
      BY <3>2, <3>3, Knows, Zenon DEF SearchInv
  <2>2. \A a \in Actions : action[a] # None => search[a] # None
    BY <2>1 DEF AllListed
  <2>3. \A a \in Actions \ early : action[a] # None => search[a] = Text(a)
    BY <2>2 DEF SearchInv, FreshActions
  <2>4. \A t \in Tasks : found[t] = (t \in url)
    BY <2>1, Zenon DEF SearchInv, FreshTasks, AllFound
  <2>. QED
    BY <2>2, <2>3, <2>4
<1>2. Types /\ Good /\ SearchInv /\ [Next]_vars => SearchInv'
  BY SearchStep
<1>. QED
  BY <1>1, <1>2, InitSearch, TypesAlways, GoodAlways, PTL DEF Spec
=============================================================================
