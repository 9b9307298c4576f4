------------------------ MODULE DispatchReaperProofs ------------------------
(***************************************************************************)
(* The reaper's verdicts (module Dispatch): reapBg lists rows, reads       *)
(* state.json and writes, in steps of its own, and what it writes must     *)
(* still be about the session the row records.                             *)
(*                                                                         *)
(* Two arguments, for two ways to run tq.  Where nobody resets, verdicts   *)
(* are traced to sessions (Traced), and an action has one session at most  *)
(* (DispatchLaunchProofs).  With resets, one worker and no `tq action      *)
(* dispatch`, what the worker collected stays fresh (Fresh): the only      *)
(* process that launches is the one that reaps.                            *)
(***************************************************************************)
EXTENDS DispatchLaunchProofs

\* The daemon has nothing more to do for a session.
Over(s) == session[s].state \in {"done", "failed", "gone"}

\* An interactive run with a recorded session at work.
AtWork(a) ==
    /\ status[a] = "running" /\ Mode[a] = "interactive" /\ row[a].short # NoSession
    /\ session[row[a].short].state = "working"

\* No verdict that is about to be written is about such a run.
Justified ==
    \A w \in Workers, a \in Actions : AtWork(a) =>
        /\ pc[w] = "dones" => \A d \in sweep[w].dones : d[1] # a
        /\ pc[w] = "fails" => a \notin sweep[w].fails

-----------------------------------------------------------------------------
(* What a step does to the traces of sessions.                             *)

\* Only the process that launched a session records it.
NewShorts ==
    \A a \in Actions : row'[a].short # row[a].short =>
        \E p \in Procs : /\ pc[p] = "record" /\ job[p].act = a
                         /\ row'[a].short = job[p].sess

\* A session keeps its action once it has one, and what is over stays over.
SessionsGoOn ==
    \A s \in Sessions :
        /\ session[s].state # "unused" => session'[s].for = session[s].for
        /\ session'[s].state = "unused" => session'[s] = session[s]
        /\ Over(s) => Over(s)'

\* Whoever is about to record a session has just launched it.
NewRecords ==
    \A p \in Procs : pc'[p] = "record" =>
        \/ pc[p] = "record" /\ job'[p] = job[p]
        \/ job'[p].sess \in Sessions /\ session'[job'[p].sess].for = job'[p].act

\* A worker lists what rows record, and its verdicts are about what it listed.
Collected(w) ==
    /\ \A l \in sweep'[w].listed : l \notin sweep[w].listed =>
          l.act \in Actions /\ row[l.act].short = l.short /\ l.short # NoSession
    /\ \A d \in sweep'[w].dones : d \notin sweep[w].dones =>
          \E l \in sweep[w].listed : l.act = d[1] /\ Over(l.short)
    /\ \A a \in sweep'[w].fails : a \notin sweep[w].fails =>
          \E l \in sweep[w].listed : l.act = a /\ (Over(l.short) \/ Mode[a] = "noninteractive")

SweepsGoOn == \A w \in Workers : Collected(w)

\* A process that goes anywhere else has nothing to record.
LEMMA NothingToRecord ==
    ASSUME Types, NEW p \in Procs, NEW l, Goto(p, l), l # "record",
           \A q \in Procs \ {p} : job'[q] = job[q]
    PROVE  NewRecords
BY DEF Goto, NewRecords, Types, PlacesOK

\* A step that leaves what workers collected alone ...
LEMMA NothingCollected ==
    ASSUME UNCHANGED sweep
    PROVE  SweepsGoOn
BY DEF SweepsGoOn, Collected

\* ... or takes some of it away.
LEMMA LessCollected ==
    ASSUME Types, NEW w \in Workers, NEW r, sweep' = [sweep EXCEPT ![w] = r],
           r.listed \subseteq sweep[w].listed, r.dones \subseteq sweep[w].dones,
           r.fails \subseteq sweep[w].fails
    PROVE  SweepsGoOn
BY DEF SweepsGoOn, Collected, Types, SweepsOK

\* movePending keeps what is recorded.
LEMMA PutBackKeepsShort ==
    ASSUME RowsOK, NEW b, NEW ripe, MovePending(b, ripe)
    PROVE  NewShorts
<1>1. row' = [x \in Actions |-> IF x = b THEN [row[x] EXCEPT !.age = 0, !.ripe = ripe]
                                         ELSE row[x]]
  BY DEF MovePending, RowsOK
<1>. QED
  BY <1>1 DEF NewShorts, RowsOK, Row

\* One step of the proof per action.
LEMMA HowTracesMove ==
    ASSUME Types, [Next]_vars
    PROVE  NewShorts /\ SessionsGoOn /\ NewRecords /\ SweepsGoOn
<1>. DEFINE Goal == NewShorts /\ SessionsGoOn /\ NewRecords /\ SweepsGoOn
<1>1. ASSUME NEW w \in Workers, ListOrphans(w)
      PROVE  Goal
  <2>1. NewShorts
    BY <1>1 DEF ListOrphans, NewShorts
  <2>2. SessionsGoOn
    BY <1>1 DEF ListOrphans, SessionsGoOn, Over
  <2>3. NewRecords
    <3>1. PICK l : Goto(w, l) /\ l # "record" /\ \A q \in Procs \ {w} : job'[q] = job[q]
      BY <1>1 DEF ListOrphans, Finished, Types, JobsOK
    <3>. QED
      BY <3>1, NothingToRecord DEF Procs
  <2>4. SweepsGoOn
    BY <1>1 DEF ListOrphans, NoSweep, SweepsGoOn, Collected, Types, SweepsOK, Sweep
  <2>. QED
    BY <2>1, <2>2, <2>3, <2>4
<1>2. ASSUME NEW w \in Workers, FailOrphans(w)
      PROVE  Goal
  <2>1. NewShorts
    BY <1>2 DEF FailOrphans, NewShorts, ResetAge, Types, RowsOK
  <2>2. SessionsGoOn
    BY <1>2 DEF FailOrphans, SessionsGoOn, Over
  <2>3. NewRecords
    <3>1. PICK l : Goto(w, l) /\ l # "record" /\ \A q \in Procs \ {w} : job'[q] = job[q]
      BY <1>2 DEF FailOrphans, Finished, Types, JobsOK
    <3>. QED
      BY <3>1, NothingToRecord DEF Procs
  <2>4. SweepsGoOn
    BY <1>2, LessCollected DEF FailOrphans, Types, SweepsOK, Sweep
  <2>. QED
    BY <2>1, <2>2, <2>3, <2>4
<1>3. ASSUME NEW w \in Workers, ListShorts(w)
      PROVE  Goal
  <2>1. NewShorts
    BY <1>3 DEF ListShorts, NewShorts
  <2>2. SessionsGoOn
    BY <1>3 DEF ListShorts, SessionsGoOn, Over
  <2>3. NewRecords
    <3>1. PICK l : Goto(w, l) /\ l # "record" /\ \A q \in Procs \ {w} : job'[q] = job[q]
      BY <1>3 DEF ListShorts, Finished, Types, JobsOK
    <3>. QED
      BY <3>1, NothingToRecord DEF Procs
  <2>4. SweepsGoOn
    BY <1>3 DEF ListShorts, SweepsGoOn, Collected, Over, SaysDone, SaysFailed, Types,
    SweepsOK, Sweep
  <2>. QED
    BY <2>1, <2>2, <2>3, <2>4
<1>4. ASSUME NEW w \in Workers, NEW unreadable, NEW withText, ReadStates(w, unreadable,
withText)
      PROVE  Goal
  <2>1. NewShorts
    BY <1>4 DEF ReadStates, NewShorts
  <2>2. SessionsGoOn
    BY <1>4 DEF ReadStates, SessionsGoOn, Over
  <2>3. NewRecords
    <3>1. PICK l : Goto(w, l) /\ l # "record" /\ \A q \in Procs \ {w} : job'[q] = job[q]
      BY <1>4, NextWriteIn DEF ReadStates, Finished, Types, JobsOK
    <3>. QED
      BY <3>1, NothingToRecord DEF Procs
  <2>4. SweepsGoOn
    BY <1>4 DEF ReadStates, SweepsGoOn, Collected, Over, SaysDone, SaysFailed, Types,
    SweepsOK, Sweep
  <2>. QED
    BY <2>1, <2>2, <2>3, <2>4
<1>5. ASSUME NEW w \in Workers, MergeSids(w)
      PROVE  Goal
  <2>1. NewShorts
    BY <1>5 DEF MergeSids, NewShorts, Types, RowsOK
  <2>2. SessionsGoOn
    BY <1>5 DEF MergeSids, SessionsGoOn, Over
  <2>3. NewRecords
    <3>1. PICK l : Goto(w, l) /\ l # "record" /\ \A q \in Procs \ {w} : job'[q] = job[q]
      BY <1>5, NextWriteIn DEF MergeSids, Finished, Types, JobsOK
    <3>. QED
      BY <3>1, NothingToRecord DEF Procs
  <2>4. SweepsGoOn
    BY <1>5, LessCollected DEF MergeSids, Types, SweepsOK, Sweep
  <2>. QED
    BY <2>1, <2>2, <2>3, <2>4
<1>6. ASSUME NEW w \in Workers, MarkDones(w)
      PROVE  Goal
  <2>1. NewShorts
    BY <1>6 DEF MarkDones, NewShorts, ResetAge, Types, RowsOK
  <2>2. SessionsGoOn
    BY <1>6 DEF MarkDones, SessionsGoOn, Over
  <2>3. NewRecords
    <3>1. PICK l : Goto(w, l) /\ l # "record" /\ \A q \in Procs \ {w} : job'[q] = job[q]
      BY <1>6, NextWriteIn DEF MarkDones, Finished, Types, JobsOK
    <3>. QED
      BY <3>1, NothingToRecord DEF Procs
  <2>4. SweepsGoOn
    <3>1. PICK late : sweep' = [sweep EXCEPT ![w].dones = {}, ![w].lost = late]
      BY <1>6 DEF MarkDones
    <3>2. sweep' = [sweep EXCEPT ![w] = [sweep[w] EXCEPT !.dones = {}, !.lost = late]]
      BY <3>1 DEF Types, SweepsOK
    <3>. QED
      BY <3>2, LessCollected DEF Types, SweepsOK, Sweep
  <2>. QED
    BY <2>1, <2>2, <2>3, <2>4
<1>7. ASSUME NEW w \in Workers, NEW a \in Actions, KeepSweptResult(w, a)
      PROVE  Goal
  <2>1. NewShorts
    BY <1>7 DEF KeepSweptResult, NewShorts, Types, RowsOK
  <2>2. SessionsGoOn
    BY <1>7 DEF KeepSweptResult, SessionsGoOn, Over
  <2>3. NewRecords
    <3>1. PICK l : Goto(w, l) /\ l # "record" /\ \A q \in Procs \ {w} : job'[q] = job[q]
      BY <1>7, NextWriteIn DEF KeepSweptResult, Finished, Types, JobsOK
    <3>. QED
      BY <3>1, NothingToRecord DEF Procs
  <2>4. SweepsGoOn
    BY <1>7, LessCollected DEF KeepSweptResult, Types, SweepsOK, Sweep
  <2>. QED
    BY <2>1, <2>2, <2>3, <2>4
<1>8. ASSUME NEW w \in Workers, MarkFails(w)
      PROVE  Goal
  <2>1. NewShorts
    BY <1>8 DEF MarkFails, NewShorts, ResetAge, Types, RowsOK
  <2>2. SessionsGoOn
    BY <1>8 DEF MarkFails, SessionsGoOn, Over
  <2>3. NewRecords
    <3>1. PICK l : Goto(w, l) /\ l # "record" /\ \A q \in Procs \ {w} : job'[q] = job[q]
      BY <1>8 DEF MarkFails, Finished, Types, JobsOK
    <3>. QED
      BY <3>1, NothingToRecord DEF Procs
  <2>4. SweepsGoOn
    BY <1>8, LessCollected DEF MarkFails, Types, SweepsOK, Sweep
  <2>. QED
    BY <2>1, <2>2, <2>3, <2>4
<1>9. ASSUME NEW w \in Workers, NEW a \in Actions, ClaimNext(w, a)
      PROVE  Goal
  <2>1. NewShorts
    BY <1>9 DEF ClaimNext, NewShorts, Claim, ResetAge, Types, RowsOK
  <2>2. SessionsGoOn
    BY <1>9 DEF ClaimNext, SessionsGoOn, Over
  <2>3. NewRecords
    <3>1. PICK l : Goto(w, l) /\ l # "record" /\ \A q \in Procs \ {w} : job'[q] = job[q]
      BY <1>9 DEF ClaimNext, Finished, Types, JobsOK
    <3>. QED
      BY <3>1, NothingToRecord DEF Procs
  <2>4. SweepsGoOn
    BY <1>9, LessCollected DEF ClaimNext, Types, SweepsOK, Sweep
  <2>. QED
    BY <2>1, <2>2, <2>3, <2>4
<1>10. ASSUME NEW w \in Workers, EndTick(w)
      PROVE  Goal
  <2>1. NewShorts
    BY <1>10 DEF EndTick, NewShorts
  <2>2. SessionsGoOn
    BY <1>10 DEF EndTick, SessionsGoOn, Over
  <2>3. NewRecords
    <3>1. PICK l : Goto(w, l) /\ l # "record" /\ \A q \in Procs \ {w} : job'[q] = job[q]
      BY <1>10 DEF EndTick, Finished, Types, JobsOK
    <3>. QED
      BY <3>1, NothingToRecord DEF Procs
  <2>4. SweepsGoOn
    BY <1>10, NothingCollected DEF EndTick
  <2>. QED
    BY <2>1, <2>2, <2>3, <2>4
<1>11. ASSUME NEW w \in Workers, Admit(w)
      PROVE  Goal
  <2>1. NewShorts
    BY <1>11 DEF Admit, NewShorts
  <2>2. SessionsGoOn
    BY <1>11 DEF Admit, SessionsGoOn, Over
  <2>3. NewRecords
    <3>1. PICK l : Goto(w, l) /\ l # "record" /\ \A q \in Procs \ {w} : job'[q] = job[q]
      BY <1>11 DEF Admit, Finished, Types, JobsOK
    <3>. QED
      BY <3>1, NothingToRecord DEF Procs
  <2>4. SweepsGoOn
    BY <1>11, NothingCollected DEF Admit
  <2>. QED
    BY <2>1, <2>2, <2>3, <2>4
<1>12. ASSUME NEW w \in Workers, DeferRead(w)
      PROVE  Goal
  <2>1. NewShorts
    BY <1>12 DEF DeferRead, NewShorts
  <2>2. SessionsGoOn
    BY <1>12 DEF DeferRead, SessionsGoOn, Over
  <2>3. NewRecords
    <3>1. PICK l : Goto(w, l) /\ l # "record" /\ \A q \in Procs \ {w} : job'[q] = job[q]
      BY <1>12 DEF DeferRead, Finished, Types, JobsOK
    <3>. QED
      BY <3>1, NothingToRecord DEF Procs
  <2>4. SweepsGoOn
    BY <1>12, NothingCollected DEF DeferRead
  <2>. QED
    BY <2>1, <2>2, <2>3, <2>4
<1>13. ASSUME NEW w \in Workers, DeferWrite(w)
      PROVE  Goal
  <2>1. NewShorts
    BY <1>13, PutBackKeepsShort DEF DeferWrite, Types, NewShorts
  <2>2. SessionsGoOn
    BY <1>13 DEF DeferWrite, SessionsGoOn, Over
  <2>3. NewRecords
    <3>1. PICK l : Goto(w, l) /\ l # "record" /\ \A q \in Procs \ {w} : job'[q] = job[q]
      BY <1>13 DEF DeferWrite, Finished, Types, JobsOK
    <3>. QED
      BY <3>1, NothingToRecord DEF Procs
  <2>4. SweepsGoOn
    BY <1>13, NothingCollected DEF DeferWrite
  <2>. QED
    BY <2>1, <2>2, <2>3, <2>4
<1>14. ASSUME NEW w \in Workers, TickError(w)
      PROVE  Goal
  <2>1. NewShorts
    BY <1>14 DEF TickError, NewShorts
  <2>2. SessionsGoOn
    BY <1>14 DEF TickError, SessionsGoOn, Over
  <2>3. NewRecords
    <3>1. PICK l : Goto(w, l) /\ l # "record" /\ \A q \in Procs \ {w} : job'[q] = job[q]
      BY <1>14, NextWriteIn DEF TickError, Finished, Types, JobsOK
    <3>. QED
      BY <3>1, NothingToRecord DEF Procs
  <2>4. SweepsGoOn
    BY <1>14 DEF TickError, NoSweep, SweepsGoOn, Collected, Types, SweepsOK, Sweep
  <2>. QED
    BY <2>1, <2>2, <2>3, <2>4
<1>15. ASSUME NEW p \in Procs, NEW s \in Sessions, Launch(p, s)
      PROVE  Goal
  <2>1. NewShorts
    BY <1>15 DEF Launch, NewShorts
  <2>2. SessionsGoOn
    BY <1>15 DEF Launch, SessionsGoOn, Over, Types, SessionsOK
  <2>3. NewRecords
    BY <1>15 DEF Launch, NewRecords, Goto, Types, PlacesOK, JobsOK, SessionsOK
  <2>4. SweepsGoOn
    BY <1>15, NothingCollected DEF Launch
  <2>. QED
    BY <2>1, <2>2, <2>3, <2>4
<1>16. ASSUME NEW p \in Procs, LaunchFails(p)
      PROVE  Goal
  <2>1. NewShorts
    BY <1>16 DEF LaunchFails, NewShorts
  <2>2. SessionsGoOn
    BY <1>16 DEF LaunchFails, SessionsGoOn, Over
  <2>3. NewRecords
    <3>1. PICK l : Goto(p, l) /\ l # "record" /\ \A q \in Procs \ {p} : job'[q] = job[q]
      BY <1>16 DEF LaunchFails, Finished, Types, JobsOK
    <3>. QED
      BY <3>1, NothingToRecord
  <2>4. SweepsGoOn
    BY <1>16, NothingCollected DEF LaunchFails
  <2>. QED
    BY <2>1, <2>2, <2>3, <2>4
<1>17. ASSUME NEW p \in Procs, RecordShort(p)
      PROVE  Goal
  <2>1. NewShorts
    BY <1>17 DEF RecordShort, NewShorts, Types, RowsOK
  <2>2. SessionsGoOn
    BY <1>17 DEF RecordShort, SessionsGoOn, Over
  <2>3. NewRecords
    <3>1. PICK l : Goto(p, l) /\ l # "record" /\ \A q \in Procs \ {p} : job'[q] = job[q]
      BY <1>17 DEF RecordShort, Finished, Types, JobsOK
    <3>. QED
      BY <3>1, NothingToRecord
  <2>4. SweepsGoOn
    BY <1>17, NothingCollected DEF RecordShort
  <2>. QED
    BY <2>1, <2>2, <2>3, <2>4
<1>18. ASSUME NEW p \in Procs, MarkDispatched(p)
      PROVE  Goal
  <2>1. NewShorts
    BY <1>18 DEF MarkDispatched, NewShorts, ResetAge, Types, RowsOK
  <2>2. SessionsGoOn
    BY <1>18 DEF MarkDispatched, SessionsGoOn, Over
  <2>3. NewRecords
    <3>1. PICK l : Goto(p, l) /\ l # "record" /\ \A q \in Procs \ {p} : job'[q] = job[q]
      BY <1>18 DEF MarkDispatched, Finished, Types, JobsOK
    <3>. QED
      BY <3>1, NothingToRecord
  <2>4. SweepsGoOn
    BY <1>18, NothingCollected DEF MarkDispatched
  <2>. QED
    BY <2>1, <2>2, <2>3, <2>4
<1>19. ASSUME NEW p \in Procs, Reject(p)
      PROVE  Goal
  <2>1. NewShorts
    BY <1>19 DEF Reject, NewShorts, MarkTerminal, ResetAge, Types, RowsOK
  <2>2. SessionsGoOn
    BY <1>19 DEF Reject, SessionsGoOn, Over
  <2>3. NewRecords
    <3>1. PICK l : Goto(p, l) /\ l # "record" /\ \A q \in Procs \ {p} : job'[q] = job[q]
      BY <1>19 DEF Reject, Finished, Types, JobsOK
    <3>. QED
      BY <3>1, NothingToRecord
  <2>4. SweepsGoOn
    BY <1>19, NothingCollected DEF Reject
  <2>. QED
    BY <2>1, <2>2, <2>3, <2>4
<1>20. ASSUME NEW p \in Procs, Crash(p)
      PROVE  Goal
  <2>1. NewShorts
    BY <1>20 DEF Crash, NewShorts
  <2>2. SessionsGoOn
    BY <1>20 DEF Crash, SessionsGoOn, Over
  <2>3. NewRecords
    <3>1. PICK l : Goto(p, l) /\ l # "record" /\ \A q \in Procs \ {p} : job'[q] = job[q]
      BY <1>20 DEF Crash, Finished, Types, JobsOK
    <3>. QED
      BY <3>1, NothingToRecord
  <2>4. SweepsGoOn
    BY <1>20 DEF Crash, NoSweep, SweepsGoOn, Collected, Types, SweepsOK, Sweep
  <2>. QED
    BY <2>1, <2>2, <2>3, <2>4
<1>21. ASSUME NEW p \in Procs, LastCallFails(p)
      PROVE  Goal
  <2>1. NewShorts
    BY <1>21 DEF LastCallFails, NewShorts
  <2>2. SessionsGoOn
    BY <1>21 DEF LastCallFails, SessionsGoOn, Over
  <2>3. NewRecords
    <3>1. PICK l : Goto(p, l) /\ l # "record" /\ \A q \in Procs \ {p} : job'[q] = job[q]
      BY <1>21 DEF LastCallFails, Finished, Types, JobsOK
    <3>. QED
      BY <3>1, NothingToRecord
  <2>4. SweepsGoOn
    BY <1>21, NothingCollected DEF LastCallFails
  <2>. QED
    BY <2>1, <2>2, <2>3, <2>4
<1>22. ASSUME NEW o \in Operators, NEW c \in Command, NEW a \in Actions, NEW text \in
BOOLEAN, Check(o, c, a, text)
      PROVE  Goal
  <2>1. NewShorts
    BY <1>22 DEF Check, NewShorts
  <2>2. SessionsGoOn
    BY <1>22 DEF Check, SessionsGoOn, Over
  <2>3. NewRecords
    <3>1. PICK l : Goto(o, l) /\ l # "record" /\ \A q \in Procs \ {o} : job'[q] = job[q]
      BY <1>22 DEF Check, Finished, FirstStep, Command, Types, JobsOK
    <3>. QED
      BY <3>1, NothingToRecord DEF Procs
  <2>4. SweepsGoOn
    BY <1>22, NothingCollected DEF Check
  <2>. QED
    BY <2>1, <2>2, <2>3, <2>4
<1>23. ASSUME NEW o \in Operators, Done(o)
      PROVE  Goal
  <2>1. NewShorts
    BY <1>23 DEF Done, NewShorts, MarkTerminal, ResetAge, Types, RowsOK
  <2>2. SessionsGoOn
    BY <1>23 DEF Done, SessionsGoOn, Over
  <2>3. NewRecords
    <3>1. PICK l : Goto(o, l) /\ l # "record" /\ \A q \in Procs \ {o} : job'[q] = job[q]
      BY <1>23 DEF Done, Finished, Types, JobsOK
    <3>. QED
      BY <3>1, NothingToRecord DEF Procs
  <2>4. SweepsGoOn
    BY <1>23, NothingCollected DEF Done
  <2>. QED
    BY <2>1, <2>2, <2>3, <2>4
<1>24. ASSUME NEW o \in Operators, KeepResult(o)
      PROVE  Goal
  <2>1. NewShorts
    BY <1>24 DEF KeepResult, NewShorts, Types, RowsOK
  <2>2. SessionsGoOn
    BY <1>24 DEF KeepResult, SessionsGoOn, Over
  <2>3. NewRecords
    <3>1. PICK l : Goto(o, l) /\ l # "record" /\ \A q \in Procs \ {o} : job'[q] = job[q]
      BY <1>24 DEF KeepResult, Finished, Types, JobsOK
    <3>. QED
      BY <3>1, NothingToRecord DEF Procs
  <2>4. SweepsGoOn
    BY <1>24, NothingCollected DEF KeepResult
  <2>. QED
    BY <2>1, <2>2, <2>3, <2>4
<1>25. ASSUME NEW o \in Operators, Fail(o)
      PROVE  Goal
  <2>1. NewShorts
    BY <1>25 DEF Fail, NewShorts, MarkTerminal, ResetAge, Types, RowsOK
  <2>2. SessionsGoOn
    BY <1>25 DEF Fail, SessionsGoOn, Over
  <2>3. NewRecords
    <3>1. PICK l : Goto(o, l) /\ l # "record" /\ \A q \in Procs \ {o} : job'[q] = job[q]
      BY <1>25 DEF Fail, Finished, Types, JobsOK
    <3>. QED
      BY <3>1, NothingToRecord DEF Procs
  <2>4. SweepsGoOn
    BY <1>25, NothingCollected DEF Fail
  <2>. QED
    BY <2>1, <2>2, <2>3, <2>4
<1>26. ASSUME NEW o \in Operators, Cancel(o)
      PROVE  Goal
  <2>1. NewShorts
    BY <1>26 DEF Cancel, NewShorts, MarkTerminal, ResetAge, Types, RowsOK
  <2>2. SessionsGoOn
    BY <1>26 DEF Cancel, SessionsGoOn, Over
  <2>3. NewRecords
    <3>1. PICK l : Goto(o, l) /\ l # "record" /\ \A q \in Procs \ {o} : job'[q] = job[q]
      BY <1>26 DEF Cancel, Finished, Types, JobsOK
    <3>. QED
      BY <3>1, NothingToRecord DEF Procs
  <2>4. SweepsGoOn
    BY <1>26, NothingCollected DEF Cancel
  <2>. QED
    BY <2>1, <2>2, <2>3, <2>4
<1>27. ASSUME NEW o \in Operators, ResetRead(o)
      PROVE  Goal
  <2>1. NewShorts
    BY <1>27 DEF ResetRead, NewShorts
  <2>2. SessionsGoOn
    BY <1>27 DEF ResetRead, SessionsGoOn, Over
  <2>3. NewRecords
    <3>1. PICK l : Goto(o, l) /\ l # "record" /\ \A q \in Procs \ {o} : job'[q] = job[q]
      BY <1>27 DEF ResetRead, Finished, Types, JobsOK
    <3>. QED
      BY <3>1, NothingToRecord DEF Procs
  <2>4. SweepsGoOn
    BY <1>27, NothingCollected DEF ResetRead
  <2>. QED
    BY <2>1, <2>2, <2>3, <2>4
<1>28. ASSUME NEW o \in Operators, ResetWrite(o)
      PROVE  Goal
  <2>1. NewShorts
    BY <1>28, PutBackKeepsShort DEF ResetWrite, Types, NewShorts
  <2>2. SessionsGoOn
    BY <1>28 DEF ResetWrite, SessionsGoOn, Over
  <2>3. NewRecords
    <3>1. PICK l : Goto(o, l) /\ l # "record" /\ \A q \in Procs \ {o} : job'[q] = job[q]
      BY <1>28 DEF ResetWrite, Finished, Types, JobsOK
    <3>. QED
      BY <3>1, NothingToRecord DEF Procs
  <2>4. SweepsGoOn
    BY <1>28, NothingCollected DEF ResetWrite
  <2>. QED
    BY <2>1, <2>2, <2>3, <2>4
<1>29. ASSUME NEW o \in Operators, NEW a \in Actions, ManualDispatch(o, a)
      PROVE  Goal
  <2>1. NewShorts
    BY <1>29 DEF ManualDispatch, NewShorts, Claim, ResetAge, Types, RowsOK
  <2>2. SessionsGoOn
    BY <1>29 DEF ManualDispatch, SessionsGoOn, Over
  <2>3. NewRecords
    <3>1. PICK l : Goto(o, l) /\ l # "record" /\ \A q \in Procs \ {o} : job'[q] = job[q]
      BY <1>29 DEF ManualDispatch, Finished, Types, JobsOK
    <3>. QED
      BY <3>1, NothingToRecord DEF Procs
  <2>4. SweepsGoOn
    BY <1>29, NothingCollected DEF ManualDispatch
  <2>. QED
    BY <2>1, <2>2, <2>3, <2>4
<1>30. ASSUME NEW s \in Sessions, NEW st \in Endings, SessionEnds(s, st)
      PROVE  Goal
  <2>1. NewShorts
    BY <1>30 DEF SessionEnds, NewShorts
  <2>2. SessionsGoOn
    BY <1>30, EndingsAssumption DEF SessionEnds, SessionsGoOn, Over, Types, SessionsOK
  <2>3. NewRecords
    BY <1>30 DEF SessionEnds, NewRecords, Types, SessionsOK, JobsOK
  <2>4. SweepsGoOn
    BY <1>30, NothingCollected DEF SessionEnds
  <2>. QED
    BY <2>1, <2>2, <2>3, <2>4
<1>31. ASSUME NEW s \in Sessions, CloudSessionRecords(s)
      PROVE  Goal
  <2>1. NewShorts
    BY <1>31 DEF CloudSessionRecords, NewShorts, Types, RowsOK
  <2>2. SessionsGoOn
    BY <1>31 DEF CloudSessionRecords, SessionsGoOn, Over
  <2>3. NewRecords
    BY <1>31 DEF CloudSessionRecords, NewRecords
  <2>4. SweepsGoOn
    BY <1>31, NothingCollected DEF CloudSessionRecords
  <2>. QED
    BY <2>1, <2>2, <2>3, <2>4
<1>32. ASSUME NEW a \in Actions, Ages(a)
      PROVE  Goal
  <2>1. NewShorts
    BY <1>32 DEF Ages, NewShorts, Types, RowsOK
  <2>2. SessionsGoOn
    BY <1>32 DEF Ages, SessionsGoOn, Over
  <2>3. NewRecords
    BY <1>32 DEF Ages, NewRecords
  <2>4. SweepsGoOn
    BY <1>32, NothingCollected DEF Ages
  <2>. QED
    BY <2>1, <2>2, <2>3, <2>4
<1>33. ASSUME NEW a \in Actions, Ripens(a)
      PROVE  Goal
  <2>1. NewShorts
    BY <1>33 DEF Ripens, NewShorts, Types, RowsOK
  <2>2. SessionsGoOn
    BY <1>33 DEF Ripens, SessionsGoOn, Over
  <2>3. NewRecords
    BY <1>33 DEF Ripens, NewRecords
  <2>4. SweepsGoOn
    BY <1>33, NothingCollected DEF Ripens
  <2>. QED
    BY <2>1, <2>2, <2>3, <2>4
<1>34. CASE UNCHANGED vars
  BY <1>34 DEF vars, NewShorts, SessionsGoOn, NewRecords, SweepsGoOn, Collected, Over
<1>. QED
  BY <1>1, <1>2, <1>3, <1>4, <1>5, <1>6, <1>7, <1>8, <1>9, <1>10, <1>11, <1>12, <1>13,
  <1>14, <1>15, <1>16, <1>17, <1>18, <1>19, <1>20, <1>21, <1>22, <1>23, <1>24, <1>25, <1>26,
  <1>27, <1>28, <1>29, <1>30, <1>31, <1>32, <1>33, <1>34
     DEF Next, Reap, DispatchOne, Execute, Operate, Environment

-----------------------------------------------------------------------------
(* From justified verdicts to the action property.                         *)

\* The worker's writes of its verdicts are the only steps that take it away
\* from them and change a status.
LEMMA HowVerdictsEnd ==
    ASSUME Types, [Next]_vars, NEW w \in Workers,
           pc[w] \in {"dones", "fails"}, pc'[w] # pc[w]
    PROVE  MarkDones(w) \/ MarkFails(w) \/ UNCHANGED status
<1>. USE ProcsAssumption DEF Procs, Types, PlacesOK
<1>1. ASSUME NEW u \in Workers, Reap(u)
      PROVE  MarkDones(w) \/ MarkFails(w) \/ UNCHANGED status
  BY <1>1 DEF Reap, ListOrphans, FailOrphans, ListShorts, ReadStates, MergeSids, MarkDones,
     MarkFails, KeepSweptResult, Goto
<1>2. ASSUME NEW u \in Workers, DispatchOne(u)
      PROVE  UNCHANGED status
  BY <1>2 DEF DispatchOne, ClaimNext, EndTick, Admit, DeferRead, DeferWrite, Goto
<1>3. ASSUME NEW u \in Workers, TickError(u)
      PROVE  UNCHANGED status
  BY <1>3 DEF TickError
<1>4. ASSUME NEW p \in Procs, Execute(p)
      PROVE  UNCHANGED status
  BY <1>4 DEF Execute, Launch, LaunchFails, RecordShort, MarkDispatched, Reject, Finished, Goto
<1>5. ASSUME NEW p \in Procs, Crash(p) \/ LastCallFails(p)
      PROVE  UNCHANGED status
  BY <1>5 DEF Crash, LastCallFails
<1>6. ASSUME NEW o \in Operators, Operate(o)
      PROVE  UNCHANGED status
  BY <1>6 DEF Operate, Check, Done, KeepResult, Fail, Cancel, ResetRead, ResetWrite,
     ManualDispatch, Finished, Goto
<1>7. ASSUME Environment
      PROVE  UNCHANGED status
  BY <1>7 DEF Environment, SessionEnds, CloudSessionRecords, Ages, Ripens
<1>. QED
  BY <1>1, <1>2, <1>3, <1>4, <1>5, <1>6, <1>7 DEF Next, vars

\* The body of WorkingSessionKeepsAction.
LEMMA VerdictsSpareWork ==
    ASSUME Types, Justified, [Next]_vars, NEW w \in Workers, NEW a \in Actions,
           pc[w] \in {"dones", "fails"}, pc'[w] # pc[w], AtWork(a)
    PROVE  status'[a] = "running"
<1>1. CASE MarkDones(w)
  <2>1. a \notin Open({d[1] : d \in sweep[w].dones})
    BY <1>1 DEF MarkDones, Justified, Open
  <2>. QED
    BY <1>1, <2>1 DEF MarkDones, SetStatus, AtWork, Types, StatusesOK
<1>2. CASE MarkFails(w)
  <2>1. a \notin Open(sweep[w].fails)
    BY <1>2 DEF MarkFails, Justified, Open
  <2>. QED
    BY <1>2, <2>1 DEF MarkFails, SetStatus, AtWork, Types, StatusesOK
<1>3. CASE UNCHANGED status
  BY <1>3 DEF AtWork
<1>. QED
  BY <1>1, <1>2, <1>3, HowVerdictsEnd

\* WorkingSessionKeepsAction for one step.
SparesWork ==
    \A w \in Workers, a \in Actions :
        /\ pc[w] \in {"dones", "fails"} /\ pc'[w] # pc[w]
        /\ status[a] = "running" /\ Mode[a] = "interactive"
        /\ row[a].short # NoSession
        /\ session[row[a].short].state = "working"
        => status'[a] = "running"

\* So justified verdicts give the property for one step.
LEMMA JustifiedSpares ==
    ASSUME Types, Justified, [Next]_vars
    PROVE  [SparesWork]_vars
BY VerdictsSpareWork DEF SparesWork, AtWork

-----------------------------------------------------------------------------
(* Where nobody resets.                                                    *)

\* Recorded and listed sessions, and the verdicts about them, belong to the
\* action they are kept with.
Traced ==
    /\ \A s \in Sessions : session[s].state = "unused" => session[s].for = NoAction
    /\ \A p \in Procs : pc[p] = "record" =>
          job[p].sess \in Sessions /\ session[job[p].sess].for = job[p].act
    /\ \A a \in Actions : row[a].short # NoSession => session[row[a].short].for = a
    /\ \A w \in Workers :
         /\ \A l \in sweep[w].listed : session[l.short].for = l.act
         /\ \A d \in sweep[w].dones : \E s \in Sessions : session[s].for = d[1] /\ Over(s)
         /\ \A a \in sweep[w].fails : \E s \in Sessions :
               session[s].for = a /\ (Over(s) \/ Mode[a] = "noninteractive")

\* At first there is nothing to trace.
LEMMA InitTraced == Init => Traced
<1>. SUFFICES ASSUME Init PROVE Traced
  OBVIOUS
<1>1. \A s \in Sessions : session[s].for = NoAction
  BY DEF Init
<1>2. \A p \in Procs : pc[p] # "record"
  BY DEF Init
<1>3. \A a \in Actions : row[a].short = NoSession
  BY DEF Init, FreshRow
<1>4. \A w \in Workers : sweep[w].listed = {} /\ sweep[w].dones = {} /\ sweep[w].fails = {}
  BY DEF Init, NoSweep
<1>. QED
  BY <1>1, <1>2, <1>3, <1>4 DEF Traced

\* No step loses a trace.
LEMMA TracedStep ==
    ASSUME Types, Traced, [Next]_vars
    PROVE  Traced'
<1>1. NewShorts /\ SessionsGoOn /\ NewRecords /\ SweepsGoOn
  BY HowTracesMove
<1>2. ASSUME NEW s \in Sessions, NEW a \in Actions, session[s].for = a
      PROVE  session'[s].for = a
  BY <1>1, <1>2, NoneAssumption DEF Traced, SessionsGoOn
<1>3. \A s \in Sessions : session'[s].state = "unused" => session'[s].for = NoAction
  BY <1>1 DEF Traced, SessionsGoOn
<1>4. \A p \in Procs : pc'[p] = "record" =>
         job'[p].sess \in Sessions /\ session'[job'[p].sess].for = job'[p].act
  BY <1>1, <1>2 DEF Traced, NewRecords, Types, Working, OnTheJob
<1>5. \A a \in Actions : row'[a].short # NoSession => session'[row'[a].short].for = a
  <2>1. SUFFICES ASSUME NEW a \in Actions, row'[a].short # NoSession
                 PROVE  session'[row'[a].short].for = a
    OBVIOUS
  <2>2. CASE row'[a].short = row[a].short
    BY <1>2, <2>1, <2>2 DEF Traced, Types, RowsOK, Row, MaybeSession
  <2>3. CASE row'[a].short # row[a].short
    BY <1>1, <1>2, <2>3 DEF Traced, NewShorts
  <2>. QED
    BY <2>2, <2>3
<1>6. ASSUME NEW w \in Workers
      PROVE  /\ \A l \in sweep'[w].listed : session'[l.short].for = l.act
             /\ \A d \in sweep'[w].dones : \E s \in Sessions : session'[s].for = d[1] /\ Over(s)'
             /\ \A a \in sweep'[w].fails : \E s \in Sessions :
                   session'[s].for = a /\ (Over(s)' \/ Mode[a] = "noninteractive")
  <2>1. /\ \A l \in sweep[w].listed : l.act \in Actions /\ l.short \in Sessions
        /\ \A d \in sweep[w].dones : d[1] \in Actions
        /\ sweep[w].fails \subseteq Actions
    BY DEF Types, SweepsOK, Sweep
  <2>2. ASSUME NEW l \in sweep'[w].listed
        PROVE  session'[l.short].for = l.act
    <3>1. CASE l \in sweep[w].listed
      BY <1>2, <2>1, <3>1 DEF Traced
    <3>2. CASE l \notin sweep[w].listed
      <4>1. l.act \in Actions /\ row[l.act].short = l.short /\ l.short # NoSession
        BY <1>1, <3>2 DEF SweepsGoOn, Collected
      <4>2. l.short \in Sessions
        BY <4>1 DEF Types, RowsOK, Row, MaybeSession
      <4>. QED
        BY <1>2, <4>1, <4>2 DEF Traced
    <3>. QED
      BY <3>1, <3>2
  <2>3. ASSUME NEW d \in sweep'[w].dones
        PROVE  \E s \in Sessions : session'[s].for = d[1] /\ Over(s)'
    <3>1. CASE d \in sweep[w].dones
      BY <1>1, <1>2, <2>1, <3>1 DEF Traced, SessionsGoOn
    <3>2. CASE d \notin sweep[w].dones
      <4>1. PICK l \in sweep[w].listed : l.act = d[1] /\ Over(l.short)
        BY <1>1, <3>2 DEF SweepsGoOn, Collected
      <4>. QED
        BY <1>1, <1>2, <2>1, <4>1 DEF Traced, SessionsGoOn
    <3>. QED
      BY <3>1, <3>2
  <2>4. ASSUME NEW a \in sweep'[w].fails
        PROVE  \E s \in Sessions :
                  session'[s].for = a /\ (Over(s)' \/ Mode[a] = "noninteractive")
    <3>1. CASE a \in sweep[w].fails
      BY <1>1, <1>2, <2>1, <3>1 DEF Traced, SessionsGoOn
    <3>2. CASE a \notin sweep[w].fails
      <4>1. PICK l \in sweep[w].listed :
               l.act = a /\ (Over(l.short) \/ Mode[a] = "noninteractive")
        BY <1>1, <3>2 DEF SweepsGoOn, Collected
      <4>. QED
        BY <1>1, <1>2, <2>1, <4>1 DEF Traced, SessionsGoOn
    <3>. QED
      BY <3>1, <3>2
  <2>. QED
    BY <2>2, <2>3, <2>4
<1>. QED
  BY <1>3, <1>4, <1>5, <1>6 DEF Traced

\* A verdict is about a session of the action, and the action has only one.
LEMMA TracedJustified ==
    ASSUME Types, Traced, LaunchedOnce
    PROVE  Justified
<1>. SUFFICES ASSUME NEW w \in Workers, NEW a \in Actions, AtWork(a)
              PROVE  /\ \A d \in sweep[w].dones : d[1] # a
                     /\ a \notin sweep[w].fails
  BY DEF Justified
<1>1. row[a].short \in Sessions /\ session[row[a].short].for = a
  BY DEF AtWork, Traced, Types, RowsOK, Row, MaybeSession
<1>2. \A s \in Sessions : session[s].for = a => ~ Over(s)
  BY <1>1, NoneAssumption DEF LaunchedOnce, AtWork, Over
<1>. QED
  BY <1>2 DEF Traced, AtWork

\* As long as nobody resets, however many workers there are and whoever
\* dispatches by hand, reapBg leaves an interactive run alone while its
\* recorded session is at work (dispatch/queue_worker.go, docs/dispatch.md).
THEOREM WorkSparedWithoutResets ==
    ASSUME NoResets
    PROVE  Spec => WorkingSessionKeepsAction
<1>1. Types /\ Traced /\ [Next]_vars => Traced'
  BY TracedStep
<1>2. Spec => []Traced
  BY <1>1, InitTraced, TypesAlways, PTL DEF Spec
<1>3. Types /\ Traced /\ LaunchedOnce /\ [Next]_vars => [SparesWork]_vars
  BY TracedJustified, JustifiedSpares
<1>4. Spec => [][SparesWork]_vars
  BY <1>2, <1>3, NeverLaunchedTwice, TypesAlways, PTL DEF Spec
<1>. QED
  BY <1>4 DEF WorkingSessionKeepsAction, SparesWork
-----------------------------------------------------------------------------
(* One worker and no manual dispatch.                                      *)

Alone ==
    /\ \A w, u \in Workers : w = u
    /\ \A o \in Operators : "dispatch" \notin Commands[o]

Writes  == {"merge", "dones", "keep", "fails"}
Reaping == Writes \cup {"read"}

\* The operators launch nothing.
NobodyElseLaunches ==
    \A o \in Operators :
        pc[o] \in {"idle", "done", "fail", "cancel", "keep", "resetRead", "resetWrite"}

\* A run the worker has a verdict about, if it still runs, is the run whose
\* session the verdict is about.
Deserved(a) ==
    status[a] = "running" =>
        /\ row[a].short \in Sessions
        /\ Over(row[a].short) \/ Mode[a] = "noninteractive"

\* What the worker collected is about the runs of now.
Fresh ==
    \A w \in Workers :
        /\ pc[w] = "read" =>
              \A l \in sweep[w].listed : status[l.act] = "running" => row[l.act].short = l.short
        /\ pc[w] \in Writes =>
              /\ \A d \in sweep[w].dones : Deserved(d[1])
              /\ \A a \in sweep[w].fails : Deserved(a)

\* Operators go on with what they issued.
LEMMA OperatorsStep ==
    ASSUME Alone, Types, NobodyElseLaunches, [Next]_vars
    PROVE  NobodyElseLaunches'
<1>. USE ProcsAssumption DEF Procs, Types, PlacesOK, NobodyElseLaunches
<1>1. ASSUME NEW w \in Workers, Reap(w)
      PROVE  NobodyElseLaunches'
  BY <1>1 DEF Reap, ListOrphans, FailOrphans, ListShorts, ReadStates, MergeSids, MarkDones,
     MarkFails, KeepSweptResult, Goto
<1>2. ASSUME NEW w \in Workers, DispatchOne(w)
      PROVE  NobodyElseLaunches'
  BY <1>2 DEF DispatchOne, ClaimNext, EndTick, Admit, DeferRead, DeferWrite, Goto
<1>3. ASSUME NEW w \in Workers, TickError(w)
      PROVE  NobodyElseLaunches'
  BY <1>3 DEF TickError, Goto
<1>4. ASSUME NEW p \in Procs, Execute(p)
      PROVE  NobodyElseLaunches'
  BY <1>4 DEF Execute, Launch, LaunchFails, RecordShort, MarkDispatched, Reject, Finished, Goto
<1>5. ASSUME NEW p \in Procs, Crash(p) \/ LastCallFails(p)
      PROVE  NobodyElseLaunches'
  BY <1>5 DEF Crash, LastCallFails, Finished, Goto
<1>6. ASSUME NEW o \in Operators, Operate(o)
      PROVE  NobodyElseLaunches'
  BY <1>6 DEF Operate, Check, Done, KeepResult, Fail, Cancel, ResetRead, ResetWrite,
     ManualDispatch, Finished, Goto, FirstStep, Command, Alone
<1>7. ASSUME Environment
      PROVE  NobodyElseLaunches'
  BY <1>7 DEF Environment, SessionEnds, CloudSessionRecords, Ages, Ripens
<1>. QED
  BY <1>1, <1>2, <1>3, <1>4, <1>5, <1>6, <1>7 DEF Next, vars

\* While the worker reaps, no run begins.
LEMMA NoRunBegins ==
    ASSUME Alone, Types, NobodyElseLaunches, [Next]_vars, NEW w \in Workers,
           pc[w] \in Reaping, NEW a \in Actions, status'[a] = "running"
    PROVE  status[a] = "running"
<1>. USE DEF Types, StatusesOK, Open, MarkTerminal, SetStatus, Reaping, Writes
<1>1. ASSUME NEW u \in Workers, Reap(u)
      PROVE  status[a] = "running"
  BY <1>1 DEF Reap, ListOrphans, FailOrphans, ListShorts, ReadStates, MergeSids, MarkDones,
     MarkFails, KeepSweptResult
<1>2. ASSUME NEW u \in Workers, DispatchOne(u)
      PROVE  status[a] = "running"
  BY <1>2 DEF DispatchOne, ClaimNext, EndTick, Admit, DeferRead, DeferWrite, MovePending, Alone
<1>3. ASSUME NEW u \in Workers, TickError(u)
      PROVE  status[a] = "running"
  BY <1>3 DEF TickError
<1>4. ASSUME NEW p \in Procs, Execute(p)
      PROVE  status[a] = "running"
  BY <1>4 DEF Execute, Launch, LaunchFails, RecordShort, MarkDispatched, Reject
<1>5. ASSUME NEW p \in Procs, Crash(p) \/ LastCallFails(p)
      PROVE  status[a] = "running"
  BY <1>5 DEF Crash, LastCallFails
<1>6. ASSUME NEW o \in Operators, Operate(o)
      PROVE  status[a] = "running"
  BY <1>6 DEF Operate, Check, Done, KeepResult, Fail, Cancel, ResetRead, ResetWrite,
     ManualDispatch, MovePending, Alone
<1>7. ASSUME Environment
      PROVE  status[a] = "running"
  BY <1>7 DEF Environment, SessionEnds, CloudSessionRecords, Ages, Ripens
<1>. QED
  BY <1>1, <1>2, <1>3, <1>4, <1>5, <1>6, <1>7 DEF Next, vars

\* A worker reads what it has just listed, and writes what it has just read.
GoesOn(w) ==
    /\ pc'[w] = "read" =>
          \/ pc[w] = "read" /\ sweep'[w] = sweep[w]
          \/ \A l \in sweep'[w].listed : row'[l.act].short = l.short
    /\ pc'[w] \in Writes =>
          \/ /\ pc[w] \in Writes
             /\ sweep'[w].dones \subseteq sweep[w].dones /\ sweep'[w].fails \subseteq sweep[w].fails
          \/ /\ pc[w] = "read" /\ UNCHANGED <<status, row, session>>
             /\ \A d \in sweep'[w].dones : \E l \in sweep[w].listed :
                   l.act = d[1] /\ Over(l.short)
             /\ \A a \in sweep'[w].fails : \E l \in sweep[w].listed :
                   l.act = a /\ (Over(l.short) \/ Mode[a] = "noninteractive")

\* One case per reaping step, and one per other part of the system.
LEMMA HowReapingGoesOn ==
    ASSUME Types, [Next]_vars, NEW w \in Workers
    PROVE  GoesOn(w)
<1>. USE ProcsAssumption DEF Types, PlacesOK, SweepsOK, Sweep, Procs, GoesOn, Writes, Goto
<1>1. ASSUME NEW u \in Workers, ListOrphans(u) \/ FailOrphans(u)
      PROVE  GoesOn(w)
  BY <1>1 DEF ListOrphans, FailOrphans
<1>2. ASSUME NEW u \in Workers, ListShorts(u)
      PROVE  GoesOn(w)
  BY <1>2 DEF ListShorts
<1>3. ASSUME NEW u \in Workers, NEW x, NEW t, ReadStates(u, x, t)
      PROVE  GoesOn(w)
  BY <1>3, NextWriteIn DEF ReadStates, SaysDone, SaysFailed, Over
<1>4. ASSUME NEW u \in Workers, MergeSids(u)
      PROVE  GoesOn(w)
  BY <1>4, NextWriteIn DEF MergeSids
<1>5. ASSUME NEW u \in Workers, MarkDones(u)
      PROVE  GoesOn(w)
  BY <1>5, NextWriteIn DEF MarkDones
<1>6. ASSUME NEW u \in Workers, NEW a \in Actions, KeepSweptResult(u, a)
      PROVE  GoesOn(w)
  BY <1>6, NextWriteIn DEF KeepSweptResult
<1>7. ASSUME NEW u \in Workers, MarkFails(u)
      PROVE  GoesOn(w)
  BY <1>7 DEF MarkFails
<1>8. ASSUME NEW u \in Workers, DispatchOne(u)
      PROVE  GoesOn(w)
  BY <1>8 DEF DispatchOne, ClaimNext, EndTick, Admit, DeferRead, DeferWrite
<1>9. ASSUME NEW u \in Workers, TickError(u)
      PROVE  GoesOn(w)
  BY <1>9, NextWriteIn DEF TickError
<1>10. ASSUME NEW p \in Procs, Execute(p)
       PROVE  GoesOn(w)
  BY <1>10 DEF Execute, Launch, LaunchFails, RecordShort, MarkDispatched, Reject, Finished
<1>11. ASSUME NEW p \in Procs, Crash(p) \/ LastCallFails(p)
       PROVE  GoesOn(w)
  BY <1>11 DEF Crash, LastCallFails, Finished
<1>12. ASSUME NEW o \in Operators, Operate(o)
       PROVE  GoesOn(w)
  BY <1>12 DEF Operate, Check, Done, KeepResult, Fail, Cancel, ResetRead, ResetWrite,
     ManualDispatch, Finished, FirstStep, Command
<1>13. ASSUME Environment
       PROVE  GoesOn(w)
  BY <1>13 DEF Environment, SessionEnds, CloudSessionRecords, Ages, Ripens
<1>. QED
  BY <1>1, <1>2, <1>3, <1>4, <1>5, <1>6, <1>7, <1>8, <1>9, <1>10, <1>11, <1>12, <1>13
     DEF Next, Reap, vars

\* What has been collected stays fresh.
LEMMA FreshStep ==
    ASSUME Alone, Types, NobodyElseLaunches, Fresh, [Next]_vars
    PROVE  Fresh'
<1>1. SUFFICES ASSUME NEW w \in Workers
               PROVE  /\ pc'[w] = "read" =>
                            \A l \in sweep'[w].listed :
                                status'[l.act] = "running" => row'[l.act].short = l.short
                      /\ pc'[w] \in Writes =>
                            /\ \A d \in sweep'[w].dones : Deserved(d[1])'
                            /\ \A a \in sweep'[w].fails : Deserved(a)'
  BY DEF Fresh
<1>2. GoesOn(w)
  BY HowReapingGoesOn
<1>3. SessionsGoOn /\ NewShorts
  BY HowTracesMove
<1>4. ASSUME pc[w] \in Reaping, NEW a \in Actions
      PROVE  /\ row'[a].short = row[a].short
             /\ status'[a] = "running" => status[a] = "running"
  <2>1. \A p \in Procs : pc[p] # "record"
    BY <1>4 DEF Alone, NobodyElseLaunches, Procs, Reaping, Writes
  <2>. QED
    BY <1>3, <1>4, <2>1, NoRunBegins DEF NewShorts
<1>5. ASSUME pc[w] \in Reaping, NEW a \in Actions, Deserved(a)
      PROVE  Deserved(a)'
  BY <1>3, <1>4, <1>5 DEF Deserved, SessionsGoOn
<1>6. /\ \A l \in sweep[w].listed : l.act \in Actions /\ l.short \in Sessions
      /\ \A d \in sweep[w].dones : d[1] \in Actions
      /\ sweep[w].fails \subseteq Actions
  BY DEF Types, SweepsOK, Sweep
<1>7. ASSUME pc'[w] = "read", NEW l \in sweep'[w].listed, status'[l.act] = "running"
      PROVE  row'[l.act].short = l.short
  <2>1. CASE pc[w] = "read" /\ sweep'[w] = sweep[w]
    BY <1>4, <1>6, <1>7, <2>1 DEF Fresh, Reaping
  <2>. QED
    BY <1>2, <1>7, <2>1 DEF GoesOn
<1>8. ASSUME pc'[w] \in Writes
      PROVE  /\ \A d \in sweep'[w].dones : Deserved(d[1])'
             /\ \A a \in sweep'[w].fails : Deserved(a)'
  <2>1. CASE /\ pc[w] \in Writes
             /\ sweep'[w].dones \subseteq sweep[w].dones /\ sweep'[w].fails \subseteq sweep[w].fails
    BY <1>5, <1>6, <2>1 DEF Fresh, Reaping
  <2>2. CASE /\ pc[w] = "read" /\ UNCHANGED <<status, row, session>>
             /\ \A d \in sweep'[w].dones : \E l \in sweep[w].listed :
                   l.act = d[1] /\ Over(l.short)
             /\ \A a \in sweep'[w].fails : \E l \in sweep[w].listed :
                   l.act = a /\ (Over(l.short) \/ Mode[a] = "noninteractive")
    <3>1. ASSUME NEW l \in sweep[w].listed, Over(l.short) \/ Mode[l.act] = "noninteractive"
          PROVE  Deserved(l.act)
      BY <1>6, <2>2, <3>1 DEF Fresh, Deserved
    <3>. QED
      BY <1>5, <1>6, <2>2, <3>1 DEF Reaping
  <2>. QED
    BY <1>2, <1>8, <2>1, <2>2 DEF GoesOn
<1>. QED
  BY <1>7, <1>8

\* At first nothing has been collected.
LEMMA InitFresh == Init => NobodyElseLaunches /\ Fresh
<1>. SUFFICES ASSUME Init PROVE NobodyElseLaunches /\ Fresh
  OBVIOUS
<1>1. \A p \in Procs : pc[p] = "idle"
  BY DEF Init
<1>. QED
  BY <1>1 DEF NobodyElseLaunches, Fresh, Writes, Procs

\* A fresh verdict is never about a session at work.
LEMMA FreshJustified ==
    ASSUME Fresh
    PROVE  Justified
<1>. SUFFICES ASSUME NEW w \in Workers, NEW a \in Actions, AtWork(a)
              PROVE  /\ pc[w] = "dones" => \A d \in sweep[w].dones : d[1] # a
                     /\ pc[w] = "fails" => a \notin sweep[w].fails
  BY DEF Justified
<1>1. ~ Deserved(a)
  BY DEF Deserved, AtWork, Over
<1>. QED
  BY <1>1 DEF Fresh, Writes

\* With resets, one worker at a time and nobody who dispatches by hand, reapBg
\* never writes an old verdict to a new run (dispatch/queue_worker.go): the
\* worker is the only one to launch, and reaps before it does.
THEOREM WorkSparedByOneWorker ==
    ASSUME Alone
    PROVE  Spec => WorkingSessionKeepsAction
<1>1. Types /\ NobodyElseLaunches /\ [Next]_vars => NobodyElseLaunches'
  BY OperatorsStep
<1>2. Spec => []NobodyElseLaunches
  BY <1>1, InitFresh, TypesAlways, PTL DEF Spec
<1>3. Types /\ NobodyElseLaunches /\ Fresh /\ [Next]_vars => Fresh'
  BY FreshStep
<1>4. Spec => []Fresh
  BY <1>2, <1>3, InitFresh, TypesAlways, PTL DEF Spec
<1>5. Types /\ Fresh /\ [Next]_vars => [SparesWork]_vars
  BY FreshJustified, JustifiedSpares
<1>6. Spec => [][SparesWork]_vars
  BY <1>4, <1>5, TypesAlways, PTL DEF Spec
<1>. QED
  BY <1>6 DEF WorkingSessionKeepsAction, SparesWork
=============================================================================
