---------------------- MODULE DispatchLifecycleProofs ----------------------
(***************************************************************************)
(* Module Dispatch implements module ActionLifecycle, and loses no result, *)
(* if one process resets at a time.                                        *)
(*                                                                         *)
(* Without that assumption it does not (run reset_race): `tq action reset` *)
(* checks the status before, and outside, its write.  With it, CheckHolds  *)
(* is inductive: nothing but a reset moves a failed or cancelled action.   *)
(***************************************************************************)
EXTENDS DispatchProofs

\* At most one of the operators ever issues `tq action reset`.
SingleResetter ==
    \A o1, o2 \in Operators : "reset" \in Commands[o1] \cap Commands[o2] => o1 = o2

Resetting == {"resetRead", "resetWrite"}

\* What `tq action reset` has checked still holds when it writes.
CheckHolds ==
    \A o \in Operators : pc[o] \in Resetting =>
        /\ "reset" \in Commands[o]
        /\ status[job[o].act] \in {"failed", "cancelled"}
        /\ pc[o] = "resetWrite" => job[o].from = status[job[o].act]

Kept == {a \in Actions : row[a].kept}

\* The kept results are those of the rows.
LEMMA SameKept ==
    ASSUME RowsOK, RowsOK', \A a \in Actions : row'[a].kept = row[a].kept
    PROVE  Kept' = Kept
BY DEF Kept

\* A new started_at touches no kept result.
LEMMA AgeKeepsKept ==
    ASSUME RowsOK, NEW S, row' = ResetAge(S)
    PROVE  \A a \in Actions : row'[a].kept = row[a].kept
BY DEF RowsOK, ResetAge, Row

\* In each of the lemmas below a store operation is a step of the lifecycle.
LEMMA Concludes ==
    ASSUME NEW S \in SUBSET Actions, NEW T \in SUBSET Actions, NEW st \in Terminal,
           Promise!Conclude(S, st, T)
    PROVE  Promise!Next
BY DEF Promise!Next, Promise!Terminal, Terminal

\* What markTerminal changes is live.
LEMMA OpenIsLive ==
    ASSUME StatusesOK, NEW S, NEW a \in Open(S), S \subseteq Actions
    PROVE  a \in Actions /\ status[a] \in Promise!Live
BY DEF StatusesOK, Open, Status, Terminal, Promise!Live

\* markTerminal and its bulk forms.
LEMMA EndIsConclusion ==
    ASSUME StatusesOK, RowsOK, RowsOK', NEW S \in SUBSET Actions, NEW T \in SUBSET Actions,
           NEW st \in Terminal,
           SetStatus(Open(S), st), row' = ResetAge(Open(S)),
           acked' = acked \cup T, \A a \in T : status'[a] = "done"
    PROVE  Promise!Next
<1>1. Open(S) \in SUBSET Actions
  BY DEF Open
<1>2. Kept' = Kept
  BY AgeKeepsKept, SameKept
<1>3. \A a \in Open(S) : status[a] \in Promise!Live
  BY OpenIsLive
<1>4. status' = [a \in Actions |-> IF a \in Open(S) THEN st ELSE status[a]]
  BY DEF SetStatus
<1>. QED
  BY <1>1, <1>2, <1>3, <1>4, Concludes DEF Promise!Conclude, Kept

\* ... of failed and cancelled actions: nobody is told of a result.
LEMMA EndWithoutResult ==
    ASSUME StatusesOK, RowsOK, RowsOK', NEW S \in SUBSET Actions, NEW st \in Terminal,
           SetStatus(Open(S), st), row' = ResetAge(Open(S)), UNCHANGED acked
    PROVE  Promise!Next
<1>1. PICK T \in SUBSET Actions : T = {}
  OBVIOUS
<1>2. acked' = acked \cup T /\ \A a \in T : status'[a] = "done"
  BY <1>1
<1>. QED
  BY <1>2, EndIsConclusion

\* NextPending and ClaimPending.
LEMMA ClaimIsClaim ==
    ASSUME StatusesOK, RowsOK, RowsOK', NEW a \in Actions, status[a] = "pending", Claim(a),
           UNCHANGED acked
    PROVE  Promise!Next
<1>1. Kept' = Kept
  BY AgeKeepsKept, SameKept DEF Claim
<1>2. status' = [status EXCEPT ![a] = "running"]
  BY DEF Claim, SetStatus, StatusesOK
<1>. QED
  BY <1>1, <1>2 DEF Promise!Next, Promise!Claim, Promise!Move, Kept

\* movePending, from where its callers find the action.
LEMMA PutBackIsDeferOrRevive ==
    ASSUME StatusesOK, RowsOK, RowsOK', NEW a \in Actions, NEW ripe \in BOOLEAN,
           status[a] \in {"running", "failed", "cancelled"}, MovePending(a, ripe),
           UNCHANGED acked
    PROVE  Promise!Next
<1>1. \A x \in Actions : row'[x].kept = row[x].kept
  BY DEF MovePending, RowsOK, Row
<1>2. Kept' = Kept
  BY <1>1, SameKept
<1>3. status' = [status EXCEPT ![a] = "pending"]
  BY DEF MovePending, SetStatus, StatusesOK
<1>. QED
  BY <1>2, <1>3 DEF Promise!Next, Promise!Defer, Promise!Revive, Promise!Move, Kept

\* preserveSuccessfulResultOnRaceLoss.
LEMMA KeepIsArchive ==
    ASSUME RowsOK, NEW a \in Actions, row' = [row EXCEPT ![a].kept = TRUE],
           acked' = acked \cup {a}, UNCHANGED status
    PROVE  Promise!Next
<1>1. Kept' = Kept \cup {a}
  BY DEF Kept, RowsOK, Row
<1>. QED
  BY <1>1 DEF Promise!Next, Promise!Archive, Kept

\* Every step of the system is one of the lifecycle, or changes nothing in it.
LEMMA PromiseStep ==
    ASSUME Types, Types', CheckHolds, [Next]_vars
    PROVE  [Promise!Next]_(Promise!vars)
<1>. DEFINE Goal == [Promise!Next]_(Promise!vars)
<1>1. ASSUME NEW w \in Workers, ListOrphans(w)
      PROVE  Goal
  BY <1>1 DEF ListOrphans, Promise!vars
<1>2. ASSUME NEW w \in Workers, FailOrphans(w)
      PROVE  Goal
  <2>1. sweep[w].orphans \in SUBSET Actions
    BY DEF Types, SweepsOK, Sweep
  <2>. QED
    BY <1>2, <2>1, EndWithoutResult DEF FailOrphans, Types, Terminal
<1>3. ASSUME NEW w \in Workers, ListShorts(w)
      PROVE  Goal
  BY <1>3 DEF ListShorts, Promise!vars
<1>4. ASSUME NEW w \in Workers, NEW unreadable, NEW withText, ReadStates(w, unreadable,
             withText)
      PROVE  Goal
  BY <1>4 DEF ReadStates, Promise!vars
<1>5. ASSUME NEW w \in Workers, MergeSids(w)
      PROVE  Goal
  <2>1. \A x \in Actions : row'[x].kept = row[x].kept
    BY <1>5 DEF MergeSids, Types, RowsOK, Row
  <2>. QED
    BY <1>5, <2>1, SameKept DEF MergeSids, Types, Promise!vars, Kept
<1>6. ASSUME NEW w \in Workers, MarkDones(w)
      PROVE  Goal
  <2>. DEFINE attempted == {d[1] : d \in sweep[w].dones}
              late == {d[1] : d \in {d \in sweep[w].dones : LosesResult(d[1], d[2])}}
              told == {d[1] : d \in {d \in sweep[w].dones : d[2]}} \ late
  <2>1. sweep[w].dones \subseteq Actions \X BOOLEAN
    BY DEF Types, SweepsOK, Sweep
  <2>2. attempted \in SUBSET Actions /\ told \in SUBSET Actions
    BY <2>1
  <2>3. /\ SetStatus(Open(attempted), "done")
        /\ row' = ResetAge(Open(attempted))
        /\ acked' = acked \cup told
    BY <1>6 DEF MarkDones
  <2>4. ASSUME NEW a \in told
        PROVE  status'[a] = "done"
    <3>1. PICK d \in sweep[w].dones : d[2] /\ d[1] = a
      OBVIOUS
    <3>2. a \in attempted /\ a \in Actions
      BY <2>1, <3>1
    <3>3. ~ LosesResult(a, d[2])
      BY <3>1
    <3>4. status[a] \notin {"failed", "cancelled"}
      BY <3>1, <3>3 DEF LosesResult
    <3>. HIDE DEF attempted, told, late
    <3>. QED
      BY <2>3, <3>2, <3>4 DEF SetStatus, Open, Terminal, Types, StatusesOK, Status
  <2>. HIDE DEF attempted, told, late
  <2>. QED
    BY <2>2, <2>3, <2>4, EndIsConclusion DEF Types, Terminal
<1>7. ASSUME NEW w \in Workers, NEW a \in Actions, KeepSweptResult(w, a)
      PROVE  Goal
  BY <1>7, KeepIsArchive DEF KeepSweptResult, Types
<1>8. ASSUME NEW w \in Workers, MarkFails(w)
      PROVE  Goal
  <2>1. sweep[w].fails \in SUBSET Actions
    BY DEF Types, SweepsOK, Sweep
  <2>. QED
    BY <1>8, <2>1, EndWithoutResult DEF MarkFails, Types, Terminal
<1>9. ASSUME NEW w \in Workers, NEW a \in Actions, ClaimNext(w, a)
      PROVE  Goal
  BY <1>9, ClaimIsClaim DEF ClaimNext, Types
<1>10. ASSUME NEW w \in Workers, EndTick(w)
      PROVE  Goal
  BY <1>10 DEF EndTick, Promise!vars
<1>11. ASSUME NEW w \in Workers, Admit(w)
      PROVE  Goal
  BY <1>11 DEF Admit, Promise!vars
<1>12. ASSUME NEW w \in Workers, DeferRead(w)
      PROVE  Goal
  BY <1>12 DEF DeferRead, Promise!vars
<1>13. ASSUME NEW w \in Workers, DeferWrite(w)
      PROVE  Goal
  <2>1. job[w].act \in Actions
    BY <1>13 DEF DeferWrite, Types, Working, OnTheJob, Procs
  <2>2. CASE status[job[w].act] = "running"
    BY <1>13, <2>1, <2>2, PutBackIsDeferOrRevive DEF DeferWrite, Types
  <2>3. CASE status[job[w].act] # "running"
    BY <1>13, <2>3 DEF DeferWrite, Promise!vars
  <2>. QED
    BY <2>2, <2>3
<1>14. ASSUME NEW w \in Workers, TickError(w)
      PROVE  Goal
  BY <1>14 DEF TickError, Promise!vars
<1>15. ASSUME NEW p \in Procs, NEW s \in Sessions, Launch(p, s)
      PROVE  Goal
  BY <1>15 DEF Launch, Promise!vars
<1>16. ASSUME NEW p \in Procs, LaunchFails(p)
      PROVE  Goal
  BY <1>16 DEF LaunchFails, Promise!vars
<1>17. ASSUME NEW p \in Procs, RecordShort(p)
      PROVE  Goal
  <2>1. \A x \in Actions : row'[x].kept = row[x].kept
    BY <1>17 DEF RecordShort, Types, RowsOK, Row
  <2>. QED
    BY <1>17, <2>1, SameKept DEF RecordShort, Types, Promise!vars, Kept
<1>18. ASSUME NEW p \in Procs, MarkDispatched(p)
      PROVE  Goal
  <2>. DEFINE a == job[p].act
              S == {a} \cap {x \in Actions : status[x] = "running"}
  <2>1. a \in Actions
    BY <1>18 DEF MarkDispatched, Types, Working, OnTheJob
  <2>2. SetStatus(S, "dispatched") /\ row' = ResetAge(S) /\ UNCHANGED acked
    BY <1>18 DEF MarkDispatched
  <2>3. Kept' = Kept
    BY <2>2, AgeKeepsKept, SameKept DEF Types
  <2>4. CASE status[a] = "running"
    <3>1. status' = [status EXCEPT ![a] = "dispatched"]
      BY <2>1, <2>2, <2>4 DEF SetStatus, Types, StatusesOK
    <3>. HIDE DEF a
    <3>. QED
      BY <2>1, <2>2, <2>3, <2>4, <3>1 DEF Promise!Next, Promise!HandOver, Promise!Move, Kept
  <2>5. CASE status[a] # "running"
    <3>1. status' = status
      BY <2>2, <2>5 DEF SetStatus, Types, StatusesOK
    <3>. QED
      BY <2>2, <2>3, <3>1 DEF Promise!vars, Kept
  <2>. QED
    BY <2>4, <2>5
<1>19. ASSUME NEW p \in Procs, Reject(p)
      PROVE  Goal
  <2>1. {job[p].act} \in SUBSET Actions
    BY <1>19 DEF Reject, Types, Working, OnTheJob, Procs
  <2>. QED
    BY <1>19, <2>1, EndWithoutResult DEF Reject, MarkTerminal, Types, Terminal
<1>20. ASSUME NEW p \in Procs, Crash(p)
      PROVE  Goal
  BY <1>20 DEF Crash, Promise!vars
<1>21. ASSUME NEW p \in Procs, LastCallFails(p)
      PROVE  Goal
  BY <1>21 DEF LastCallFails, Promise!vars
<1>22. ASSUME NEW o \in Operators, NEW c \in Command, NEW a \in Actions, NEW text \in BOOLEAN,
              Check(o, c, a, text)
      PROVE  Goal
  BY <1>22 DEF Check, Promise!vars
<1>23. ASSUME NEW o \in Operators, Done(o)
      PROVE  Goal
  <2>. DEFINE a == job[o].act
              T == IF job[o].text /\ ~ LosesResult(a, job[o].text) THEN {a} ELSE {}
  <2>1. a \in Actions /\ {a} \in SUBSET Actions /\ T \in SUBSET Actions
    BY <1>23 DEF Done, Types, Working, Procs
  <2>2. MarkTerminal(a, "done") /\ acked' = acked \cup T
    BY <1>23 DEF Done, LosesResult
  <2>3. \A x \in T : status'[x] = "done"
    BY <2>1, <2>2 DEF LosesResult, MarkTerminal, SetStatus, Open, Terminal, Types, StatusesOK,
       Status
  <2>. HIDE DEF a, T
  <2>. QED
    BY <2>1, <2>2, <2>3, EndIsConclusion DEF MarkTerminal, Types, Terminal
<1>24. ASSUME NEW o \in Operators, KeepResult(o)
      PROVE  Goal
  <2>1. job[o].act \in Actions
    BY <1>24 DEF KeepResult, Types, Working
  <2>. QED
    BY <1>24, <2>1, KeepIsArchive DEF KeepResult, Types
<1>25. ASSUME NEW o \in Operators, Fail(o)
      PROVE  Goal
  <2>1. {job[o].act} \in SUBSET Actions
    BY <1>25 DEF Fail, Types, Working, OnTheJob, Procs
  <2>. QED
    BY <1>25, <2>1, EndWithoutResult DEF Fail, MarkTerminal, Types, Terminal
<1>26. ASSUME NEW o \in Operators, Cancel(o)
      PROVE  Goal
  <2>1. {job[o].act} \in SUBSET Actions
    BY <1>26 DEF Cancel, Types, Working, OnTheJob, Procs
  <2>. QED
    BY <1>26, <2>1, EndWithoutResult DEF Cancel, MarkTerminal, Types, Terminal
<1>27. ASSUME NEW o \in Operators, ResetRead(o)
      PROVE  Goal
  BY <1>27 DEF ResetRead, Promise!vars
<1>28. ASSUME NEW o \in Operators, ResetWrite(o)
      PROVE  Goal
  <2>1. job[o].act \in Actions /\ status[job[o].act] \in {"failed", "cancelled"}
    BY <1>28 DEF ResetWrite, Types, Working, CheckHolds, Resetting
  <2>2. CASE status[job[o].act] = job[o].from
    BY <1>28, <2>1, <2>2, PutBackIsDeferOrRevive DEF ResetWrite, Types
  <2>3. CASE status[job[o].act] # job[o].from
    BY <1>28, <2>3 DEF ResetWrite, Promise!vars
  <2>. QED
    BY <2>2, <2>3
<1>29. ASSUME NEW o \in Operators, NEW a \in Actions, ManualDispatch(o, a)
      PROVE  Goal
  BY <1>29, ClaimIsClaim DEF ManualDispatch, Types
<1>30. ASSUME NEW s \in Sessions, NEW st \in Endings, SessionEnds(s, st)
      PROVE  Goal
  BY <1>30 DEF SessionEnds, Promise!vars
<1>31. ASSUME NEW s \in Sessions, CloudSessionRecords(s)
      PROVE  Goal
  <2>1. \A x \in Actions : row'[x].kept = row[x].kept
    BY <1>31 DEF CloudSessionRecords, Types, RowsOK, Row
  <2>. QED
    BY <1>31, <2>1, SameKept DEF CloudSessionRecords, Types, Promise!vars, Kept
<1>32. ASSUME NEW a \in Actions, Ages(a)
      PROVE  Goal
  <2>1. \A x \in Actions : row'[x].kept = row[x].kept
    BY <1>32 DEF Ages, Types, RowsOK, Row
  <2>. QED
    BY <1>32, <2>1, SameKept DEF Ages, Types, Promise!vars, Kept
<1>33. ASSUME NEW a \in Actions, Ripens(a)
      PROVE  Goal
  <2>1. \A x \in Actions : row'[x].kept = row[x].kept
    BY <1>33 DEF Ripens, Types, RowsOK, Row
  <2>. QED
    BY <1>33, <2>1, SameKept DEF Ripens, Types, Promise!vars, Kept
<1>34. CASE UNCHANGED vars
  BY <1>34 DEF vars, Promise!vars
<1>. QED
  BY <1>1, <1>2, <1>3, <1>4, <1>5, <1>6, <1>7, <1>8, <1>9, <1>10, <1>11, <1>12, <1>13, <1>14,
     <1>15, <1>16, <1>17, <1>18, <1>19, <1>20, <1>21, <1>22, <1>23, <1>24, <1>25, <1>26, <1>27,
     <1>28, <1>29, <1>30, <1>31, <1>32, <1>33, <1>34
     DEF Next, Reap, DispatchOne, Execute, Operate, Environment

-----------------------------------------------------------------------------
(* The check of `tq action reset` holds until its write.                   *)

FailedStay ==
    \A a \in Actions : status[a] \in {"failed", "cancelled"} => status'[a] = status[a]

\* Ending open actions leaves failed and cancelled ones alone.
LEMMA OpenStay ==
    ASSUME StatusesOK, NEW S, NEW st, SetStatus(Open(S), st)
    PROVE  FailedStay
BY DEF StatusesOK, SetStatus, Open, Terminal, FailedStay

\* So does a write to one action that is neither.
LEMMA OneStays ==
    ASSUME StatusesOK, NEW a, NEW st, status[a] \notin {"failed", "cancelled"}, SetStatus({a},
           st)
    PROVE  FailedStay
BY DEF StatusesOK, SetStatus, FailedStay

\* A step of another process, or the end of a reset.
LEMMA CheckUntouched ==
    ASSUME Types, CheckHolds, NEW p, NEW l, Goto(p, l), l \notin Resetting, FailedStay,
           \A q \in Procs : q # p => job'[q] = job[q]
    PROVE  CheckHolds'
<1>. SUFFICES ASSUME NEW o \in Operators, pc'[o] \in Resetting
              PROVE  /\ "reset" \in Commands[o]
                     /\ status'[job'[o].act] \in {"failed", "cancelled"}
                     /\ pc'[o] = "resetWrite" => job'[o].from = status'[job'[o].act]
  BY DEF CheckHolds
<1>1. o # p /\ pc'[o] = pc[o]
  BY DEF Goto, Types, PlacesOK, Procs
<1>2. job'[o] = job[o]
  BY <1>1 DEF Procs
<1>3. job[o].act \in Actions
  BY <1>1 DEF Types, Working, Resetting
<1>. QED
  BY <1>1, <1>2, <1>3 DEF CheckHolds, FailedStay

\* Every step keeps CheckHolds.
LEMMA CheckStep ==
    ASSUME SingleResetter, Types, CheckHolds, [Next]_vars
    PROVE  CheckHolds'
<1>1. ASSUME NEW w \in Workers, ListOrphans(w)
      PROVE  CheckHolds'
  <2>1. FailedStay
    BY <1>1 DEF ListOrphans, FailedStay
  <2>2. \A q \in Procs : q # w => job'[q] = job[q]
    BY <1>1 DEF ListOrphans, Finished, Types, JobsOK
  <2>3. PICK l \in PC \ Resetting : Goto(w, l)
    BY <1>1 DEF ListOrphans, Finished, PC, Resetting
  <2>. QED
    BY <2>1, <2>2, <2>3, CheckUntouched
<1>2. ASSUME NEW w \in Workers, FailOrphans(w)
      PROVE  CheckHolds'
  <2>1. FailedStay
    BY <1>2, OpenStay DEF FailOrphans, Types
  <2>2. \A q \in Procs : q # w => job'[q] = job[q]
    BY <1>2 DEF FailOrphans, Finished, Types, JobsOK
  <2>3. PICK l \in PC \ Resetting : Goto(w, l)
    BY <1>2 DEF FailOrphans, Finished, PC, Resetting
  <2>. QED
    BY <2>1, <2>2, <2>3, CheckUntouched
<1>3. ASSUME NEW w \in Workers, ListShorts(w)
      PROVE  CheckHolds'
  <2>1. FailedStay
    BY <1>3 DEF ListShorts, FailedStay
  <2>2. \A q \in Procs : q # w => job'[q] = job[q]
    BY <1>3 DEF ListShorts, Finished, Types, JobsOK
  <2>3. PICK l \in PC \ Resetting : Goto(w, l)
    BY <1>3 DEF ListShorts, Finished, PC, Resetting
  <2>. QED
    BY <2>1, <2>2, <2>3, CheckUntouched
<1>4. ASSUME NEW w \in Workers, NEW unreadable, NEW withText,
             ReadStates(w, unreadable, withText)
      PROVE  CheckHolds'
  <2>1. FailedStay
    BY <1>4 DEF ReadStates, FailedStay
  <2>2. \A q \in Procs : q # w => job'[q] = job[q]
    BY <1>4 DEF ReadStates, Finished, Types, JobsOK
  <2>3. PICK l \in PC \ Resetting : Goto(w, l)
    BY <1>4, NextWriteIn DEF ReadStates, Finished, PC, Resetting
  <2>. QED
    BY <2>1, <2>2, <2>3, CheckUntouched
<1>5. ASSUME NEW w \in Workers, MergeSids(w)
      PROVE  CheckHolds'
  <2>1. FailedStay
    BY <1>5 DEF MergeSids, FailedStay
  <2>2. \A q \in Procs : q # w => job'[q] = job[q]
    BY <1>5 DEF MergeSids, Finished, Types, JobsOK
  <2>3. PICK l \in PC \ Resetting : Goto(w, l)
    BY <1>5, NextWriteIn DEF MergeSids, Finished, PC, Resetting
  <2>. QED
    BY <2>1, <2>2, <2>3, CheckUntouched
<1>6. ASSUME NEW w \in Workers, MarkDones(w)
      PROVE  CheckHolds'
  <2>1. FailedStay
    BY <1>6, OpenStay DEF MarkDones, Types
  <2>2. \A q \in Procs : q # w => job'[q] = job[q]
    BY <1>6 DEF MarkDones, Finished, Types, JobsOK
  <2>3. PICK l \in PC \ Resetting : Goto(w, l)
    BY <1>6, NextWriteIn DEF MarkDones, Finished, PC, Resetting
  <2>. QED
    BY <2>1, <2>2, <2>3, CheckUntouched
<1>7. ASSUME NEW w \in Workers, NEW a \in Actions, KeepSweptResult(w, a)
      PROVE  CheckHolds'
  <2>1. FailedStay
    BY <1>7 DEF KeepSweptResult, FailedStay
  <2>2. \A q \in Procs : q # w => job'[q] = job[q]
    BY <1>7 DEF KeepSweptResult, Finished, Types, JobsOK
  <2>3. PICK l \in PC \ Resetting : Goto(w, l)
    BY <1>7, NextWriteIn DEF KeepSweptResult, Finished, PC, Resetting
  <2>. QED
    BY <2>1, <2>2, <2>3, CheckUntouched
<1>8. ASSUME NEW w \in Workers, MarkFails(w)
      PROVE  CheckHolds'
  <2>1. FailedStay
    BY <1>8, OpenStay DEF MarkFails, Types
  <2>2. \A q \in Procs : q # w => job'[q] = job[q]
    BY <1>8 DEF MarkFails, Finished, Types, JobsOK
  <2>3. PICK l \in PC \ Resetting : Goto(w, l)
    BY <1>8 DEF MarkFails, Finished, PC, Resetting
  <2>. QED
    BY <2>1, <2>2, <2>3, CheckUntouched
<1>9. ASSUME NEW w \in Workers, NEW a \in Actions, ClaimNext(w, a)
      PROVE  CheckHolds'
  <2>1. FailedStay
    BY <1>9, OneStays DEF ClaimNext, Claim, Types
  <2>2. \A q \in Procs : q # w => job'[q] = job[q]
    BY <1>9 DEF ClaimNext, Finished, Types, JobsOK
  <2>3. PICK l \in PC \ Resetting : Goto(w, l)
    BY <1>9 DEF ClaimNext, Finished, PC, Resetting
  <2>. QED
    BY <2>1, <2>2, <2>3, CheckUntouched
<1>10. ASSUME NEW w \in Workers, EndTick(w)
      PROVE  CheckHolds'
  <2>1. FailedStay
    BY <1>10 DEF EndTick, FailedStay
  <2>2. \A q \in Procs : q # w => job'[q] = job[q]
    BY <1>10 DEF EndTick, Finished, Types, JobsOK
  <2>3. PICK l \in PC \ Resetting : Goto(w, l)
    BY <1>10 DEF EndTick, Finished, PC, Resetting
  <2>. QED
    BY <2>1, <2>2, <2>3, CheckUntouched
<1>11. ASSUME NEW w \in Workers, Admit(w)
      PROVE  CheckHolds'
  <2>1. FailedStay
    BY <1>11 DEF Admit, FailedStay
  <2>2. \A q \in Procs : q # w => job'[q] = job[q]
    BY <1>11 DEF Admit, Finished, Types, JobsOK
  <2>3. PICK l \in PC \ Resetting : Goto(w, l)
    BY <1>11 DEF Admit, Finished, PC, Resetting
  <2>. QED
    BY <2>1, <2>2, <2>3, CheckUntouched
<1>12. ASSUME NEW w \in Workers, DeferRead(w)
      PROVE  CheckHolds'
  <2>1. FailedStay
    BY <1>12 DEF DeferRead, FailedStay
  <2>2. \A q \in Procs : q # w => job'[q] = job[q]
    BY <1>12 DEF DeferRead, Finished, Types, JobsOK
  <2>3. PICK l \in PC \ Resetting : Goto(w, l)
    BY <1>12 DEF DeferRead, Finished, PC, Resetting
  <2>. QED
    BY <2>1, <2>2, <2>3, CheckUntouched
<1>13. ASSUME NEW w \in Workers, DeferWrite(w)
      PROVE  CheckHolds'
  <2>1. FailedStay
    BY <1>13, OneStays DEF DeferWrite, MovePending, Types, FailedStay
  <2>2. \A q \in Procs : q # w => job'[q] = job[q]
    BY <1>13 DEF DeferWrite, Finished, Types, JobsOK
  <2>3. PICK l \in PC \ Resetting : Goto(w, l)
    BY <1>13 DEF DeferWrite, Finished, PC, Resetting
  <2>. QED
    BY <2>1, <2>2, <2>3, CheckUntouched
<1>14. ASSUME NEW w \in Workers, TickError(w)
      PROVE  CheckHolds'
  <2>1. FailedStay
    BY <1>14 DEF TickError, FailedStay
  <2>2. \A q \in Procs : q # w => job'[q] = job[q]
    BY <1>14 DEF TickError, Finished, Types, JobsOK
  <2>3. PICK l \in PC \ Resetting : Goto(w, l)
    BY <1>14, NextWriteIn DEF TickError, Finished, PC, Resetting
  <2>. QED
    BY <2>1, <2>2, <2>3, CheckUntouched
<1>15. ASSUME NEW p \in Procs, NEW s \in Sessions, Launch(p, s)
      PROVE  CheckHolds'
  <2>1. FailedStay
    BY <1>15 DEF Launch, FailedStay
  <2>2. \A q \in Procs : q # p => job'[q] = job[q]
    BY <1>15 DEF Launch, Finished, Types, JobsOK
  <2>3. PICK l \in PC \ Resetting : Goto(p, l)
    BY <1>15 DEF Launch, Finished, PC, Resetting
  <2>. QED
    BY <2>1, <2>2, <2>3, CheckUntouched
<1>16. ASSUME NEW p \in Procs, LaunchFails(p)
      PROVE  CheckHolds'
  <2>1. FailedStay
    BY <1>16 DEF LaunchFails, FailedStay
  <2>2. \A q \in Procs : q # p => job'[q] = job[q]
    BY <1>16 DEF LaunchFails, Finished, Types, JobsOK
  <2>3. PICK l \in PC \ Resetting : Goto(p, l)
    BY <1>16 DEF LaunchFails, Finished, PC, Resetting
  <2>. QED
    BY <2>1, <2>2, <2>3, CheckUntouched
<1>17. ASSUME NEW p \in Procs, RecordShort(p)
      PROVE  CheckHolds'
  <2>1. FailedStay
    BY <1>17 DEF RecordShort, FailedStay
  <2>2. \A q \in Procs : q # p => job'[q] = job[q]
    BY <1>17 DEF RecordShort, Finished, Types, JobsOK
  <2>3. PICK l \in PC \ Resetting : Goto(p, l)
    BY <1>17 DEF RecordShort, Finished, PC, Resetting
  <2>. QED
    BY <2>1, <2>2, <2>3, CheckUntouched
<1>18. ASSUME NEW p \in Procs, MarkDispatched(p)
      PROVE  CheckHolds'
  <2>1. FailedStay
    BY <1>18 DEF MarkDispatched, SetStatus, Types, StatusesOK, FailedStay
  <2>2. \A q \in Procs : q # p => job'[q] = job[q]
    BY <1>18 DEF MarkDispatched, Finished, Types, JobsOK
  <2>3. PICK l \in PC \ Resetting : Goto(p, l)
    BY <1>18 DEF MarkDispatched, Finished, PC, Resetting
  <2>. QED
    BY <2>1, <2>2, <2>3, CheckUntouched
<1>19. ASSUME NEW p \in Procs, Reject(p)
      PROVE  CheckHolds'
  <2>1. FailedStay
    BY <1>19, OpenStay DEF Reject, MarkTerminal, Types
  <2>2. \A q \in Procs : q # p => job'[q] = job[q]
    BY <1>19 DEF Reject, Finished, Types, JobsOK
  <2>3. PICK l \in PC \ Resetting : Goto(p, l)
    BY <1>19 DEF Reject, Finished, PC, Resetting
  <2>. QED
    BY <2>1, <2>2, <2>3, CheckUntouched
<1>20. ASSUME NEW p \in Procs, Crash(p)
      PROVE  CheckHolds'
  <2>1. FailedStay
    BY <1>20 DEF Crash, FailedStay
  <2>2. \A q \in Procs : q # p => job'[q] = job[q]
    BY <1>20 DEF Crash, Finished, Types, JobsOK
  <2>3. PICK l \in PC \ Resetting : Goto(p, l)
    BY <1>20 DEF Crash, Finished, PC, Resetting
  <2>. QED
    BY <2>1, <2>2, <2>3, CheckUntouched
<1>21. ASSUME NEW p \in Procs, LastCallFails(p)
      PROVE  CheckHolds'
  <2>1. FailedStay
    BY <1>21 DEF LastCallFails, FailedStay
  <2>2. \A q \in Procs : q # p => job'[q] = job[q]
    BY <1>21 DEF LastCallFails, Finished, Types, JobsOK
  <2>3. PICK l \in PC \ Resetting : Goto(p, l)
    BY <1>21 DEF LastCallFails, Finished, PC, Resetting
  <2>. QED
    BY <2>1, <2>2, <2>3, CheckUntouched
<1>22. ASSUME NEW o \in Operators, NEW c \in Command, NEW a \in Actions, NEW text \in BOOLEAN,
             Check(o, c, a, text)
      PROVE  CheckHolds'
  <2>1. \A x \in Operators : x # o => pc'[x] = pc[x] /\ job'[x] = job[x]
    BY <1>22 DEF Check, Goto, Types, PlacesOK, JobsOK, Procs
  <2>2. /\ pc'[o] = FirstStep(c) /\ job'[o].act = a
        /\ c \in Commands[o] /\ status[a] \in Accepts(c) /\ UNCHANGED status
    BY <1>22 DEF Check, Goto, Types, PlacesOK, JobsOK, Procs, NoJob
  <2>3. pc'[o] \in Resetting =>
            /\ pc'[o] = "resetRead" /\ "reset" \in Commands[o]
            /\ status[a] \in {"failed", "cancelled"}
    BY <2>2 DEF FirstStep, Resetting, Command, Accepts
  <2>. QED
    BY <2>1, <2>2, <2>3 DEF CheckHolds
<1>23. ASSUME NEW o \in Operators, Done(o)
      PROVE  CheckHolds'
  <2>1. FailedStay
    BY <1>23, OpenStay DEF Done, MarkTerminal, Types
  <2>2. \A q \in Procs : q # o => job'[q] = job[q]
    BY <1>23 DEF Done, Finished, Types, JobsOK
  <2>3. PICK l \in PC \ Resetting : Goto(o, l)
    BY <1>23 DEF Done, Finished, PC, Resetting
  <2>. QED
    BY <2>1, <2>2, <2>3, CheckUntouched
<1>24. ASSUME NEW o \in Operators, KeepResult(o)
      PROVE  CheckHolds'
  <2>1. FailedStay
    BY <1>24 DEF KeepResult, FailedStay
  <2>2. \A q \in Procs : q # o => job'[q] = job[q]
    BY <1>24 DEF KeepResult, Finished, Types, JobsOK
  <2>3. PICK l \in PC \ Resetting : Goto(o, l)
    BY <1>24 DEF KeepResult, Finished, PC, Resetting
  <2>. QED
    BY <2>1, <2>2, <2>3, CheckUntouched
<1>25. ASSUME NEW o \in Operators, Fail(o)
      PROVE  CheckHolds'
  <2>1. FailedStay
    BY <1>25, OpenStay DEF Fail, MarkTerminal, Types
  <2>2. \A q \in Procs : q # o => job'[q] = job[q]
    BY <1>25 DEF Fail, Finished, Types, JobsOK
  <2>3. PICK l \in PC \ Resetting : Goto(o, l)
    BY <1>25 DEF Fail, Finished, PC, Resetting
  <2>. QED
    BY <2>1, <2>2, <2>3, CheckUntouched
<1>26. ASSUME NEW o \in Operators, Cancel(o)
      PROVE  CheckHolds'
  <2>1. FailedStay
    BY <1>26, OpenStay DEF Cancel, MarkTerminal, Types
  <2>2. \A q \in Procs : q # o => job'[q] = job[q]
    BY <1>26 DEF Cancel, Finished, Types, JobsOK
  <2>3. PICK l \in PC \ Resetting : Goto(o, l)
    BY <1>26 DEF Cancel, Finished, PC, Resetting
  <2>. QED
    BY <2>1, <2>2, <2>3, CheckUntouched
<1>27. ASSUME NEW o \in Operators, ResetRead(o)
      PROVE  CheckHolds'
  <2>1. \A x \in Operators : x # o => pc'[x] = pc[x] /\ job'[x] = job[x]
    BY <1>27 DEF ResetRead, Goto, Types, PlacesOK, JobsOK, Procs
  <2>2. /\ job'[o].act = job[o].act /\ job'[o].from = status[job[o].act]
        /\ pc[o] \in Resetting /\ UNCHANGED status
    BY <1>27 DEF ResetRead, Types, JobsOK, Job, Procs, Resetting
  <2>. QED
    BY <2>1, <2>2 DEF CheckHolds
<1>28. ASSUME NEW o \in Operators, ResetWrite(o)
      PROVE  CheckHolds'
  <2>1. pc[o] \in Resetting /\ pc' = [pc EXCEPT ![o] = "idle"]
    BY <1>28 DEF ResetWrite, Finished, Goto, Resetting
  <2>2. ASSUME NEW x \in Operators, pc'[x] \in Resetting
        PROVE  FALSE
    <3>1. x # o /\ pc[x] \in Resetting
      BY <2>1, <2>2 DEF Types, PlacesOK, Procs, Resetting
    <3>. QED
      BY <2>1, <3>1 DEF CheckHolds, SingleResetter
  <2>. QED
    BY <2>2 DEF CheckHolds
<1>29. ASSUME NEW o \in Operators, NEW a \in Actions, ManualDispatch(o, a)
      PROVE  CheckHolds'
  <2>1. FailedStay
    BY <1>29, OneStays DEF ManualDispatch, Claim, Types
  <2>2. \A q \in Procs : q # o => job'[q] = job[q]
    BY <1>29 DEF ManualDispatch, Finished, Types, JobsOK
  <2>3. PICK l \in PC \ Resetting : Goto(o, l)
    BY <1>29 DEF ManualDispatch, Finished, PC, Resetting
  <2>. QED
    BY <2>1, <2>2, <2>3, CheckUntouched
<1>30. ASSUME NEW s \in Sessions, NEW st \in Endings, SessionEnds(s, st)
      PROVE  CheckHolds'
  BY <1>30 DEF SessionEnds, CheckHolds
<1>31. ASSUME NEW s \in Sessions, CloudSessionRecords(s)
      PROVE  CheckHolds'
  BY <1>31 DEF CloudSessionRecords, CheckHolds
<1>32. ASSUME NEW a \in Actions, Ages(a)
      PROVE  CheckHolds'
  BY <1>32 DEF Ages, CheckHolds
<1>33. ASSUME NEW a \in Actions, Ripens(a)
      PROVE  CheckHolds'
  BY <1>33 DEF Ripens, CheckHolds
<1>34. CASE UNCHANGED vars
  BY <1>34 DEF vars, CheckHolds
<1>. QED
  BY <1>1, <1>2, <1>3, <1>4, <1>5, <1>6, <1>7, <1>8, <1>9, <1>10, <1>11, <1>12, <1>13, <1>14,
     <1>15, <1>16, <1>17, <1>18, <1>19, <1>20, <1>21, <1>22, <1>23, <1>24, <1>25, <1>26, <1>27,
     <1>28, <1>29, <1>30, <1>31, <1>32, <1>33, <1>34
     DEF Next, Reap, DispatchOne, Execute, Operate, Environment

-----------------------------------------------------------------------------
(* The lifecycle and the promise to those who complete actions.            *)

\* What `tq action reset` checked stays true until it writes.
LEMMA CheckAlways ==
    ASSUME SingleResetter
    PROVE  Spec => []CheckHolds
<1>1. Init => CheckHolds
  BY DEF Init, CheckHolds, Resetting, Procs
<1>2. Types /\ CheckHolds /\ [Next]_vars => CheckHolds'
  BY CheckStep
<1>. QED
  BY <1>1, <1>2, TypesAlways, PTL DEF Spec

\* As long as one process resets at a time, everything workers, commands,
\* crashes and errors do to an action is a step ActionLifecycle allows: done is
\* final, a dispatched action never goes back to pending before it has failed or
\* been cancelled, and nothing but a worker's deferral makes way for a second
\* claim of a running one (README.md, docs/dispatch.md).
THEOREM ImplementsLifecycle ==
    ASSUME SingleResetter
    PROVE  Spec => Lifecycle
<1>1. Init => Promise!Init
  BY DEF Init, FreshRow, Promise!Init
<1>2. Types /\ Types' /\ CheckHolds /\ [Next]_vars => [Promise!Next]_(Promise!vars)
  BY PromiseStep
<1>. QED
  BY <1>1, <1>2, TypesAlways, CheckAlways, PTL DEF Spec, Lifecycle, Promise!Spec

\* Under the lifecycle no promise is ever broken.
LEMMA PromiseKept ==
    ASSUME StatusesOK, AckedOK, acked \subseteq {a \in Actions : status[a] = "done"} \cup Kept,
           [Promise!Next]_(Promise!vars)
    PROVE  acked' \subseteq {a \in Actions : status'[a] = "done"} \cup Kept'
<1>. USE DEF StatusesOK, AckedOK
<1>1. CASE UNCHANGED Promise!vars
  BY <1>1 DEF Promise!vars, Kept
<1>2. ASSUME NEW a \in Actions,
             Promise!Claim(a) \/ Promise!Defer(a) \/ Promise!HandOver(a) \/ Promise!Abandon(a)
      PROVE  acked' \subseteq {x \in Actions : status'[x] = "done"} \cup Kept'
  BY <1>2 DEF Promise!Claim, Promise!Defer, Promise!HandOver, Promise!Abandon, Promise!Move, Kept
<1>3. ASSUME NEW a \in Actions, Promise!Archive(a)
      PROVE  acked' \subseteq {x \in Actions : status'[x] = "done"} \cup Kept'
  BY <1>3 DEF Promise!Archive, Kept
<1>4. ASSUME NEW a \in Actions, Promise!Revive(a)
      PROVE  acked' \subseteq {x \in Actions : status'[x] = "done"} \cup Kept'
  BY <1>4 DEF Promise!Revive, Kept
<1>5. ASSUME NEW S \in SUBSET Actions, NEW T \in SUBSET Actions, NEW st \in Promise!Terminal,
             Promise!Conclude(S, st, T)
      PROVE  acked' \subseteq {x \in Actions : status'[x] = "done"} \cup Kept'
  BY <1>5 DEF Promise!Conclude, Promise!Live, Kept
<1>. QED
  BY <1>1, <1>2, <1>3, <1>4, <1>5 DEF Promise!Next

\* Whoever was told that an action is done, with a result, finds it done or
\* its result kept, for any number of actions, workers, commands and faults.
THEOREM NoResultLost ==
    ASSUME SingleResetter
    PROVE  Spec => []SuccessKept
<1>. DEFINE Safe == acked \subseteq {a \in Actions : status[a] = "done"} \cup Kept
<1>1. Init => Safe
  BY DEF Init
<1>2. Types /\ Types' /\ CheckHolds /\ Safe /\ [Next]_vars => Safe'
  BY PromiseStep, PromiseKept DEF Types
<1>3. Safe => SuccessKept
  BY DEF SuccessKept, Kept
<1>. HIDE DEF Safe
<1>. QED
  BY <1>1, <1>2, <1>3, TypesAlways, CheckAlways, PTL DEF Spec

-----------------------------------------------------------------------------
(* `tq action reset` and runs.                                             *)

\* ResetNeverUndoesARun for one step.
UndoesNoRun ==
    \A o \in Operators :
        pc[o] = "resetWrite" /\ status[job[o].act] \in {"running", "dispatched"}
            /\ pc'[o] # pc[o]
        => status'[job[o].act] # "pending"

\* The refusal of `tq action reset` (cmd/reset.go) is good until the UPDATE of
\* ResetToPending, which compares the row with a status read after it: a run
\* or a remote session is never moved back to pending by one resetting process,
\* whatever workers and other commands do between its steps.
THEOREM ResetSparesRuns ==
    ASSUME SingleResetter
    PROVE  Spec => ResetNeverUndoesARun
<1>1. CheckHolds => UndoesNoRun
  BY DEF CheckHolds, UndoesNoRun, Resetting
<1>2. Spec => []CheckHolds
  BY CheckAlways
<1>3. CheckHolds /\ [Next]_vars => [UndoesNoRun]_vars
  BY <1>1
<1>4. Spec => [][UndoesNoRun]_vars
  BY <1>2, <1>3, PTL DEF Spec
<1>. QED
  BY <1>4 DEF ResetNeverUndoesARun, UndoesNoRun

=============================================================================
