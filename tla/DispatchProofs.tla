--------------------------- MODULE DispatchProofs ---------------------------
(***************************************************************************)
(* Proofs about module Dispatch, for any sets of actions, workers,         *)
(* operators and sessions and any caps: its types, and the caps of the     *)
(* slot pools.                                                             *)
(*                                                                         *)
(* TypeOK is not inductive by itself: a launch or a command writes to the  *)
(* action its process works on, so Working says that there is one.  The    *)
(* invariant is split into one named part per variable, so that a step of  *)
(* the proof only looks at the variables its action changes.               *)
(***************************************************************************)
EXTENDS Dispatch, TLAPS, FiniteSetTheorems

OnTheJob == {"admit", "defer", "deferWrite", "launch", "record", "mark", "reject"}

\* A process in the middle of a launch or a command knows its action.
Working ==
    /\ \A p \in Procs : pc[p] \in OnTheJob => job[p].act \in Actions
    /\ \A o \in Operators : pc[o] # "idle" => job[o].act \in Actions


RowsOK     == row \in [Actions -> Row]
StatusesOK == status \in [Actions -> Status] /\ slot \subseteq Actions
PlacesOK   == pc \in [Procs -> PC]
JobsOK     == job \in [Procs -> Job]
SweepsOK   == sweep \in [Workers -> Sweep]
SessionsOK == session \in [Sessions -> [for : Actions \cup {NoAction},
                                        state : {"unused", "working", "done", "failed",
                                        "gone"}]]
AckedOK    == acked \subseteq Actions
FaultsOK   == faults \in 0..MaxFaults

Types == /\ StatusesOK /\ RowsOK /\ SessionsOK /\ PlacesOK /\ JobsOK /\ SweepsOK
         /\ AckedOK /\ FaultsOK
         /\ Working

\* The named parts are TypeOK and Working, no more and no less.
LEMMA TypesAreTypes == Types <=> TypeOK /\ Working
BY DEF Types, TypeOK, StatusesOK, RowsOK, SessionsOK, PlacesOK, JobsOK, SweepsOK, AckedOK,
   FaultsOK

-----------------------------------------------------------------------------
(* Types of what the store operations write.                               *)

\* A write of actions.status leaves statuses and admissions well typed.
LEMMA StatusWritten ==
    ASSUME StatusesOK, NEW S, NEW st \in Status, SetStatus(S, st)
    PROVE  StatusesOK'
BY DEF StatusesOK, SetStatus

\* So does a write of one row ...
LEMMA RowWritten ==
    ASSUME RowsOK, NEW a, NEW r \in Row
    PROVE  [row EXCEPT ![a] = r] \in [Actions -> Row]
BY DEF RowsOK

\* ... since each field is given a value of its own type.
LEMMA RowFields ==
    ASSUME NEW r \in Row
    PROVE  /\ \A n \in Age : [r EXCEPT !.age = n] \in Row
           /\ \A b \in BOOLEAN : [r EXCEPT !.ripe = b] \in Row
           /\ \A b \in BOOLEAN : [r EXCEPT !.age = 0, !.ripe = b] \in Row
           /\ \A s \in MaybeSession : [r EXCEPT !.short = s] \in Row
           /\ \A s \in MaybeSession : [r EXCEPT !.sid = s] \in Row
           /\ \A s \in MaybeSession : [r EXCEPT !.sid = s, !.cloud = TRUE] \in Row
           /\ [r EXCEPT !.kept = TRUE] \in Row
<1>1. \A n \in Age : [r EXCEPT !.age = n] \in Row
  BY DEF Row
<1>2. \A b \in BOOLEAN : [r EXCEPT !.ripe = b] \in Row
  BY DEF Row
<1>3. \A b \in BOOLEAN : [r EXCEPT !.age = 0, !.ripe = b] \in Row
  <2>1. 0 \in Age
    BY DEF Age
  <2>. QED
    BY <2>1 DEF Row
<1>4. \A s \in MaybeSession : [r EXCEPT !.short = s] \in Row
  BY DEF Row
<1>5. \A s \in MaybeSession : [r EXCEPT !.sid = s] \in Row
  BY DEF Row
<1>6. \A s \in MaybeSession : [r EXCEPT !.sid = s, !.cloud = TRUE] \in Row
  BY DEF Row
<1>7. [r EXCEPT !.kept = TRUE] \in Row
  BY DEF Row
<1>. QED
  BY <1>1, <1>2, <1>3, <1>4, <1>5, <1>6, <1>7

\* A new started_at leaves the rows well typed.
LEMMA AgeReset ==
    ASSUME RowsOK, NEW S
    PROVE  ResetAge(S) \in [Actions -> Row]
<1>1. 0 \in Age
  BY DEF Age
<1>. QED
  BY <1>1, RowFields DEF RowsOK, ResetAge

\* markTerminal, claims and movePending write well-typed rows.
LEMMA Ended ==
    ASSUME StatusesOK, RowsOK, NEW a, NEW st \in Status, MarkTerminal(a, st)
    PROVE  StatusesOK' /\ RowsOK'
BY StatusWritten, AgeReset DEF MarkTerminal, RowsOK

\* NextPending and ClaimPending.
LEMMA Claimed ==
    ASSUME StatusesOK, RowsOK, NEW a, Claim(a)
    PROVE  StatusesOK' /\ RowsOK'
BY StatusWritten, AgeReset DEF Claim, RowsOK, Status

\* movePending.
LEMMA PutBack ==
    ASSUME StatusesOK, RowsOK, NEW a, NEW ripe \in BOOLEAN, MovePending(a, ripe)
    PROVE  StatusesOK' /\ RowsOK'
<1>1. StatusesOK'
  BY StatusWritten DEF MovePending, Status
<1>2. row' \in [Actions -> Row]
  <2>1. row' = [x \in Actions |-> IF x = a THEN [row[x] EXCEPT !.age = 0, !.ripe = ripe]
                                           ELSE row[x]]
    BY DEF MovePending, RowsOK
  <2>. QED
    BY <2>1, RowFields DEF RowsOK
<1>. QED
  BY <1>1, <1>2 DEF RowsOK

\* Every step of a process leads to a known place.
LEMMA Went ==
    ASSUME PlacesOK, NEW p, NEW l \in PC, Goto(p, l)
    PROVE  PlacesOK'
BY DEF PlacesOK, Goto

\* reapBg goes on with one of its writes or leaves for dispatchOne.
LEMMA NextWriteIn ==
    ASSUME NEW s, NEW l
    PROVE  NextWrite(s, l) \in {"merge", "dones", "keep", "fails", "claim"}
BY DEF NextWrite

\* What one worker collects leaves the others alone.
LEMMA SweepWritten ==
    ASSUME SweepsOK, NEW w, NEW r \in Sweep
    PROVE  [sweep EXCEPT ![w] = r] \in [Workers -> Sweep]
BY DEF SweepsOK

\* Each field of a sweep is given a value of its own type.
LEMMA SweepFields ==
    ASSUME NEW r \in Sweep
    PROVE  /\ [r EXCEPT !.orphans = {}] \in Sweep
           /\ \A x \in SUBSET [act : Actions, short : Sessions, age : Age, hasSid : BOOLEAN] :
                 [r EXCEPT !.listed = x] \in Sweep
           /\ [r EXCEPT !.sids = {}] \in Sweep
           /\ [r EXCEPT !.dones = {}] \in Sweep
           /\ \A x \in SUBSET Actions : [r EXCEPT !.dones = {}, !.lost = x] \in Sweep
           /\ \A x \in SUBSET Actions : [r EXCEPT !.lost = x] \in Sweep
           /\ [r EXCEPT !.fails = {}] \in Sweep
           /\ \A x \in SUBSET Actions : [r EXCEPT !.orphans = x] \in Sweep
           /\ \A n \in 0..MaxAttempts : [r EXCEPT !.tries = n] \in Sweep
BY DEF Sweep

\* A new tick starts with nothing collected.
LEMMA NoSweepTyped == NoSweep \in Sweep
BY LimitsAssumption DEF NoSweep, Sweep

\* A new job is well typed.
LEMMA NoJobTyped ==
    /\ NoJob \in Job
    /\ \A a \in Actions : [NoJob EXCEPT !.act = a] \in Job
    /\ \A a \in Actions, t \in BOOLEAN : [NoJob EXCEPT !.act = a, !.text = t] \in Job
BY DEF NoJob, Job, MaybeSession

\* A process that is done with its work keeps nothing of it.
LEMMA WorkFinished ==
    ASSUME PlacesOK, JobsOK, Working, NEW p, Finished(p)
    PROVE  PlacesOK' /\ JobsOK' /\ Working'
<1>1. PlacesOK' /\ JobsOK'
  BY NoJobTyped, Went DEF Finished, JobsOK, PC
<1>2. Working'
  BY DEF Finished, Goto, Working, OnTheJob, PlacesOK, JobsOK, Procs
<1>. QED
  BY <1>1, <1>2

\* A process that goes on with the same action.
LEMMA WorkGoesOn ==
    ASSUME PlacesOK, Working, NEW p \in Procs, NEW l, Goto(p, l), UNCHANGED job,
           l \in OnTheJob => job[p].act \in Actions,
           p \in Operators /\ l # "idle" => job[p].act \in Actions
    PROVE  Working'
BY DEF Goto, Working, PlacesOK, Procs

\* A worker that goes on; it is no operator.
LEMMA WorkerGoesOn ==
    ASSUME PlacesOK, Working, NEW w \in Workers, NEW l, Goto(w, l), UNCHANGED job,
           l \in OnTheJob => job[w].act \in Actions
    PROVE  Working'
BY WorkGoesOn, ProcsAssumption DEF Procs

-----------------------------------------------------------------------------
\* Every step keeps the types: one step of the proof per action.
LEMMA TypesStep ==
    ASSUME Types, [Next]_vars
    PROVE  Types'
<1>. USE DEF Types
<1>1. ASSUME NEW w \in Workers, ListOrphans(w)
      PROVE  Types'
  <2>1. PlacesOK'
    BY <1>1, Went DEF ListOrphans, PC
  <2>2. SweepsOK'
    BY <1>1, NoSweepTyped, SweepFields, SweepWritten DEF ListOrphans, SweepsOK
  <2>3. Working'
    BY <1>1, WorkerGoesOn DEF ListOrphans, OnTheJob
  <2>. QED
    BY <1>1, <2>1, <2>2, <2>3 DEF ListOrphans, StatusesOK, RowsOK, JobsOK, AckedOK, FaultsOK,
       SessionsOK
<1>2. ASSUME NEW w \in Workers, FailOrphans(w)
      PROVE  Types'
  <2>1. StatusesOK'
    BY <1>2, StatusWritten DEF FailOrphans, Status
  <2>2. RowsOK'
    BY <1>2, AgeReset DEF FailOrphans, RowsOK
  <2>3. PlacesOK'
    BY <1>2, Went DEF FailOrphans, PC
  <2>4. SweepsOK'
    BY <1>2, SweepFields, SweepWritten DEF FailOrphans, SweepsOK
  <2>5. Working'
    BY <1>2, WorkerGoesOn DEF FailOrphans, OnTheJob
  <2>. QED
    BY <1>2, <2>1, <2>2, <2>3, <2>4, <2>5 DEF FailOrphans, JobsOK, AckedOK, FaultsOK, SessionsOK
<1>3. ASSUME NEW w \in Workers, ListShorts(w)
      PROVE  Types'
  <2>1. PlacesOK'
    BY <1>3, Went DEF ListShorts, PC
  <2>2. SweepsOK'
    <3>1. sweep[w] \in Sweep
      BY DEF SweepsOK
    <3>2. \A a \in Actions : row[a] \in Row
      BY DEF RowsOK
    <3>3. \A a \in Actions : row[a].short # NoSession =>
              [act |-> a, short |-> row[a].short, age |-> row[a].age,
               hasSid |-> row[a].sid # NoSession]
              \in [act : Actions, short : Sessions, age : Age, hasSid : BOOLEAN]
      BY <3>2 DEF Row, MaybeSession
    <3>4. {[act |-> a, short |-> row[a].short, age |-> row[a].age,
            hasSid |-> row[a].sid # NoSession] :
              a \in {a \in Actions : /\ status[a] = "running"
                                      /\ row[a].short # NoSession
                                      /\ ~ row[a].cloud}}
          \in SUBSET [act : Actions, short : Sessions, age : Age, hasSid : BOOLEAN]
      BY <3>3
    <3>5. PICK x \in SUBSET [act : Actions, short : Sessions, age : Age, hasSid : BOOLEAN] :
              sweep' = [sweep EXCEPT ![w].listed = x]
      BY <1>3, <3>4 DEF ListShorts
    <3>6. sweep' = [sweep EXCEPT ![w] = [sweep[w] EXCEPT !.listed = x]]
      BY <3>5
    <3>. QED
      BY <3>1, <3>6, SweepFields, SweepWritten DEF SweepsOK
  <2>3. Working'
    BY <1>3, WorkerGoesOn DEF ListShorts, OnTheJob
  <2>. QED
    BY <1>3, <2>1, <2>2, <2>3 DEF ListShorts, StatusesOK, RowsOK, JobsOK, AckedOK, FaultsOK,
       SessionsOK
<1>4. ASSUME NEW w \in Workers, NEW unreadable, NEW withText,
             ReadStates(w, unreadable, withText)
      PROVE  Types'
  <2>1. PlacesOK'
    BY <1>4, Went, NextWriteIn DEF ReadStates, PC
  <2>2. SweepsOK'
    <3>1. sweep[w] \in Sweep
      BY DEF SweepsOK
    <3>2. \A l \in sweep[w].listed : l.act \in Actions /\ l.short \in Sessions
      BY <3>1 DEF Sweep
    <3>3. PICK sids, dones, fails :
             /\ sids \subseteq {<<l.act, l.short>> : l \in sweep[w].listed}
             /\ dones \subseteq {<<l.act, l.act \in withText>> : l \in sweep[w].listed}
             /\ fails \subseteq {l.act : l \in sweep[w].listed}
             /\ sweep' = [sweep EXCEPT ![w] = [sweep[w] EXCEPT !.listed = {}, !.sids = sids,
                                                  !.dones = dones, !.fails = fails]]
      <4>. DEFINE seen == {l \in sweep[w].listed : l.act \notin unreadable}
                  sids == {<<l.act, l.short>> : l \in
                             {l \in seen : ~ l.hasSid /\ session[l.short].state # "gone"}}
                  dones == {<<l.act, l.act \in withText>> : l \in {l \in seen : SaysDone(l)}}
                  fails == {l.act : l \in {l \in seen : SaysFailed(l)}}
      <4>1. sweep' = [sweep EXCEPT ![w] = [sweep[w] EXCEPT !.listed = {}, !.sids = sids,
                                                 !.dones = dones, !.fails = fails]]
        BY <1>4 DEF ReadStates
      <4>2. sids \subseteq {<<l.act, l.short>> : l \in sweep[w].listed}
        OBVIOUS
      <4>3. dones \subseteq {<<l.act, l.act \in withText>> : l \in sweep[w].listed}
        OBVIOUS
      <4>4. fails \subseteq {l.act : l \in sweep[w].listed}
        OBVIOUS
      <4>. HIDE DEF sids, dones, fails
      <4>. QED
        BY <4>1, <4>2, <4>3, <4>4
    <3>4. /\ sids \subseteq Actions \X Sessions
          /\ dones \subseteq Actions \X BOOLEAN
          /\ fails \subseteq Actions
      <4>1. sids \subseteq Actions \X Sessions
        BY <3>2, <3>3
      <4>2. \A l \in sweep[w].listed : <<l.act, l.act \in withText>> \in Actions \X BOOLEAN
        <5>. TAKE l \in sweep[w].listed
        <5>1. (l.act \in withText) \in BOOLEAN
          OBVIOUS
        <5>. QED
          BY <3>2, <5>1
      <4>3. dones \subseteq Actions \X BOOLEAN
        BY <4>2, <3>3
      <4>4. fails \subseteq Actions
        BY <3>2, <3>3
      <4>. QED
        BY <4>1, <4>3, <4>4
    <3>5. [sweep[w] EXCEPT !.listed = {}, !.sids = sids, !.dones = dones, !.fails = fails]
          \in Sweep
      BY <3>1, <3>4 DEF Sweep
    <3>. QED
      BY <3>3, <3>5, SweepWritten DEF SweepsOK
  <2>3. Working'
    BY <1>4, WorkerGoesOn, NextWriteIn DEF ReadStates, OnTheJob
  <2>4. FaultsOK'
    BY <1>4, FaultsAssumption DEF ReadStates, FaultsOK
  <2>. QED
    BY <1>4, <2>1, <2>2, <2>3, <2>4 DEF ReadStates, StatusesOK, RowsOK, JobsOK, AckedOK,
       SessionsOK
<1>5. ASSUME NEW w \in Workers, MergeSids(w)
      PROVE  Types'
  <2>1. RowsOK'
    <3>1. \A a \in Actions, s \in Sessions : [row[a] EXCEPT !.sid = s] \in Row
      BY RowFields DEF RowsOK, MaybeSession
    <3>2. \A a \in Actions : (\E s \in Sessions : <<a, s>> \in sweep[w].sids)
             => (CHOOSE s \in Sessions : <<a, s>> \in sweep[w].sids) \in Sessions
      OBVIOUS
    <3>. QED
      BY <1>5, <3>1, <3>2 DEF MergeSids, RowsOK
  <2>2. PlacesOK'
    BY <1>5, Went, NextWriteIn DEF MergeSids, PC
  <2>3. SweepsOK'
    BY <1>5, SweepFields, SweepWritten DEF MergeSids, SweepsOK
  <2>4. Working'
    BY <1>5, WorkerGoesOn, NextWriteIn DEF MergeSids, OnTheJob
  <2>. QED
    BY <1>5, <2>1, <2>2, <2>3, <2>4 DEF MergeSids, StatusesOK, JobsOK, AckedOK, FaultsOK,
       SessionsOK
<1>6. ASSUME NEW w \in Workers, MarkDones(w)
      PROVE  Types'
  <2>1. StatusesOK'
    BY <1>6, StatusWritten DEF MarkDones, Status
  <2>2. RowsOK'
    BY <1>6, AgeReset DEF MarkDones, RowsOK
  <2>3. PlacesOK'
    BY <1>6, Went, NextWriteIn DEF MarkDones, PC
  <2>4. SweepsOK'
    <3>. DEFINE late == {d[1] : d \in {d \in sweep[w].dones : LosesResult(d[1], d[2])}}
    <3>1. sweep[w] \in Sweep
      BY DEF SweepsOK
    <3>2. late \in SUBSET Actions
      BY <3>1 DEF Sweep
    <3>3. sweep' = [sweep EXCEPT ![w] = [sweep[w] EXCEPT !.dones = {}, !.lost = late]]
      BY <1>6 DEF MarkDones
    <3>. HIDE DEF late
    <3>. QED
      BY <3>1, <3>2, <3>3, SweepFields, SweepWritten DEF SweepsOK
  <2>5. AckedOK'
    <3>1. sweep[w].dones \subseteq Actions \X BOOLEAN
      BY DEF SweepsOK, Sweep
    <3>. QED
      BY <1>6, <3>1 DEF MarkDones, AckedOK
  <2>6. Working'
    BY <1>6, WorkerGoesOn, NextWriteIn DEF MarkDones, OnTheJob
  <2>. QED
    BY <1>6, <2>1, <2>2, <2>3, <2>4, <2>5, <2>6 DEF MarkDones, JobsOK, FaultsOK, SessionsOK
<1>7. ASSUME NEW w \in Workers, NEW a \in Actions, KeepSweptResult(w, a)
      PROVE  Types'
  <2>1. RowsOK'
    BY <1>7, RowFields, RowWritten DEF KeepSweptResult, RowsOK
  <2>2. PlacesOK'
    BY <1>7, Went, NextWriteIn DEF KeepSweptResult, PC
  <2>3. SweepsOK'
    <3>1. sweep[w] \in Sweep /\ sweep[w].lost \subseteq Actions
      BY DEF SweepsOK, Sweep
    <3>. QED
      BY <1>7, <3>1, SweepFields, SweepWritten DEF KeepSweptResult, SweepsOK
  <2>4. Working'
    BY <1>7, WorkerGoesOn, NextWriteIn DEF KeepSweptResult, OnTheJob
  <2>5. AckedOK'
    BY <1>7 DEF KeepSweptResult, AckedOK
  <2>. QED
    BY <1>7, <2>1, <2>2, <2>3, <2>4, <2>5 DEF KeepSweptResult, StatusesOK, JobsOK, FaultsOK,
       SessionsOK
<1>8. ASSUME NEW w \in Workers, MarkFails(w)
      PROVE  Types'
  <2>1. StatusesOK'
    BY <1>8, StatusWritten DEF MarkFails, Status
  <2>2. RowsOK'
    BY <1>8, AgeReset DEF MarkFails, RowsOK
  <2>3. PlacesOK'
    BY <1>8, Went DEF MarkFails, PC
  <2>4. SweepsOK'
    BY <1>8, SweepFields, SweepWritten DEF MarkFails, SweepsOK
  <2>5. Working'
    BY <1>8, WorkerGoesOn DEF MarkFails, OnTheJob
  <2>. QED
    BY <1>8, <2>1, <2>2, <2>3, <2>4, <2>5 DEF MarkFails, JobsOK, AckedOK, FaultsOK, SessionsOK
<1>9. ASSUME NEW w \in Workers, NEW a \in Actions, ClaimNext(w, a)
      PROVE  Types'
  <2>1. StatusesOK' /\ RowsOK'
    BY <1>9, Claimed DEF ClaimNext
  <2>2. PlacesOK'
    BY <1>9, Went DEF ClaimNext, PC
  <2>3. JobsOK'
    BY <1>9, NoJobTyped DEF ClaimNext, JobsOK
  <2>4. SweepsOK'
    <3>1. sweep[w] \in Sweep /\ sweep[w].tries + 1 \in 0..MaxAttempts
      BY <1>9, LimitsAssumption DEF ClaimNext, SweepsOK, Sweep
    <3>. QED
      BY <1>9, <3>1, SweepFields, SweepWritten DEF ClaimNext, SweepsOK
  <2>5. Working'
    BY <1>9 DEF ClaimNext, Goto, Working, OnTheJob, Procs, PlacesOK, JobsOK, NoJob
  <2>. QED
    BY <1>9, <2>1, <2>2, <2>3, <2>4, <2>5 DEF ClaimNext, AckedOK, FaultsOK, SessionsOK
<1>10. ASSUME NEW w \in Workers, EndTick(w)
      PROVE  Types'
  <2>1. PlacesOK'
    BY <1>10, Went DEF EndTick, PC
  <2>2. Working'
    BY <1>10, WorkerGoesOn DEF EndTick, OnTheJob
  <2>. QED
    BY <1>10, <2>1, <2>2 DEF EndTick, StatusesOK, RowsOK, JobsOK, SweepsOK, AckedOK, FaultsOK,
       SessionsOK
<1>11. ASSUME NEW w \in Workers, Admit(w)
      PROVE  Types'
  <2>1. StatusesOK'
    BY <1>11 DEF Admit, Working, OnTheJob, Procs, Procs, StatusesOK
  <2>2. PlacesOK'
    BY <1>11, Went DEF Admit, PC
  <2>3. Working'
    BY <1>11, WorkerGoesOn DEF Admit, Working, OnTheJob, Procs
  <2>. QED
    BY <1>11, <2>1, <2>2, <2>3 DEF Admit, RowsOK, JobsOK, SweepsOK, AckedOK, FaultsOK,
       SessionsOK
<1>12. ASSUME NEW w \in Workers, DeferRead(w)
      PROVE  Types'
  <2>1. PlacesOK'
    BY <1>12, Went DEF DeferRead, PC
  <2>2. Working'
    BY <1>12, WorkerGoesOn DEF DeferRead, Working, OnTheJob, Procs
  <2>. QED
    BY <1>12, <2>1, <2>2 DEF DeferRead, StatusesOK, RowsOK, JobsOK, SweepsOK, AckedOK,
       FaultsOK, SessionsOK
<1>13. ASSUME NEW w \in Workers, DeferWrite(w)
      PROVE  Types'
  <2>1. StatusesOK' /\ RowsOK'
    BY <1>13, PutBack DEF DeferWrite, StatusesOK, RowsOK
  <2>2. PlacesOK'
    BY <1>13, Went DEF DeferWrite, PC
  <2>3. JobsOK'
    BY <1>13, NoJobTyped DEF DeferWrite, JobsOK
  <2>4. Working'
    <3>1. CASE status[job[w].act] = "running"
      BY <1>13, <3>1, ProcsAssumption DEF DeferWrite, Goto, Working, OnTheJob, Procs, PlacesOK,
         JobsOK
    <3>2. CASE status[job[w].act] # "running"
      BY <1>13, <3>2, WorkerGoesOn DEF DeferWrite, Working, OnTheJob, Procs
    <3>. QED
      BY <3>1, <3>2
  <2>. QED
    BY <1>13, <2>1, <2>2, <2>3, <2>4 DEF DeferWrite, SweepsOK, AckedOK, FaultsOK, SessionsOK
<1>14. ASSUME NEW w \in Workers, TickError(w)
      PROVE  Types'
  <2>1. PlacesOK'
    BY <1>14, Went, NextWriteIn DEF TickError, PC
  <2>2. SweepsOK'
    BY <1>14, SweepFields, SweepWritten DEF TickError, SweepsOK
  <2>3. FaultsOK'
    BY <1>14, FaultsAssumption DEF TickError, FaultsOK
  <2>4. Working'
    BY <1>14, WorkerGoesOn, NextWriteIn DEF TickError, Working, OnTheJob, Procs
  <2>. QED
    BY <1>14, <2>1, <2>2, <2>3, <2>4 DEF TickError, StatusesOK, RowsOK, JobsOK, AckedOK,
       SessionsOK
<1>15. ASSUME NEW p \in Procs, NEW s \in Sessions, Launch(p, s)
      PROVE  Types'
  <2>1. SessionsOK'
    <3>1. job[p].act \in Actions
      BY <1>15 DEF Launch, Working, OnTheJob
    <3>. QED
      BY <1>15, <3>1 DEF Launch, SessionsOK
  <2>2. PlacesOK'
    BY <1>15, Went DEF Launch, PC
  <2>3. JobsOK'
    <3>1. [job[p] EXCEPT !.sess = s] \in Job
      BY DEF JobsOK, Job, MaybeSession
    <3>. QED
      BY <1>15, <3>1 DEF Launch, JobsOK
  <2>4. Working'
    BY <1>15 DEF Launch, Goto, Working, OnTheJob, Procs, PlacesOK, JobsOK, Job
  <2>. QED
    BY <1>15, <2>1, <2>2, <2>3, <2>4 DEF Launch, StatusesOK, RowsOK, SweepsOK, AckedOK, FaultsOK
<1>16. ASSUME NEW p \in Procs, LaunchFails(p)
      PROVE  Types'
  <2>1. PlacesOK'
    BY <1>16, Went DEF LaunchFails, PC
  <2>2. Working'
    BY <1>16, WorkGoesOn DEF LaunchFails, Working, OnTheJob, Procs
  <2>. QED
    BY <1>16, <2>1, <2>2 DEF LaunchFails, StatusesOK, RowsOK, JobsOK, SweepsOK, AckedOK,
       FaultsOK, SessionsOK
<1>17. ASSUME NEW p \in Procs, RecordShort(p)
      PROVE  Types'
  <2>1. RowsOK'
    <3>1. job[p].sess \in MaybeSession
      BY DEF JobsOK, Job
    <3>2. \A a \in Actions : [row[a] EXCEPT !.short = job[p].sess] \in Row
      BY <3>1, RowFields DEF RowsOK
    <3>. QED
      BY <1>17, <3>2 DEF RecordShort, RowsOK
  <2>2. PlacesOK' /\ JobsOK' /\ Working'
    BY <1>17, WorkFinished DEF RecordShort
  <2>. QED
    BY <1>17, <2>1, <2>2 DEF RecordShort, StatusesOK, SweepsOK, AckedOK, FaultsOK, SessionsOK
<1>18. ASSUME NEW p \in Procs, MarkDispatched(p)
      PROVE  Types'
  <2>1. StatusesOK'
    BY <1>18, StatusWritten DEF MarkDispatched, Status
  <2>2. RowsOK'
    BY <1>18, AgeReset DEF MarkDispatched, RowsOK
  <2>3. PlacesOK' /\ JobsOK' /\ Working'
    BY <1>18, WorkFinished DEF MarkDispatched
  <2>. QED
    BY <1>18, <2>1, <2>2, <2>3 DEF MarkDispatched, SweepsOK, AckedOK, FaultsOK, SessionsOK
<1>19. ASSUME NEW p \in Procs, Reject(p)
      PROVE  Types'
  <2>1. StatusesOK' /\ RowsOK'
    BY <1>19, Ended DEF Reject, Status
  <2>2. PlacesOK' /\ JobsOK' /\ Working'
    BY <1>19, WorkFinished DEF Reject
  <2>. QED
    BY <1>19, <2>1, <2>2 DEF Reject, SweepsOK, AckedOK, FaultsOK, SessionsOK
<1>20. ASSUME NEW p \in Procs, Crash(p)
      PROVE  Types'
  <2>1. SweepsOK'
    BY <1>20, NoSweepTyped DEF Crash, SweepsOK
  <2>2. FaultsOK'
    BY <1>20, FaultsAssumption DEF Crash, FaultsOK
  <2>3. PlacesOK' /\ JobsOK' /\ Working'
    BY <1>20, WorkFinished DEF Crash
  <2>. QED
    BY <1>20, <2>1, <2>2, <2>3 DEF Crash, StatusesOK, RowsOK, AckedOK, SessionsOK
<1>21. ASSUME NEW p \in Procs, LastCallFails(p)
      PROVE  Types'
  <2>1. FaultsOK'
    BY <1>21, FaultsAssumption DEF LastCallFails, FaultsOK
  <2>2. PlacesOK' /\ JobsOK' /\ Working'
    BY <1>21, WorkFinished DEF LastCallFails
  <2>. QED
    BY <1>21, <2>1, <2>2 DEF LastCallFails, StatusesOK, RowsOK, SweepsOK, AckedOK, SessionsOK
<1>22. ASSUME NEW o \in Operators, NEW c \in Command, NEW a \in Actions, NEW text \in BOOLEAN,
             Check(o, c, a, text)
      PROVE  Types'
  <2>1. PlacesOK'
    BY <1>22, Went DEF Check, PC, FirstStep, Command
  <2>2. JobsOK'
    BY <1>22, NoJobTyped DEF Check, JobsOK
  <2>3. Working'
    BY <1>22 DEF Check, Goto, Working, OnTheJob, Procs, PlacesOK, JobsOK, NoJob
  <2>. QED
    BY <1>22, <2>1, <2>2, <2>3 DEF Check, StatusesOK, RowsOK, SweepsOK, AckedOK, FaultsOK,
       SessionsOK
<1>23. ASSUME NEW o \in Operators, Done(o)
      PROVE  Types'
  <2>1. StatusesOK' /\ RowsOK'
    BY <1>23, Ended DEF Done, Status
  <2>2. AckedOK'
    BY <1>23 DEF Done, AckedOK, Working
  <2>3. PlacesOK' /\ JobsOK' /\ Working'
    BY <1>23, WorkFinished, WorkGoesOn, Went DEF Done, Procs, PC, OnTheJob, Working, JobsOK
  <2>. QED
    BY <1>23, <2>1, <2>2, <2>3 DEF Done, SweepsOK, FaultsOK, SessionsOK
<1>24. ASSUME NEW o \in Operators, KeepResult(o)
      PROVE  Types'
  <2>1. RowsOK'
    BY <1>24, RowFields, RowWritten DEF KeepResult, RowsOK, Working
  <2>2. AckedOK'
    BY <1>24 DEF KeepResult, AckedOK, Working
  <2>3. PlacesOK' /\ JobsOK' /\ Working'
    BY <1>24, WorkFinished DEF KeepResult
  <2>. QED
    BY <1>24, <2>1, <2>2, <2>3 DEF KeepResult, StatusesOK, SweepsOK, FaultsOK, SessionsOK
<1>25. ASSUME NEW o \in Operators, Fail(o)
      PROVE  Types'
  <2>1. StatusesOK' /\ RowsOK'
    BY <1>25, Ended DEF Fail, Status
  <2>2. PlacesOK' /\ JobsOK' /\ Working'
    BY <1>25, WorkFinished DEF Fail
  <2>. QED
    BY <1>25, <2>1, <2>2 DEF Fail, SweepsOK, AckedOK, FaultsOK, SessionsOK
<1>26. ASSUME NEW o \in Operators, Cancel(o)
      PROVE  Types'
  <2>1. StatusesOK' /\ RowsOK'
    BY <1>26, Ended DEF Cancel, Status
  <2>2. PlacesOK' /\ JobsOK' /\ Working'
    BY <1>26, WorkFinished DEF Cancel
  <2>. QED
    BY <1>26, <2>1, <2>2 DEF Cancel, SweepsOK, AckedOK, FaultsOK, SessionsOK
<1>27. ASSUME NEW o \in Operators, ResetRead(o)
      PROVE  Types'
  <2>1. PlacesOK'
    BY <1>27, Went DEF ResetRead, PC
  <2>2. JobsOK'
    <3>1. status[job[o].act] \in Status \cup {"unread"}
      BY <1>27 DEF ResetRead, Working, StatusesOK
    <3>2. job[o] \in Job
      BY DEF JobsOK, Procs
    <3>3. [job[o] EXCEPT !.from = status[job[o].act]] \in Job
      BY <3>1, <3>2 DEF Job
    <3>. QED
      BY <1>27, <3>3 DEF ResetRead, JobsOK
  <2>3. Working'
    BY <1>27 DEF ResetRead, Goto, Working, OnTheJob, Procs, PlacesOK, JobsOK, Job
  <2>. QED
    BY <1>27, <2>1, <2>2, <2>3 DEF ResetRead, StatusesOK, RowsOK, SweepsOK, AckedOK, FaultsOK,
       SessionsOK
<1>28. ASSUME NEW o \in Operators, ResetWrite(o)
      PROVE  Types'
  <2>1. StatusesOK' /\ RowsOK'
    BY <1>28, PutBack DEF ResetWrite, StatusesOK, RowsOK
  <2>2. PlacesOK' /\ JobsOK' /\ Working'
    BY <1>28, WorkFinished DEF ResetWrite
  <2>. QED
    BY <1>28, <2>1, <2>2 DEF ResetWrite, SweepsOK, AckedOK, FaultsOK, SessionsOK
<1>29. ASSUME NEW o \in Operators, NEW a \in Actions, ManualDispatch(o, a)
      PROVE  Types'
  <2>1. StatusesOK' /\ RowsOK'
    BY <1>29, Claimed DEF ManualDispatch
  <2>2. PlacesOK'
    BY <1>29, Went DEF ManualDispatch, PC
  <2>3. JobsOK'
    BY <1>29, NoJobTyped DEF ManualDispatch, JobsOK
  <2>4. Working'
    BY <1>29 DEF ManualDispatch, Goto, Working, OnTheJob, Procs, PlacesOK, JobsOK, NoJob
  <2>. QED
    BY <1>29, <2>1, <2>2, <2>3, <2>4 DEF ManualDispatch, SweepsOK, AckedOK, FaultsOK, SessionsOK
<1>30. ASSUME NEW s \in Sessions, NEW st \in Endings, SessionEnds(s, st)
      PROVE  Types'
  <2>1. SessionsOK'
    BY <1>30, EndingsAssumption DEF SessionEnds, SessionsOK
  <2>. QED
    BY <1>30, <2>1 DEF SessionEnds, StatusesOK, RowsOK, PlacesOK, JobsOK, SweepsOK, AckedOK,
       FaultsOK, Working
<1>31. ASSUME NEW s \in Sessions, CloudSessionRecords(s)
      PROVE  Types'
  <2>1. RowsOK'
    BY <1>31, RowFields, RowWritten DEF CloudSessionRecords, RowsOK, MaybeSession
  <2>. QED
    BY <1>31, <2>1 DEF CloudSessionRecords, StatusesOK, PlacesOK, JobsOK, SweepsOK, AckedOK,
       FaultsOK, SessionsOK, Working
<1>32. ASSUME NEW a \in Actions, Ages(a)
      PROVE  Types'
  <2>1. RowsOK'
    <3>1. row[a] \in Row /\ row[a].age + 1 \in Age
      BY <1>32 DEF Ages, RowsOK, Row, Age
    <3>. QED
      BY <1>32, <3>1, RowFields, RowWritten DEF Ages, RowsOK
  <2>. QED
    BY <1>32, <2>1 DEF Ages, StatusesOK, PlacesOK, JobsOK, SweepsOK, AckedOK, FaultsOK,
       SessionsOK, Working
<1>33. ASSUME NEW a \in Actions, Ripens(a)
      PROVE  Types'
  <2>1. RowsOK'
    BY <1>33, RowFields, RowWritten DEF Ripens, RowsOK
  <2>. QED
    BY <1>33, <2>1 DEF Ripens, StatusesOK, PlacesOK, JobsOK, SweepsOK, AckedOK, FaultsOK,
       SessionsOK, Working
<1>34. CASE UNCHANGED vars
  BY <1>34 DEF vars, StatusesOK, RowsOK, SessionsOK, PlacesOK, JobsOK, SweepsOK, AckedOK,
     FaultsOK, Working
<1>. QED
  BY <1>1, <1>2, <1>3, <1>4, <1>5, <1>6, <1>7, <1>8, <1>9, <1>10, <1>11, <1>12, <1>13, <1>14,
     <1>15, <1>16, <1>17, <1>18, <1>19, <1>20, <1>21, <1>22, <1>23, <1>24, <1>25, <1>26, <1>27,
     <1>28, <1>29, <1>30, <1>31, <1>32, <1>33, <1>34
     DEF Next, Reap, DispatchOne, Execute, Operate, Environment

-----------------------------------------------------------------------------
(* The caps of the slot pools.                                             *)

\* A step writes statuses by SetStatus, or admits a run, or does neither.
LEMMA HowStatusChanges ==
    ASSUME Types, [Next]_vars
    PROVE  \/ UNCHANGED <<status, slot>>
           \/ \E w \in Workers : Admit(w)
           \/ \E S, st : SetStatus(S, st)
<1>. DEFINE Goal == \/ UNCHANGED <<status, slot>>
                    \/ \E w \in Workers : Admit(w)
                    \/ \E S, st : SetStatus(S, st)
<1>1. ASSUME NEW w \in Workers, ListOrphans(w)
      PROVE  Goal
  BY <1>1 DEF ListOrphans
<1>2. ASSUME NEW w \in Workers, FailOrphans(w)
      PROVE  Goal
  <2>1. SetStatus(Open(sweep[w].orphans), "failed")
    BY <1>2 DEF FailOrphans
  <2>. QED
    BY <2>1
<1>3. ASSUME NEW w \in Workers, ListShorts(w)
      PROVE  Goal
  BY <1>3 DEF ListShorts
<1>4. ASSUME NEW w \in Workers, NEW unreadable, NEW withText, ReadStates(w, unreadable,
             withText)
      PROVE  Goal
  BY <1>4 DEF ReadStates
<1>5. ASSUME NEW w \in Workers, MergeSids(w)
      PROVE  Goal
  BY <1>5 DEF MergeSids
<1>6. ASSUME NEW w \in Workers, MarkDones(w)
      PROVE  Goal
  <2>1. SetStatus(Open({d[1] : d \in sweep[w].dones}), "done")
    BY <1>6 DEF MarkDones
  <2>. QED
    BY <2>1
<1>7. ASSUME NEW w \in Workers, NEW a \in Actions, KeepSweptResult(w, a)
      PROVE  Goal
  BY <1>7 DEF KeepSweptResult
<1>8. ASSUME NEW w \in Workers, MarkFails(w)
      PROVE  Goal
  <2>1. SetStatus(Open(sweep[w].fails), "failed")
    BY <1>8 DEF MarkFails
  <2>. QED
    BY <2>1
<1>9. ASSUME NEW w \in Workers, NEW a \in Actions, ClaimNext(w, a)
      PROVE  Goal
  <2>1. SetStatus({a}, "running")
    BY <1>9 DEF ClaimNext, Claim
  <2>. QED
    BY <2>1
<1>10. ASSUME NEW w \in Workers, EndTick(w)
      PROVE  Goal
  BY <1>10 DEF EndTick
<1>11. ASSUME NEW w \in Workers, Admit(w)
      PROVE  Goal
  BY <1>11
<1>12. ASSUME NEW w \in Workers, DeferRead(w)
      PROVE  Goal
  BY <1>12 DEF DeferRead
<1>13. ASSUME NEW w \in Workers, DeferWrite(w)
      PROVE  Goal
  <2>1. SetStatus({job[w].act}, "pending") \/ UNCHANGED <<status, slot>>
    BY <1>13 DEF DeferWrite, MovePending
  <2>. QED
    BY <2>1
<1>14. ASSUME NEW w \in Workers, TickError(w)
      PROVE  Goal
  BY <1>14 DEF TickError
<1>15. ASSUME NEW p \in Procs, NEW s \in Sessions, Launch(p, s)
      PROVE  Goal
  BY <1>15 DEF Launch
<1>16. ASSUME NEW p \in Procs, LaunchFails(p)
      PROVE  Goal
  BY <1>16 DEF LaunchFails
<1>17. ASSUME NEW p \in Procs, RecordShort(p)
      PROVE  Goal
  BY <1>17 DEF RecordShort
<1>18. ASSUME NEW p \in Procs, MarkDispatched(p)
      PROVE  Goal
  <2>1. SetStatus({job[p].act} \cap {a \in Actions : status[a] = "running"}, "dispatched")
    BY <1>18 DEF MarkDispatched
  <2>. QED
    BY <2>1
<1>19. ASSUME NEW p \in Procs, Reject(p)
      PROVE  Goal
  <2>1. SetStatus(Open({job[p].act}), "failed")
    BY <1>19 DEF Reject, MarkTerminal
  <2>. QED
    BY <2>1
<1>20. ASSUME NEW p \in Procs, Crash(p)
      PROVE  Goal
  BY <1>20 DEF Crash
<1>21. ASSUME NEW p \in Procs, LastCallFails(p)
      PROVE  Goal
  BY <1>21 DEF LastCallFails
<1>22. ASSUME NEW o \in Operators, NEW c \in Command, NEW a \in Actions, NEW text \in BOOLEAN,
              Check(o, c, a, text)
      PROVE  Goal
  BY <1>22 DEF Check
<1>23. ASSUME NEW o \in Operators, Done(o)
      PROVE  Goal
  <2>1. SetStatus(Open({job[o].act}), "done")
    BY <1>23 DEF Done, MarkTerminal
  <2>. QED
    BY <2>1
<1>24. ASSUME NEW o \in Operators, KeepResult(o)
      PROVE  Goal
  BY <1>24 DEF KeepResult
<1>25. ASSUME NEW o \in Operators, Fail(o)
      PROVE  Goal
  <2>1. SetStatus(Open({job[o].act}), "failed")
    BY <1>25 DEF Fail, MarkTerminal
  <2>. QED
    BY <2>1
<1>26. ASSUME NEW o \in Operators, Cancel(o)
      PROVE  Goal
  <2>1. SetStatus(Open({job[o].act}), "cancelled")
    BY <1>26 DEF Cancel, MarkTerminal
  <2>. QED
    BY <2>1
<1>27. ASSUME NEW o \in Operators, ResetRead(o)
      PROVE  Goal
  BY <1>27 DEF ResetRead
<1>28. ASSUME NEW o \in Operators, ResetWrite(o)
      PROVE  Goal
  <2>1. SetStatus({job[o].act}, "pending") \/ UNCHANGED <<status, slot>>
    BY <1>28 DEF ResetWrite, MovePending
  <2>. QED
    BY <2>1
<1>29. ASSUME NEW o \in Operators, NEW a \in Actions, ManualDispatch(o, a)
      PROVE  Goal
  <2>1. SetStatus({a}, "running")
    BY <1>29 DEF ManualDispatch, Claim
  <2>. QED
    BY <2>1
<1>30. ASSUME NEW s \in Sessions, NEW st \in Endings, SessionEnds(s, st)
      PROVE  Goal
  BY <1>30 DEF SessionEnds
<1>31. ASSUME NEW s \in Sessions, CloudSessionRecords(s)
      PROVE  Goal
  BY <1>31 DEF CloudSessionRecords
<1>32. ASSUME NEW a \in Actions, Ages(a)
      PROVE  Goal
  BY <1>32 DEF Ages
<1>33. ASSUME NEW a \in Actions, Ripens(a)
      PROVE  Goal
  BY <1>33 DEF Ripens
<1>34. CASE UNCHANGED vars
  BY <1>34 DEF vars
<1>. QED
  BY <1>1, <1>2, <1>3, <1>4, <1>5, <1>6, <1>7, <1>8, <1>9, <1>10, <1>11, <1>12, <1>13, <1>14,
     <1>15, <1>16, <1>17, <1>18, <1>19, <1>20, <1>21, <1>22, <1>23, <1>24, <1>25, <1>26, <1>27,
     <1>28, <1>29, <1>30, <1>31, <1>32, <1>33, <1>34
     DEF Next, Reap, DispatchOne, Execute, Operate, Environment

\* An admitted run is running.
SlotsRun == \A a \in slot : status[a] = "running"

\* Giving up admissions cannot exceed a cap.
LEMMA FewerSlots ==
    ASSUME IsFiniteSet(Actions), StatusesOK, SlotCap, slot' \subseteq slot
    PROVE  SlotCap'
<1>. SUFFICES ASSUME NEW m \in {"interactive", "noninteractive"}
              PROVE  Cardinality({a \in slot' : Mode[a] = m}) <= Limit(m)
  BY DEF SlotCap, Limit
<1>1. IsFiniteSet({a \in slot : Mode[a] = m})
  BY FS_Subset DEF StatusesOK
<1>2. {a \in slot' : Mode[a] = m} \subseteq {a \in slot : Mode[a] = m}
  OBVIOUS
<1>3. /\ Cardinality({a \in slot' : Mode[a] = m}) <= Cardinality({a \in slot : Mode[a] = m})
      /\ Cardinality({a \in slot' : Mode[a] = m}) \in Nat
      /\ Cardinality({a \in slot : Mode[a] = m}) \in Nat
  BY <1>1, <1>2, FS_Subset, FS_CardinalityType
<1>4. Cardinality({a \in slot : Mode[a] = m}) <= Limit(m)
  BY DEF SlotCap
<1>5. Limit(m) \in Nat
  BY LimitsAssumption DEF Limit
<1>. QED
  BY <1>3, <1>4, <1>5

\* Every step keeps the caps: only Admit takes a slot, after counting the
\* whole pool.
LEMMA SlotStep ==
    ASSUME IsFiniteSet(Actions), Types, SlotsRun, SlotCap, [Next]_vars
    PROVE  SlotsRun' /\ SlotCap'
<1>1. CASE UNCHANGED <<status, slot>>
  BY <1>1 DEF SlotsRun, SlotCap, Limit
<1>2. ASSUME NEW S, NEW st, SetStatus(S, st)
      PROVE  SlotsRun' /\ SlotCap'
  <2>1. slot' \subseteq slot
    BY <1>2 DEF SetStatus
  <2>2. SlotsRun'
    BY <1>2 DEF SetStatus, SlotsRun, Types, StatusesOK
  <2>. QED
    BY <2>1, <2>2, FewerSlots DEF Types
<1>3. ASSUME NEW w \in Workers, Admit(w)
      PROVE  SlotsRun' /\ SlotCap'
  <2>. DEFINE a == job[w].act
              pool == Running(Mode[a])
  <2>1. a \in Actions /\ status' = status
    BY <1>3 DEF Admit, Types, Working, OnTheJob, Procs
  <2>2. CASE slot' = slot
    BY <2>1, <2>2 DEF SlotsRun, SlotCap, Limit
  <2>3. CASE slot' # slot
    <3>1. /\ ~ (Cardinality(pool) > Limit(Mode[a]))
          /\ status[a] = "running"
          /\ slot' = slot \cup {a}
      BY <1>3, <2>3 DEF Admit
    <3>2. SlotsRun'
      BY <2>1, <3>1 DEF SlotsRun
    <3>3. ASSUME NEW m \in {"interactive", "noninteractive"}
          PROVE  Cardinality({x \in slot' : Mode[x] = m}) <= Limit(m)
      <4>1. CASE Mode[a] = m
        <5>1. IsFiniteSet(pool)
          BY FS_Subset DEF Running
        <5>2. {x \in slot' : Mode[x] = m} \subseteq pool
          BY <2>1, <3>1, <3>2, <4>1 DEF SlotsRun, Running, Types, StatusesOK
        <5>3. /\ Cardinality({x \in slot' : Mode[x] = m}) <= Cardinality(pool)
              /\ Cardinality({x \in slot' : Mode[x] = m}) \in Nat
              /\ Cardinality(pool) \in Nat
          BY <5>1, <5>2, FS_Subset, FS_CardinalityType
        <5>4. Limit(m) \in Nat
          BY LimitsAssumption DEF Limit
        <5>. HIDE DEF pool, a
        <5>. QED
          BY <3>1, <4>1, <5>3, <5>4
      <4>2. CASE Mode[a] # m
        <5>1. {x \in slot' : Mode[x] = m} = {x \in slot : Mode[x] = m}
          BY <3>1, <4>2
        <5>. QED
          BY <5>1 DEF SlotCap
      <4>. QED
        BY <4>1, <4>2
    <3>4. SlotCap'
      BY <3>3 DEF SlotCap, Limit
    <3>. QED
      BY <3>2, <3>4
  <2>. QED
    BY <2>2, <2>3
<1>. QED
  BY <1>1, <1>2, <1>3, HowStatusChanges

-----------------------------------------------------------------------------
(* Type correctness and the caps as theorems.                              *)

\* The initial state is well typed.
LEMMA InitTypes == Init => Types
<1>. SUFFICES ASSUME Init
              PROVE  Types
  OBVIOUS
<1>1. FreshRow \in Row
  BY DEF FreshRow, Row, Age, MaybeSession
<1>2. StatusesOK /\ RowsOK /\ AckedOK
  BY <1>1 DEF Init, StatusesOK, RowsOK, AckedOK, Status
<1>3. SessionsOK
  BY DEF Init, SessionsOK
<1>4. PlacesOK /\ JobsOK /\ SweepsOK
  BY NoJobTyped, NoSweepTyped DEF Init, PlacesOK, JobsOK, SweepsOK, PC
<1>5. FaultsOK
  BY FaultsAssumption DEF Init, FaultsOK
<1>6. Working
  BY DEF Init, Working, OnTheJob, Procs
<1>. QED
  BY <1>2, <1>3, <1>4, <1>5, <1>6 DEF Types

\* Nothing is admitted at first.
LEMMA InitSlots == Init => SlotsRun /\ SlotCap
<1>. SUFFICES ASSUME Init
              PROVE  SlotsRun /\ SlotCap
  OBVIOUS
<1>1. \A m : {a \in slot : Mode[a] = m} = {}
  BY DEF Init
<1>. QED
  BY <1>1, FS_EmptySet, LimitsAssumption DEF Init, SlotsRun, SlotCap, Limit

\* The inductive invariant of this section.
LEMMA TypesAlways == Spec => []Types
BY InitTypes, TypesStep, PTL DEF Spec

\* Whatever processes, commands, faults and sessions there are, every
\* variable keeps its type.
THEOREM TypeCorrect == Spec => []TypeOK
<1>1. Types => TypeOK
  BY TypesAreTypes
<1>. QED
  BY <1>1, TypesAlways, PTL

\* No number of workers, commands or faults takes more admitted runs into a
\* pool than its cap.  (The count of the code is one of a finite table.)
THEOREM CapsHold ==
    ASSUME IsFiniteSet(Actions)
    PROVE  Spec => []SlotCap
<1>1. Types /\ SlotsRun /\ SlotCap /\ [Next]_vars => (SlotsRun /\ SlotCap)'
  BY SlotStep
<1>. QED
  BY <1>1, InitSlots, TypesAlways, PTL DEF Spec

=============================================================================
