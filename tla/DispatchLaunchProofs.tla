------------------------ MODULE DispatchLaunchProofs ------------------------
(***************************************************************************)
(* Sessions and the actions they are started for (module Dispatch): an     *)
(* action nobody resets is launched once, and a worker's verdict about a   *)
(* session is only written to the run it is about.                         *)
(*                                                                         *)
(* A process holds an action from its claim to the launch.  The heart is   *)
(* HeldOnce: what is held is not pending, has no session yet, and is held  *)
(* by one process, for only its holder puts it back.                       *)
(***************************************************************************)
EXTENDS DispatchProofs

\* Nobody ever issues `tq action reset`.
NoResets == \A o \in Operators : "reset" \notin Commands[o]

Resetting    == {"resetRead", "resetWrite"}
NobodyResets == \A p \in Procs : pc[p] \notin Resetting

Held       == {"admit", "defer", "deferWrite", "launch"}
Holding(p) == pc[p] \in Held

\* What a process has claimed and not launched is its own.
HeldOnce ==
    /\ \A p \in Procs : Holding(p) =>
          /\ status[job[p].act] # "pending"
          /\ \A s \in Sessions : session[s].for # job[p].act
    /\ \A p, q \in Procs : Holding(p) /\ Holding(q) /\ job[p].act = job[q].act => p = q

\* An action with a session is not waiting for another one.
LaunchedNotPending ==
    \A s \in Sessions : session[s].for \in Actions => status[session[s].for] # "pending"

-----------------------------------------------------------------------------
(* What a step does to claims and launches.                                *)

\* No process begins to hold an action, no action becomes pending, no session
\* is started.
LetGo     == \A p \in Procs : Holding(p)' => Holding(p) /\ job'[p].act = job[p].act
NoneWaits == \A a \in Actions : status'[a] = "pending" => status[a] = "pending"
SameFor   == \A s \in Sessions : session'[s].for = session[s].for

Calm == LetGo /\ NoneWaits /\ SameFor

\* A process claims a pending action.
Claims ==
    \E p \in Procs, a \in Actions :
        /\ status[a] = "pending" /\ status'[a] # "pending" /\ job'[p].act = a
        /\ \A q \in Procs \ {p} : Holding(q)' => Holding(q) /\ job'[q].act = job[q].act
        /\ NoneWaits /\ SameFor

\* A process starts a session for the action it holds.
Launches ==
    \E p \in Procs, s \in Sessions :
        /\ Holding(p) /\ ~ Holding(p)' /\ session'[s].for = job[p].act
        /\ \A r \in Sessions \ {s} : session'[r].for = session[r].for
        /\ LetGo /\ NoneWaits

\* A process puts the action it holds back.
PutsBack ==
    \E p \in Procs :
        /\ Holding(p) /\ ~ Holding(p)'
        /\ \A a \in Actions \ {job[p].act} : status'[a] = "pending" => status[a] = "pending"
        /\ LetGo /\ SameFor

\* A process goes on to a place where it resets nothing and holds no more than
\* before.
Leads(p, l) ==
    /\ l \notin Resetting
    /\ l \in Held => Holding(p) /\ job'[p].act = job[p].act
    /\ \A q \in Procs \ {p} : job'[q] = job[q]

\* Such a move lets go of claims at most.
LEMMA Moves ==
    ASSUME Types, NobodyResets, NEW p \in Procs, NEW l, Goto(p, l), Leads(p, l)
    PROVE  LetGo /\ NobodyResets'
BY DEF Goto, Leads, LetGo, NobodyResets, Holding, Types, PlacesOK

\* Without resets, these are all that happens: one step of the proof per
\* action.
LEMMA HowWorkMoves ==
    ASSUME NoResets, Types, NobodyResets, [Next]_vars
    PROVE  NobodyResets' /\ (Calm \/ Claims \/ Launches \/ PutsBack)
<1>. DEFINE Goal == NobodyResets' /\ (Calm \/ Claims \/ Launches \/ PutsBack)
<1>1. ASSUME NEW w \in Workers, ListOrphans(w)
      PROVE  Goal
  <2>1. NoneWaits /\ SameFor
    BY <1>1 DEF ListOrphans, NoneWaits, SameFor
  <2>2. PICK l : Goto(w, l) /\ Leads(w, l)
    BY <1>1 DEF ListOrphans, Finished, Leads, Holding, Held, Resetting, Types, JobsOK, Procs
  <2>. QED
    BY <2>1, <2>2, Moves DEF Calm, Leads, Procs
<1>2. ASSUME NEW w \in Workers, FailOrphans(w)
      PROVE  Goal
  <2>1. NoneWaits /\ SameFor
    BY <1>2 DEF FailOrphans, SetStatus, NoneWaits, SameFor, Types, StatusesOK
  <2>2. PICK l : Goto(w, l) /\ Leads(w, l)
    BY <1>2 DEF FailOrphans, Finished, Leads, Holding, Held, Resetting, Types, JobsOK, Procs
  <2>. QED
    BY <2>1, <2>2, Moves DEF Calm, Leads, Procs
<1>3. ASSUME NEW w \in Workers, ListShorts(w)
      PROVE  Goal
  <2>1. NoneWaits /\ SameFor
    BY <1>3 DEF ListShorts, NoneWaits, SameFor
  <2>2. PICK l : Goto(w, l) /\ Leads(w, l)
    BY <1>3 DEF ListShorts, Finished, Leads, Holding, Held, Resetting, Types, JobsOK, Procs
  <2>. QED
    BY <2>1, <2>2, Moves DEF Calm, Leads, Procs
<1>4. ASSUME NEW w \in Workers, NEW unreadable, NEW withText, ReadStates(w, unreadable,
withText)
      PROVE  Goal
  <2>1. NoneWaits /\ SameFor
    BY <1>4 DEF ReadStates, NoneWaits, SameFor
  <2>2. PICK l : Goto(w, l) /\ Leads(w, l)
    BY <1>4, NextWriteIn DEF ReadStates, Finished, Leads, Holding, Held, Resetting, Types,
    JobsOK, Procs
  <2>. QED
    BY <2>1, <2>2, Moves DEF Calm, Leads, Procs
<1>5. ASSUME NEW w \in Workers, MergeSids(w)
      PROVE  Goal
  <2>1. NoneWaits /\ SameFor
    BY <1>5 DEF MergeSids, NoneWaits, SameFor
  <2>2. PICK l : Goto(w, l) /\ Leads(w, l)
    BY <1>5, NextWriteIn DEF MergeSids, Finished, Leads, Holding, Held, Resetting, Types,
    JobsOK, Procs
  <2>. QED
    BY <2>1, <2>2, Moves DEF Calm, Leads, Procs
<1>6. ASSUME NEW w \in Workers, MarkDones(w)
      PROVE  Goal
  <2>1. NoneWaits /\ SameFor
    BY <1>6 DEF MarkDones, SetStatus, NoneWaits, SameFor, Types, StatusesOK
  <2>2. PICK l : Goto(w, l) /\ Leads(w, l)
    BY <1>6, NextWriteIn DEF MarkDones, Finished, Leads, Holding, Held, Resetting, Types,
    JobsOK, Procs
  <2>. QED
    BY <2>1, <2>2, Moves DEF Calm, Leads, Procs
<1>7. ASSUME NEW w \in Workers, NEW a \in Actions, KeepSweptResult(w, a)
      PROVE  Goal
  <2>1. NoneWaits /\ SameFor
    BY <1>7 DEF KeepSweptResult, NoneWaits, SameFor
  <2>2. PICK l : Goto(w, l) /\ Leads(w, l)
    BY <1>7, NextWriteIn DEF KeepSweptResult, Finished, Leads, Holding, Held, Resetting,
    Types, JobsOK, Procs
  <2>. QED
    BY <2>1, <2>2, Moves DEF Calm, Leads, Procs
<1>8. ASSUME NEW w \in Workers, MarkFails(w)
      PROVE  Goal
  <2>1. NoneWaits /\ SameFor
    BY <1>8 DEF MarkFails, SetStatus, NoneWaits, SameFor, Types, StatusesOK
  <2>2. PICK l : Goto(w, l) /\ Leads(w, l)
    BY <1>8 DEF MarkFails, Finished, Leads, Holding, Held, Resetting, Types, JobsOK, Procs
  <2>. QED
    BY <2>1, <2>2, Moves DEF Calm, Leads, Procs
<1>9. ASSUME NEW w \in Workers, NEW a \in Actions, ClaimNext(w, a)
      PROVE  Goal
  <2>1. /\ status[a] = "pending" /\ status'[a] # "pending" /\ NoneWaits /\ SameFor
        /\ job'[w].act = a
        /\ \A q \in Procs \ {w} : Holding(q)' => Holding(q) /\ job'[q].act = job[q].act
    BY <1>9 DEF ClaimNext, Claim, SetStatus, NoneWaits, SameFor, Holding, Held, Goto, Procs,
       Types, StatusesOK, JobsOK, PlacesOK, NoJob
  <2>2. NobodyResets'
    BY <1>9 DEF ClaimNext, NobodyResets, Resetting, Goto, Types, PlacesOK
  <2>. QED
    BY <2>1, <2>2 DEF Claims, Procs
<1>10. ASSUME NEW w \in Workers, EndTick(w)
      PROVE  Goal
  <2>1. NoneWaits /\ SameFor
    BY <1>10 DEF EndTick, NoneWaits, SameFor
  <2>2. PICK l : Goto(w, l) /\ Leads(w, l)
    BY <1>10 DEF EndTick, Finished, Leads, Holding, Held, Resetting, Types, JobsOK, Procs
  <2>. QED
    BY <2>1, <2>2, Moves DEF Calm, Leads, Procs
<1>11. ASSUME NEW w \in Workers, Admit(w)
      PROVE  Goal
  <2>1. NoneWaits /\ SameFor
    BY <1>11 DEF Admit, NoneWaits, SameFor
  <2>2. PICK l : Goto(w, l) /\ Leads(w, l)
    BY <1>11 DEF Admit, Finished, Leads, Holding, Held, Resetting, Types, JobsOK, Procs
  <2>. QED
    BY <2>1, <2>2, Moves DEF Calm, Leads, Procs
<1>12. ASSUME NEW w \in Workers, DeferRead(w)
      PROVE  Goal
  <2>1. NoneWaits /\ SameFor
    BY <1>12 DEF DeferRead, NoneWaits, SameFor
  <2>2. PICK l : Goto(w, l) /\ Leads(w, l)
    BY <1>12 DEF DeferRead, Finished, Leads, Holding, Held, Resetting, Types, JobsOK, Procs
  <2>. QED
    BY <2>1, <2>2, Moves DEF Calm, Leads, Procs
<1>13. ASSUME NEW w \in Workers, DeferWrite(w)
      PROVE  Goal
  <2>1. CASE status[job[w].act] = "running"
    <3>1. LetGo /\ NobodyResets'
      <4>1. Goto(w, "claim") /\ \A q \in Procs \ {w} : job'[q] = job[q]
        BY <1>13, <2>1 DEF DeferWrite, Types, JobsOK
      <4>. QED
        BY <4>1, Moves DEF Leads, Held, Resetting, Procs
    <3>2. Holding(w) /\ ~ Holding(w)' /\ SameFor
      BY <1>13, <2>1 DEF DeferWrite, Holding, Held, Goto, SameFor, Types, PlacesOK, Procs
    <3>3. \A a \in Actions \ {job[w].act} : status'[a] = "pending" => status[a] = "pending"
      BY <1>13, <2>1 DEF DeferWrite, MovePending, SetStatus
    <3>. QED
      BY <3>1, <3>2, <3>3 DEF PutsBack, Procs
  <2>2. CASE status[job[w].act] # "running"
    <3>1. Goto(w, "reject") /\ UNCHANGED <<job, status, session>>
      BY <1>13, <2>2 DEF DeferWrite
    <3>. QED
      BY <3>1, Moves DEF Leads, Held, Resetting, Procs, NoneWaits, SameFor, Calm
  <2>. QED
    BY <2>1, <2>2
<1>14. ASSUME NEW w \in Workers, TickError(w)
      PROVE  Goal
  <2>1. NoneWaits /\ SameFor
    BY <1>14 DEF TickError, NoneWaits, SameFor
  <2>2. PICK l : Goto(w, l) /\ Leads(w, l)
    BY <1>14, NextWriteIn DEF TickError, Finished, Leads, Holding, Held, Resetting, Types,
    JobsOK, Procs
  <2>. QED
    BY <2>1, <2>2, Moves DEF Calm, Leads, Procs
<1>15. ASSUME NEW p \in Procs, NEW s \in Sessions, Launch(p, s)
      PROVE  Goal
  <2>1. LetGo /\ NobodyResets'
    <3>1. PICK l : Goto(p, l) /\ l \in {"mark", "record"}
      BY <1>15 DEF Launch
    <3>2. \A q \in Procs \ {p} : job'[q] = job[q]
      BY <1>15 DEF Launch, Types, JobsOK
    <3>. QED
      BY <3>1, <3>2, Moves DEF Leads, Held, Resetting
  <2>2. NoneWaits /\ Holding(p) /\ ~ Holding(p)'
    BY <1>15 DEF Launch, NoneWaits, Holding, Held, Goto, Types, PlacesOK
  <2>3. session'[s].for = job[p].act /\ \A r \in Sessions \ {s} : session'[r].for = session[r].for
    BY <1>15 DEF Launch, Types, SessionsOK
  <2>. QED
    BY <2>1, <2>2, <2>3 DEF Launches
<1>16. ASSUME NEW p \in Procs, LaunchFails(p)
      PROVE  Goal
  <2>1. NoneWaits /\ SameFor
    BY <1>16 DEF LaunchFails, NoneWaits, SameFor
  <2>2. PICK l : Goto(p, l) /\ Leads(p, l)
    BY <1>16 DEF LaunchFails, Finished, Leads, Holding, Held, Resetting, Types, JobsOK,
    Procs
  <2>. QED
    BY <2>1, <2>2, Moves DEF Calm, Leads, Procs
<1>17. ASSUME NEW p \in Procs, RecordShort(p)
      PROVE  Goal
  <2>1. NoneWaits /\ SameFor
    BY <1>17 DEF RecordShort, NoneWaits, SameFor
  <2>2. PICK l : Goto(p, l) /\ Leads(p, l)
    BY <1>17 DEF RecordShort, Finished, Leads, Holding, Held, Resetting, Types, JobsOK,
    Procs
  <2>. QED
    BY <2>1, <2>2, Moves DEF Calm, Leads, Procs
<1>18. ASSUME NEW p \in Procs, MarkDispatched(p)
      PROVE  Goal
  <2>1. NoneWaits /\ SameFor
    BY <1>18 DEF MarkDispatched, SetStatus, NoneWaits, SameFor, Types, StatusesOK
  <2>2. PICK l : Goto(p, l) /\ Leads(p, l)
    BY <1>18 DEF MarkDispatched, Finished, Leads, Holding, Held, Resetting, Types, JobsOK,
    Procs
  <2>. QED
    BY <2>1, <2>2, Moves DEF Calm, Leads, Procs
<1>19. ASSUME NEW p \in Procs, Reject(p)
      PROVE  Goal
  <2>1. NoneWaits /\ SameFor
    BY <1>19 DEF Reject, MarkTerminal, SetStatus, NoneWaits, SameFor, Types, StatusesOK
  <2>2. PICK l : Goto(p, l) /\ Leads(p, l)
    BY <1>19 DEF Reject, Finished, Leads, Holding, Held, Resetting, Types, JobsOK, Procs
  <2>. QED
    BY <2>1, <2>2, Moves DEF Calm, Leads, Procs
<1>20. ASSUME NEW p \in Procs, Crash(p)
      PROVE  Goal
  <2>1. NoneWaits /\ SameFor
    BY <1>20 DEF Crash, NoneWaits, SameFor
  <2>2. PICK l : Goto(p, l) /\ Leads(p, l)
    BY <1>20 DEF Crash, Finished, Leads, Holding, Held, Resetting, Types, JobsOK, Procs
  <2>. QED
    BY <2>1, <2>2, Moves DEF Calm, Leads, Procs
<1>21. ASSUME NEW p \in Procs, LastCallFails(p)
      PROVE  Goal
  <2>1. NoneWaits /\ SameFor
    BY <1>21 DEF LastCallFails, NoneWaits, SameFor
  <2>2. PICK l : Goto(p, l) /\ Leads(p, l)
    BY <1>21 DEF LastCallFails, Finished, Leads, Holding, Held, Resetting, Types, JobsOK,
    Procs
  <2>. QED
    BY <2>1, <2>2, Moves DEF Calm, Leads, Procs
<1>22. ASSUME NEW o \in Operators, NEW c \in Command, NEW a \in Actions, NEW text \in
BOOLEAN, Check(o, c, a, text)
      PROVE  Goal
  <2>1. NoneWaits /\ SameFor
    BY <1>22 DEF Check, NoneWaits, SameFor
  <2>2. PICK l : Goto(o, l) /\ Leads(o, l)
    BY <1>22 DEF Check, Finished, Leads, Holding, Held, Resetting, Types, JobsOK, Procs,
    FirstStep, Command, NoResets
  <2>. QED
    BY <2>1, <2>2, Moves DEF Calm, Leads, Procs
<1>23. ASSUME NEW o \in Operators, Done(o)
      PROVE  Goal
  <2>1. NoneWaits /\ SameFor
    BY <1>23 DEF Done, MarkTerminal, SetStatus, NoneWaits, SameFor, Types, StatusesOK
  <2>2. PICK l : Goto(o, l) /\ Leads(o, l)
    BY <1>23 DEF Done, Finished, Leads, Holding, Held, Resetting, Types, JobsOK, Procs
  <2>. QED
    BY <2>1, <2>2, Moves DEF Calm, Leads, Procs
<1>24. ASSUME NEW o \in Operators, KeepResult(o)
      PROVE  Goal
  <2>1. NoneWaits /\ SameFor
    BY <1>24 DEF KeepResult, NoneWaits, SameFor
  <2>2. PICK l : Goto(o, l) /\ Leads(o, l)
    BY <1>24 DEF KeepResult, Finished, Leads, Holding, Held, Resetting, Types, JobsOK, Procs
  <2>. QED
    BY <2>1, <2>2, Moves DEF Calm, Leads, Procs
<1>25. ASSUME NEW o \in Operators, Fail(o)
      PROVE  Goal
  <2>1. NoneWaits /\ SameFor
    BY <1>25 DEF Fail, MarkTerminal, SetStatus, NoneWaits, SameFor, Types, StatusesOK
  <2>2. PICK l : Goto(o, l) /\ Leads(o, l)
    BY <1>25 DEF Fail, Finished, Leads, Holding, Held, Resetting, Types, JobsOK, Procs
  <2>. QED
    BY <2>1, <2>2, Moves DEF Calm, Leads, Procs
<1>26. ASSUME NEW o \in Operators, Cancel(o)
      PROVE  Goal
  <2>1. NoneWaits /\ SameFor
    BY <1>26 DEF Cancel, MarkTerminal, SetStatus, NoneWaits, SameFor, Types, StatusesOK
  <2>2. PICK l : Goto(o, l) /\ Leads(o, l)
    BY <1>26 DEF Cancel, Finished, Leads, Holding, Held, Resetting, Types, JobsOK, Procs
  <2>. QED
    BY <2>1, <2>2, Moves DEF Calm, Leads, Procs
<1>27. ASSUME NEW o \in Operators, ResetRead(o)
      PROVE  Goal
  BY <1>27 DEF ResetRead, NobodyResets, Resetting, Procs
<1>28. ASSUME NEW o \in Operators, ResetWrite(o)
      PROVE  Goal
  BY <1>28 DEF ResetWrite, NobodyResets, Resetting, Procs
<1>29. ASSUME NEW o \in Operators, NEW a \in Actions, ManualDispatch(o, a)
      PROVE  Goal
  <2>1. /\ status[a] = "pending" /\ status'[a] # "pending" /\ NoneWaits /\ SameFor
        /\ job'[o].act = a
        /\ \A q \in Procs \ {o} : Holding(q)' => Holding(q) /\ job'[q].act = job[q].act
    BY <1>29 DEF ManualDispatch, Claim, SetStatus, NoneWaits, SameFor, Holding, Held, Goto, Procs,
       Types, StatusesOK, JobsOK, PlacesOK, NoJob
  <2>2. NobodyResets'
    BY <1>29 DEF ManualDispatch, NobodyResets, Resetting, Goto, Types, PlacesOK
  <2>. QED
    BY <2>1, <2>2 DEF Claims, Procs
<1>30. ASSUME NEW s \in Sessions, NEW st \in Endings, SessionEnds(s, st)
      PROVE  Goal
  BY <1>30 DEF SessionEnds, Calm, LetGo, NoneWaits, SameFor, Holding, NobodyResets, Types,
     SessionsOK
<1>31. ASSUME NEW s \in Sessions, CloudSessionRecords(s)
      PROVE  Goal
  BY <1>31 DEF CloudSessionRecords, Calm, LetGo, NoneWaits, SameFor, Holding, NobodyResets, Types,
     SessionsOK
<1>32. ASSUME NEW a \in Actions, Ages(a)
      PROVE  Goal
  BY <1>32 DEF Ages, Calm, LetGo, NoneWaits, SameFor, Holding, NobodyResets, Types,
     SessionsOK
<1>33. ASSUME NEW a \in Actions, Ripens(a)
      PROVE  Goal
  BY <1>33 DEF Ripens, Calm, LetGo, NoneWaits, SameFor, Holding, NobodyResets, Types,
     SessionsOK
<1>34. CASE UNCHANGED vars
  BY <1>34 DEF vars, Calm, LetGo, NoneWaits, SameFor, Holding, NobodyResets
<1>. QED
  BY <1>1, <1>2, <1>3, <1>4, <1>5, <1>6, <1>7, <1>8, <1>9, <1>10, <1>11, <1>12, <1>13,
  <1>14, <1>15, <1>16, <1>17, <1>18, <1>19, <1>20, <1>21, <1>22, <1>23, <1>24, <1>25, <1>26,
  <1>27, <1>28, <1>29, <1>30, <1>31, <1>32, <1>33, <1>34
     DEF Next, Reap, DispatchOne, Execute, Operate, Environment

-----------------------------------------------------------------------------
(* Launched once.                                                          *)

LaunchInv == NobodyResets /\ HeldOnce /\ LaunchedNotPending /\ LaunchedOnce

\* At first nobody holds anything and no session has been started.
LEMMA InitLaunches == Init => LaunchInv
<1>. SUFFICES ASSUME Init PROVE LaunchInv
  OBVIOUS
<1>1. NobodyResets /\ HeldOnce
  BY DEF Init, NobodyResets, HeldOnce, Holding, Held, Resetting
<1>2. LaunchedNotPending /\ LaunchedOnce
  BY NoneAssumption DEF Init, LaunchedNotPending, LaunchedOnce
<1>. QED
  BY <1>1, <1>2 DEF LaunchInv

\* A process that holds an action has one.
LEMMA HeldActions ==
    ASSUME Types, NEW p \in Procs, Holding(p)
    PROVE  job[p].act \in Actions
BY DEF Types, Working, Holding, Held, OnTheJob

\* Every step keeps the invariant.
LEMMA LaunchStep ==
    ASSUME NoResets, Types, LaunchInv, [Next]_vars
    PROVE  LaunchInv'
<1>. USE DEF LaunchInv
<1>1. NobodyResets' /\ (Calm \/ Claims \/ Launches \/ PutsBack)
  BY HowWorkMoves
<1>2. CASE Calm
  <2>1. HeldOnce'
    BY <1>2, HeldActions DEF Calm, LetGo, NoneWaits, SameFor, HeldOnce
  <2>2. LaunchedNotPending' /\ LaunchedOnce'
    BY <1>2 DEF Calm, NoneWaits, SameFor, LaunchedNotPending, LaunchedOnce
  <2>. QED
    BY <1>1, <2>1, <2>2
<1>3. CASE Claims
  <2>1. PICK p \in Procs, a \in Actions :
           /\ status[a] = "pending" /\ status'[a] # "pending" /\ job'[p].act = a
           /\ \A q \in Procs \ {p} : Holding(q)' => Holding(q) /\ job'[q].act = job[q].act
           /\ NoneWaits /\ SameFor
    BY <1>3 DEF Claims
  <2>2. \A q \in Procs : Holding(q) => job[q].act # a
    BY <2>1 DEF HeldOnce
  <2>3. \A s \in Sessions : session[s].for # a
    BY <2>1 DEF LaunchedNotPending
  <2>4. HeldOnce'
    <3>1. ASSUME NEW q \in Procs, Holding(q)'
          PROVE  /\ status'[job'[q].act] # "pending"
                 /\ \A s \in Sessions : session'[s].for # job'[q].act
      BY <2>1, <2>3, <3>1, HeldActions DEF HeldOnce, NoneWaits, SameFor
    <3>2. ASSUME NEW q \in Procs, NEW r \in Procs, Holding(q)', Holding(r)',
                 job'[q].act = job'[r].act
          PROVE  q = r
      BY <2>1, <2>2, <3>2 DEF HeldOnce
    <3>. QED
      BY <3>1, <3>2 DEF HeldOnce
  <2>5. LaunchedNotPending' /\ LaunchedOnce'
    BY <2>1 DEF NoneWaits, SameFor, LaunchedNotPending, LaunchedOnce
  <2>. QED
    BY <1>1, <2>4, <2>5
<1>4. CASE Launches
  <2>1. PICK p \in Procs, s \in Sessions :
           /\ Holding(p) /\ ~ Holding(p)' /\ session'[s].for = job[p].act
           /\ \A r \in Sessions \ {s} : session'[r].for = session[r].for
           /\ LetGo /\ NoneWaits
    BY <1>4 DEF Launches
  <2>2. job[p].act \in Actions
    BY <2>1, HeldActions
  <2>3. HeldOnce'
    <3>1. ASSUME NEW q \in Procs, Holding(q)'
          PROVE  /\ status'[job'[q].act] # "pending"
                 /\ \A r \in Sessions : session'[r].for # job'[q].act
      <4>1. q # p /\ Holding(q) /\ job'[q].act = job[q].act /\ job[q].act \in Actions
        BY <2>1, <3>1, HeldActions DEF LetGo
      <4>2. job[q].act # job[p].act
        BY <2>1, <4>1 DEF HeldOnce
      <4>. QED
        BY <2>1, <4>1, <4>2 DEF HeldOnce, NoneWaits
    <3>2. \A q, r \in Procs : (Holding(q) /\ Holding(r) /\ job[q].act = job[r].act)' => q = r
      BY <2>1 DEF LetGo, HeldOnce
    <3>. QED
      BY <3>1, <3>2 DEF HeldOnce
  <2>4. \A r \in Sessions : session[r].for # job[p].act
    BY <2>1 DEF HeldOnce
  <2>5. LaunchedNotPending'
    BY <2>1, <2>2 DEF HeldOnce, LaunchedNotPending, NoneWaits
  <2>6. LaunchedOnce'
    BY <2>1, <2>4 DEF LaunchedOnce
  <2>. QED
    BY <1>1, <2>3, <2>5, <2>6
<1>5. CASE PutsBack
  <2>1. PICK p \in Procs :
           /\ Holding(p) /\ ~ Holding(p)'
           /\ \A a \in Actions \ {job[p].act} : status'[a] = "pending" => status[a] = "pending"
           /\ LetGo /\ SameFor
    BY <1>5 DEF PutsBack
  <2>2. HeldOnce'
    <3>1. ASSUME NEW q \in Procs, Holding(q)'
          PROVE  /\ status'[job'[q].act] # "pending"
                 /\ \A r \in Sessions : session'[r].for # job'[q].act
      <4>1. q # p /\ Holding(q) /\ job'[q].act = job[q].act /\ job[q].act \in Actions
        BY <2>1, <3>1, HeldActions DEF LetGo
      <4>2. job[q].act # job[p].act
        BY <2>1, <4>1 DEF HeldOnce
      <4>. QED
        BY <2>1, <4>1, <4>2 DEF HeldOnce, SameFor
    <3>2. \A q, r \in Procs : (Holding(q) /\ Holding(r) /\ job[q].act = job[r].act)' => q = r
      BY <2>1 DEF LetGo, HeldOnce
    <3>. QED
      BY <3>1, <3>2 DEF HeldOnce
  <2>3. LaunchedNotPending'
    <3>1. \A s \in Sessions : session[s].for # job[p].act
      BY <2>1 DEF HeldOnce
    <3>. QED
      BY <2>1, <3>1 DEF LaunchedNotPending, SameFor
  <2>4. LaunchedOnce'
    BY <2>1 DEF LaunchedOnce, SameFor
  <2>. QED
    BY <1>1, <2>2, <2>3, <2>4
<1>. QED
  BY <1>1, <1>2, <1>3, <1>4, <1>5

\* The invariant holds of all behaviours without resets.
LEMMA LaunchAlways ==
    ASSUME NoResets
    PROVE  Spec => []LaunchInv
<1>1. Types /\ LaunchInv /\ [Next]_vars => LaunchInv'
  BY LaunchStep
<1>. QED
  BY <1>1, InitLaunches, TypesAlways, PTL DEF Spec

\* However many workers claim, defer, launch and die, and whoever dispatches
\* by hand, an action that nobody resets gets one session at most
\* (db/action.go: NextPending, ClaimPending; dispatch/execute.go).
THEOREM NeverLaunchedTwice ==
    ASSUME NoResets
    PROVE  Spec => []LaunchedOnce
<1>1. LaunchInv => LaunchedOnce
  BY DEF LaunchInv
<1>. QED
  BY <1>1, LaunchAlways, PTL
=============================================================================
