------------------------- MODULE DependenciesProofs -------------------------
(***************************************************************************)
(* Proofs about module Dependencies, for any sets of actions, tasks,       *)
(* projects and editors and any number of edges.                           *)
(*                                                                         *)
(* IInv is the inductive invariant: types, no dangling edge, no circular   *)
(* wait.  GateProgress is not inductive by itself; it follows from IInv.   *)
(***************************************************************************)
EXTENDS Dependencies, TLAPS

IInv ==
    /\ TypeOK
    /\ NoDanglingEdges
    /\ Acyclic

-----------------------------------------------------------------------------
(* Graphs.                                                                 *)

\* Removing edges keeps a graph free of circular waits.
LEMMA FewerEdges ==
    ASSUME NEW E, NEW F, F \subseteq E, NoCircularWait(E)
    PROVE  NoCircularWait(F)
BY DEF NoCircularWait

\* The actions from which a cannot be reached: a set that is closed under
\* the edges and does not hold a.
CannotReach(E, a) == {x \in Actions : ~ Reachable(E, x, a)}

\* Nobody in it has an edge out of it, and a is not in it.
LEMMA CannotReachClosed ==
    ASSUME NEW E, E \subseteq Actions \X Actions, NEW a \in Actions
    PROVE  /\ a \notin CannotReach(E, a)
           /\ \A x, y \in Actions :
                 x \in CannotReach(E, a) /\ <<x, y>> \in E => y \in CannotReach(E, a)
<1>1. a \notin CannotReach(E, a)
  BY DEF CannotReach, Reachable
<1>2. ASSUME NEW x \in Actions, NEW y \in Actions,
             x \in CannotReach(E, a), <<x, y>> \in E
      PROVE  y \in CannotReach(E, a)
  <2>1. PICK S \in SUBSET Actions : x \in S /\ ClosedUnder(S, E) /\ a \notin S
    BY <1>2 DEF CannotReach, Reachable
  <2>2. y \in S
    BY <1>2, <2>1 DEF ClosedUnder
  <2>. QED
    BY <2>1, <2>2 DEF CannotReach, Reachable
<1>. QED
  BY <1>1, <1>2

\* The cycle check is enough: edges from a to blockers that cannot reach a
\* close no cycle.
LEMMA AdmissibleEdges ==
    ASSUME NEW E, E \subseteq Actions \X Actions, NoCircularWait(E),
           NEW a \in Actions, NEW B \in SUBSET Actions,
           \A b \in B : b # a /\ ~ Reachable(E, b, a)
    PROVE  NoCircularWait(E \cup ({a} \X B))
<1>. DEFINE F == E \cup ({a} \X B)
            R == CannotReach(E, a)
<1>1. B \subseteq R
  BY DEF CannotReach
<1>. SUFFICES ASSUME NEW S \in SUBSET Actions, S # {}
              PROVE  \E s \in S : \A b \in S : <<s, b>> \notin F
  BY DEF NoCircularWait
<1>2. CASE S \cap R # {}
  <2>1. PICK s \in S \cap R : \A b \in S \cap R : <<s, b>> \notin E
    BY <1>2 DEF NoCircularWait
  <2>2. s # a
    BY CannotReachClosed
  <2>3. ASSUME NEW b \in S, <<s, b>> \in F
        PROVE  FALSE
    <3>1. <<s, b>> \in E
      BY <2>2, <2>3
    <3>2. b \in R
      BY <3>1, CannotReachClosed
    <3>. QED
      BY <2>1, <3>1, <3>2
  <2>. QED
    BY <2>3
<1>3. CASE S \cap R = {}
  <2>1. PICK s \in S : \A b \in S : <<s, b>> \notin E
    BY DEF NoCircularWait
  <2>2. ASSUME NEW b \in S, <<s, b>> \in F
        PROVE  FALSE
    <3>1. b \in B
      BY <2>1, <2>2
    <3>. QED
      BY <1>1, <1>3, <3>1
  <2>. QED
    BY <2>1, <2>2
<1>. QED
  BY <1>2, <1>3

-----------------------------------------------------------------------------
(* The invariant.                                                          *)

\* InsertDependencies on a table with fewer edges than the real one, for an
\* action that exists afterwards, keeps IInv.
LEMMA InsertKeepsInvariant ==
    ASSUME IInv, NEW a \in Actions, NEW B \in SUBSET Actions, NEW T \in SUBSET Tasks,
           NEW E, E \subseteq actionDeps, NEW F, F \subseteq taskDeps,
           InsertDependencies(a, B, T, E, F),
           status' \in [Actions -> ActionState],
           \A b \in Actions : ActionExists(b) => ActionExists(b)',
           ActionExists(a)', task' = task, editing' \in [Editors -> Actions \cup {NoAction}]
    PROVE  IInv'
<1>1. /\ \A t \in T : TaskExists(t)
      /\ \A b \in B : b # a /\ ActionExists(b) /\ ~ Reachable(E, b, a)
      /\ actionDeps' = E \cup ({a} \X B)
      /\ taskDeps' = F \cup ({a} \X T)
  BY DEF InsertDependencies, Admissible
<1>2. TypeOK'
  BY <1>1 DEF IInv, TypeOK
<1>3. NoDanglingEdges'
  <2>1. ASSUME NEW e \in actionDeps'
        PROVE  ActionExists(e[1])' /\ ActionExists(e[2])'
    <3>1. CASE e \in E
      BY <3>1 DEF IInv, NoDanglingEdges, TypeOK
    <3>2. CASE e \in {a} \X B
      BY <1>1, <3>2
    <3>. QED
      BY <1>1, <2>1, <3>1, <3>2
  <2>2. ASSUME NEW e \in taskDeps'
        PROVE  ActionExists(e[1])' /\ TaskExists(e[2])'
    <3>1. CASE e \in F
      BY <3>1 DEF IInv, NoDanglingEdges, TypeOK, TaskExists
    <3>2. CASE e \in {a} \X T
      BY <1>1, <3>2 DEF TaskExists
    <3>. QED
      BY <1>1, <2>2, <3>1, <3>2
  <2>. QED
    BY <2>1, <2>2 DEF NoDanglingEdges
<1>4. Acyclic'
  <2>1. NoCircularWait(E) /\ E \subseteq Actions \X Actions
    BY FewerEdges DEF IInv, Acyclic, TypeOK
  <2>2. NoCircularWait(E \cup ({a} \X B))
    BY <1>1, <2>1, AdmissibleEdges
  <2>. QED
    BY <1>1, <2>2 DEF Acyclic, NoCircularWait
<1>. QED
  BY <1>2, <1>3, <1>4 DEF IInv

\* A step that only moves one existing action to another existing state.
LEMMA StatusStepKeepsInvariant ==
    ASSUME IInv, NEW a \in Actions, NEW st \in InsertStatus, ActionExists(a),
           status' = [status EXCEPT ![a] = st],
           UNCHANGED <<task, actionDeps, taskDeps, editing>>
    PROVE  IInv'
<1>1. TypeOK'
  BY DEF IInv, TypeOK, ActionState
<1>2. \A b \in Actions : ActionExists(b) => ActionExists(b)'
  BY DEF IInv, TypeOK, ActionExists, InsertStatus
<1>3. NoDanglingEdges'
  BY <1>2 DEF IInv, TypeOK, NoDanglingEdges, TaskExists
<1>4. Acyclic'
  BY DEF IInv, Acyclic, NoCircularWait
<1>. QED
  BY <1>1, <1>3, <1>4 DEF IInv

\* The empty table satisfies the invariant.
LEMMA InitInvariant == Init => IInv
<1>. SUFFICES ASSUME Init PROVE IInv
  OBVIOUS
<1>1. TypeOK
  BY DEF Init, TypeOK, ActionState, TaskState
<1>2. NoDanglingEdges
  BY DEF Init, NoDanglingEdges
<1>3. Acyclic
  BY DEF Init, Acyclic, NoCircularWait
<1>. QED
  BY <1>1, <1>2, <1>3 DEF IInv

\* Every step keeps it: one step of the proof per action.
LEMMA NextInvariant == IInv /\ [Next]_vars => IInv'
<1>. SUFFICES ASSUME IInv, [Next]_vars PROVE IInv'
  OBVIOUS
<1>. USE DEF InsertStatus
<1>1. ASSUME NEW a \in Actions, NEW st \in InsertStatus,
             NEW B \in SUBSET Actions, NEW T \in SUBSET Tasks, InsertAction(a, st, B, T)
      PROVE  IInv'
  <2>1. /\ status' = [status EXCEPT ![a] = st]
        /\ UNCHANGED <<task, editing>>
        /\ InsertDependencies(a, B, T, actionDeps, taskDeps)
    BY <1>1 DEF InsertAction
  <2>2. /\ status' \in [Actions -> ActionState]
        /\ ActionExists(a)'
        /\ \A b \in Actions : ActionExists(b) => ActionExists(b)'
    BY <2>1 DEF IInv, TypeOK, ActionExists, ActionState
  <2>. QED
    BY <2>1, <2>2, InsertKeepsInvariant DEF IInv, TypeOK
<1>2. ASSUME NEW e \in Editors, NEW a \in Actions, CheckEditable(e, a)
      PROVE  IInv'
  BY <1>2 DEF CheckEditable, IInv, TypeOK, NoDanglingEdges, Acyclic, NoCircularWait,
              ActionExists, TaskExists
<1>3. ASSUME NEW e \in Editors, NEW B \in SUBSET Actions, NEW T \in SUBSET Tasks,
             AddDependencies(e, B, T) \/ ReplaceDependencies(e, B, T)
      PROVE  IInv'
  <2>1. /\ editing[e] \in Actions
        /\ ActionExists(editing[e])
        /\ UNCHANGED <<status, task>>
        /\ editing' \in [Editors -> Actions \cup {NoAction}]
    BY <1>3 DEF AddDependencies, ReplaceDependencies, IInv, TypeOK
  <2>2. PICK a \in Actions : a = editing[e]
    BY <2>1
  <2>3. PICK E \in SUBSET actionDeps, F \in SUBSET taskDeps :
           InsertDependencies(a, B, T, E, F)
    BY <1>3, <2>2 DEF AddDependencies, ReplaceDependencies, EdgesOf
  <2>4. /\ ActionExists(a)'
        /\ \A b \in Actions : ActionExists(b) => ActionExists(b)'
        /\ status' \in [Actions -> ActionState]
    BY <2>1, <2>2 DEF ActionExists, IInv, TypeOK
  <2>. QED
    BY <2>1, <2>3, <2>4, InsertKeepsInvariant
<1>4. ASSUME NEW e \in Editors, ClearDependencies(e) \/ EditFails(e)
      PROVE  IInv'
  <2>1. /\ actionDeps' \subseteq actionDeps
        /\ taskDeps' \subseteq taskDeps
        /\ UNCHANGED <<status, task>>
        /\ editing' \in [Editors -> Actions \cup {NoAction}]
    BY <1>4 DEF ClearDependencies, EditFails, IInv, TypeOK
  <2>2. TypeOK'
    BY <2>1 DEF IInv, TypeOK
  <2>3. NoDanglingEdges'
    BY <2>1 DEF IInv, NoDanglingEdges, ActionExists, TaskExists
  <2>4. Acyclic'
    BY <2>1, FewerEdges DEF IInv, Acyclic, NoCircularWait
  <2>. QED
    BY <2>2, <2>3, <2>4 DEF IInv
<1>5. ASSUME NEW a \in Actions, NEW held \in SUBSET {b \in Actions : b < a},
             QueueClaim(a, held)
      PROVE  IInv'
  BY <1>5, StatusStepKeepsInvariant DEF QueueClaim, Claimable, ActionExists
<1>6. ASSUME NEW a \in Actions, ManualDispatch(a) \/ BackToPending(a)
      PROVE  IInv'
  BY <1>6, StatusStepKeepsInvariant DEF ManualDispatch, BackToPending, ActionExists
<1>7. ASSUME NEW a \in Actions, NEW st \in {"done", "failed", "cancelled"}, Finish(a, st)
      PROVE  IInv'
  BY <1>7, StatusStepKeepsInvariant DEF Finish, ActionExists
<1>8. ASSUME NEW t \in Tasks, NEW st \in {"open", "closed"}, SetTaskStatus(t, st)
      PROVE  IInv'
  <2>1. TypeOK'
    BY <1>8 DEF SetTaskStatus, IInv, TypeOK, TaskState
  <2>2. NoDanglingEdges'
    BY <1>8 DEF SetTaskStatus, IInv, TypeOK, NoDanglingEdges, ActionExists, TaskExists
  <2>3. Acyclic'
    BY <1>8 DEF SetTaskStatus, IInv, Acyclic, NoCircularWait
  <2>. QED
    BY <2>1, <2>2, <2>3 DEF IInv
<1>9. ASSUME NEW p \in Projects, DeleteProject(p)
      PROVE  IInv'
  <2>. DEFINE goneTasks == {t \in Tasks : Home[t] = p /\ TaskExists(t)}
              gone == {a \in Actions : ActionExists(a) /\ Owner[a] \in goneTasks}
  <2>1. /\ task' = [t \in Tasks |-> IF t \in goneTasks THEN "deleted" ELSE task[t]]
        /\ status' = [a \in Actions |-> IF a \in gone THEN "deleted" ELSE status[a]]
        /\ actionDeps' = PurgeActionDeps(gone)
        /\ taskDeps' = PurgeTaskDeps(gone, goneTasks)
        /\ UNCHANGED editing
    BY <1>9 DEF DeleteProject
  <2>2. TypeOK'
    BY <2>1 DEF IInv, TypeOK, ActionState, TaskState, PurgeActionDeps, PurgeTaskDeps
  <2>3. NoDanglingEdges'
    <3>1. ASSUME NEW e \in actionDeps'
          PROVE  ActionExists(e[1])' /\ ActionExists(e[2])'
      BY <2>1, <3>1 DEF IInv, TypeOK, NoDanglingEdges, ActionExists, PurgeActionDeps
    <3>2. ASSUME NEW e \in taskDeps'
          PROVE  ActionExists(e[1])' /\ TaskExists(e[2])'
      BY <2>1, <3>2 DEF IInv, TypeOK, NoDanglingEdges, ActionExists, TaskExists,
                        PurgeTaskDeps
    <3>. QED
      BY <3>1, <3>2 DEF NoDanglingEdges
  <2>4. Acyclic'
    <3>1. actionDeps' \subseteq actionDeps
      BY <2>1 DEF PurgeActionDeps
    <3>. QED
      BY <3>1, FewerEdges DEF IInv, Acyclic, NoCircularWait
  <2>. QED
    BY <2>2, <2>3, <2>4 DEF IInv
<1>10. CASE UNCHANGED vars
  BY <1>10 DEF vars, IInv, TypeOK, NoDanglingEdges, Acyclic, NoCircularWait,
               ActionExists, TaskExists
<1>. QED
  BY <1>1, <1>2, <1>3, <1>4, <1>5, <1>6, <1>7, <1>8, <1>9, <1>10 DEF Next

\* The inductive invariant always holds.
LEMMA Invariance == Spec => []IInv
BY InitInvariant, NextInvariant, PTL DEF Spec

-----------------------------------------------------------------------------
(* Results.                                                                *)

\* The variables keep their types.
THEOREM TypeCorrect == Spec => []TypeOK
<1>1. IInv => TypeOK
  BY DEF IInv
<1>. QED
  BY <1>1, Invariance, PTL

\* Edges never outlive the actions and tasks they connect.
THEOREM EdgesNeverDangle == Spec => []NoDanglingEdges
<1>1. IInv => NoDanglingEdges
  BY DEF IInv
<1>. QED
  BY <1>1, Invariance, PTL

\* No sequence of insertions, edits and deletions makes a circular wait.
THEOREM NeverCircular == Spec => []Acyclic
<1>1. IInv => Acyclic
  BY DEF IInv
<1>. QED
  BY <1>1, Invariance, PTL

\* The gate alone never holds back every pending action.
THEOREM GateNeverLocks == Spec => []GateProgress
<1>1. IInv => GateProgress
  <2>. SUFFICES ASSUME IInv, NothingStandsInTheWay, \E a \in Actions : status[a] = "pending"
                PROVE  \E a \in Actions : status[a] = "pending" /\ DependencyGate(a)
    BY DEF GateProgress
  <2>. DEFINE P == {a \in Actions : status[a] = "pending"}
  <2>1. PICK a \in P : \A b \in P : <<a, b>> \notin actionDeps
    BY DEF IInv, Acyclic, NoCircularWait
  <2>2. \A b \in Actions : <<a, b>> \in actionDeps => status[b] = "done"
    BY <2>1 DEF IInv, NoDanglingEdges, NothingStandsInTheWay
  <2>3. \A t \in Tasks : <<a, t>> \in taskDeps => task[t] = "closed"
    BY <2>1 DEF IInv, NoDanglingEdges, NothingStandsInTheWay
  <2>. QED
    BY <2>1, <2>2, <2>3 DEF DependencyGate
<1>. QED
  BY <1>1, Invariance, PTL

=============================================================================
