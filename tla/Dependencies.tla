---------------------------- MODULE Dependencies ----------------------------
(***************************************************************************)
(* Completion dependencies of tq actions (db/action_dependency.go, the     *)
(* purge triggers of db/schema.sql) and the gate they put on the queue     *)
(* worker's claim (db/action.go, NextPending).                             *)
(*                                                                         *)
(* A transaction of the code is one action here: SQLite runs them one at a *)
(* time (_txlock=immediate).  What `tq action update` does is three steps, *)
(* because it reads the action's status before, and outside, the           *)
(* transaction that changes the edges.                                     *)
(*                                                                         *)
(* Abstractions: "active" stands for running and dispatched, "closed" for  *)
(* a task that is done or archived (the gate and the edit rule treat the   *)
(* members of each pair alike).  The task of an action never changes here, *)
(* so it is a constant.  What else can hold a pending action back from the *)
(* queue, a dispatch_after that lies ahead or a project out of focus, may  *)
(* change between any two steps: it is an input of the claim.              *)
(***************************************************************************)
EXTENDS Integers, FiniteSets

CONSTANTS
    Actions,      \* ids of actions, in the order AUTOINCREMENT hands them out
    Tasks,        \* ids of tasks
    Projects,     \* ids of projects
    Home,         \* the project each task belongs to
    Owner,        \* the task each action is inserted under
    Editors,      \* processes running `tq action update`
    NoAction,     \* "this editor has no command under way"
    MaxEdges,     \* bound of the model: rows of action_dependencies
    MaxTaskEdges  \* bound of the model: those of them with dep_type = 'task'

ASSUME ActionsAreIds    == Actions \subseteq Nat
ASSUME TasksHaveHomes   == Home \in [Tasks -> Projects]
ASSUME ActionsHaveTasks == Owner \in [Actions -> Tasks]
ASSUME NoneIsNoAction   == NoAction \notin Actions

VARIABLES
    status,      \* actions.status, or "unborn" / "deleted"
    task,        \* tasks.status, or "deleted"
    actionDeps,  \* action_dependencies rows with dep_type = 'action'
    taskDeps,    \* action_dependencies rows with dep_type = 'task'
    editing      \* the action each editor has checked and will change

vars == <<status, task, actionDeps, taskDeps, editing>>

InsertStatus == {"pending", "active", "done", "failed", "cancelled"}
ActionState  == InsertStatus \cup {"unborn", "deleted"}
TaskState    == {"open", "closed", "deleted"}

TypeOK ==
    /\ status \in [Actions -> ActionState]
    /\ task \in [Tasks -> TaskState]
    /\ actionDeps \subseteq Actions \X Actions
    /\ taskDeps \subseteq Actions \X Tasks
    /\ editing \in [Editors -> Actions \cup {NoAction}]

ActionExists(a) == status[a] \notin {"unborn", "deleted"}
TaskExists(t)   == task[t] # "deleted"

Init ==
    /\ status = [a \in Actions |-> "unborn"]
    /\ task = [t \in Tasks |-> "open"]
    /\ actionDeps = {}
    /\ taskDeps = {}
    /\ editing = [e \in Editors |-> NoAction]

-----------------------------------------------------------------------------
(* Reading the graph.                                                      *)

ClosedUnder(S, edges) == \A e \in edges : e[1] \in S => e[2] \in S

\* The recursive query of actionReachable: target is in every set of
\* actions that holds start and the blockers of its members.
Reachable(edges, start, target) ==
    \A S \in SUBSET Actions :
        start \in S /\ ClosedUnder(S, edges) => target \in S

\* dependencyGatePredicate: no edge of a leads to an unsatisfied blocker.
DependencyGate(a) ==
    /\ \A b \in Actions : <<a, b>> \in actionDeps => status[b] = "done"
    /\ \A t \in Tasks : <<a, t>> \in taskDeps => task[t] = "closed"

Claimable(a) == status[a] = "pending" /\ DependencyGate(a)

EdgesOf(a, edges) == {e \in edges : e[1] = a}

\* Bounds of the model on the rows of action_dependencies.
WithinBound(edges, taskEdges) ==
    /\ Cardinality(taskEdges) <= MaxTaskEdges
    /\ Cardinality(edges) + Cardinality(taskEdges) <= MaxEdges

\* (Mutant of Admissible: only cycles of two are found.)
AdmissibleIfNotMutual(a, blockers, tasks, edges) ==
    /\ \A t \in tasks : TaskExists(t)
    /\ \A b \in blockers : b # a /\ ActionExists(b) /\ <<b, a>> \notin edges

\* What insertActionDependenciesTx demands of a batch of blockers.  It looks
\* at them one by one, after inserting those before, but edges that leave a
\* open no new way to a: checking them all against the table is the same.
Admissible(a, blockers, tasks, edges) ==
    /\ \A t \in tasks : TaskExists(t)
    /\ \A b \in blockers :
          /\ b # a
          /\ ActionExists(b)
          /\ ~ Reachable(edges, b, a)

\* (Mutant of InsertDependencies: dep_type is mixed up.)
InsertUntyped(a, blockers, tasks, edges, taskEdges) ==
    /\ WithinBound(edges \cup ({a} \X blockers), taskEdges \cup ({a} \X tasks))
    /\ actionDeps' = edges \cup ({a} \X (blockers \cup tasks))
    /\ taskDeps' = taskEdges

\* insertActionDependenciesTx on a table that holds edges and taskEdges.
\* One bad blocker is an error, and the error rolls back the transaction.
InsertDependencies(a, blockers, tasks, edges, taskEdges) ==
    LET newEdges     == edges \cup ({a} \X blockers)
        newTaskEdges == taskEdges \cup ({a} \X tasks)
    IN  /\ WithinBound(newEdges, newTaskEdges)
        /\ Admissible(a, blockers, tasks, edges)
        /\ actionDeps' = newEdges
        /\ taskDeps' = newTaskEdges

-----------------------------------------------------------------------------
(* Operations.                                                             *)

\* InsertActionWithDependencies: the row and its edges in one transaction.
InsertAction(a, st, blockers, tasks) ==
    /\ status[a] = "unborn"
    /\ \A b \in Actions : b < a => status[b] # "unborn"
    /\ TaskExists(Owner[a])
    /\ InsertDependencies(a, blockers, tasks, actionDeps, taskDeps)
    /\ status' = [status EXCEPT ![a] = st]
    /\ UNCHANGED <<task, editing>>

\* `tq action update`, first step: the status is read outside a transaction.
CheckEditable(e, a) ==
    /\ editing[e] = NoAction
    /\ status[a] \in {"pending", "failed"}
    /\ editing' = [editing EXCEPT ![e] = a]
    /\ UNCHANGED <<status, task, actionDeps, taskDeps>>

\* Second step, --blocked-by only: AddActionDependencies.
AddDependencies(e, blockers, tasks) ==
    LET a == editing[e] IN
    /\ a # NoAction
    /\ ActionExists(a)
    /\ blockers # {} \/ tasks # {}
    /\ InsertDependencies(a, blockers, tasks, actionDeps, taskDeps)
    /\ editing' = [editing EXCEPT ![e] = NoAction]
    /\ UNCHANGED <<status, task>>

\* Second step, --clear-deps with --blocked-by: ReplaceActionDependencies
\* checks the new edges against the table without the old ones.
ReplaceDependencies(e, blockers, tasks) ==
    LET a == editing[e] IN
    /\ a # NoAction
    /\ ActionExists(a)
    /\ blockers # {} \/ tasks # {}
    /\ InsertDependencies(a, blockers, tasks, actionDeps \ EdgesOf(a, actionDeps),
                          taskDeps \ EdgesOf(a, taskDeps))
    /\ editing' = [editing EXCEPT ![e] = NoAction]
    /\ UNCHANGED <<status, task>>

\* Second step, --clear-deps alone: ClearActionDependencies.
ClearDependencies(e) ==
    LET a == editing[e] IN
    /\ a # NoAction
    /\ actionDeps' = actionDeps \ EdgesOf(a, actionDeps)
    /\ taskDeps' = taskDeps \ EdgesOf(a, taskDeps)
    /\ editing' = [editing EXCEPT ![e] = NoAction]
    /\ UNCHANGED <<status, task>>

\* The second step returns an error: the transaction is rolled back.
EditFails(e) ==
    /\ editing[e] # NoAction
    /\ editing' = [editing EXCEPT ![e] = NoAction]
    /\ UNCHANGED <<status, task, actionDeps, taskDeps>>

\* NextPending claims the pending action with the lowest id among those
\* that pass the gate and are not held back by their time or their project.
QueueClaim(a, held) ==
    /\ Claimable(a)
    /\ \A b \in Actions : b < a /\ Claimable(b) => b \in held
    /\ status' = [status EXCEPT ![a] = "active"]
    /\ UNCHANGED <<task, actionDeps, taskDeps, editing>>

\* ClaimPending: `tq action dispatch` looks at the status only.
ManualDispatch(a) ==
    /\ status[a] = "pending"
    /\ status' = [status EXCEPT ![a] = "active"]
    /\ UNCHANGED <<task, actionDeps, taskDeps, editing>>

\* markTerminal, on a row that is not terminal yet.
Finish(a, st) ==
    /\ status[a] \in {"pending", "active"}
    /\ status' = [status EXCEPT ![a] = st]
    /\ UNCHANGED <<task, actionDeps, taskDeps, editing>>

\* ResetToPending of a failed or cancelled action, DeferToPending of a
\* running one: the edges stay as they are.
BackToPending(a) ==
    /\ status[a] \in {"active", "failed", "cancelled"}
    /\ status' = [status EXCEPT ![a] = "pending"]
    /\ UNCHANGED <<task, actionDeps, taskDeps, editing>>

\* UpdateTaskFields with a status.  Its refusals are decided before its
\* transaction starts, so nothing about the actions is known at the write.
SetTaskStatus(t, st) ==
    /\ TaskExists(t)
    /\ task' = [task EXCEPT ![t] = st]
    /\ UNCHANGED <<status, actionDeps, taskDeps, editing>>

\* (Mutants of the two purges: what points at a deleted blocker stays.)
DropOwnedActionDeps(gone) == {e \in actionDeps : e[1] \notin gone}
DropOwnedTaskDeps(gone, goneTasks) == {e \in taskDeps : e[1] \notin gone}

\* The edges left once a set of actions and a set of tasks are deleted: the
\* foreign key drops the edges the deleted actions own, the purge triggers
\* those that point at what was deleted.
PurgeActionDeps(gone) == {e \in actionDeps : e[1] \notin gone /\ e[2] \notin gone}
PurgeTaskDeps(gone, goneTasks) ==
    {e \in taskDeps : e[1] \notin gone /\ e[2] \notin goneTasks}

\* DeleteProject with --cascade.
DeleteProject(p) ==
    LET goneTasks == {t \in Tasks : Home[t] = p /\ TaskExists(t)}
        gone == {a \in Actions : ActionExists(a) /\ Owner[a] \in goneTasks}
    IN  /\ goneTasks # {}
        /\ task' = [t \in Tasks |-> IF t \in goneTasks THEN "deleted" ELSE task[t]]
        /\ status' = [a \in Actions |-> IF a \in gone THEN "deleted" ELSE status[a]]
        /\ actionDeps' = PurgeActionDeps(gone)
        /\ taskDeps' = PurgeTaskDeps(gone, goneTasks)
        /\ UNCHANGED editing

Next ==
    \/ \E a \in Actions :
          /\ status[a] = "unborn"
          /\ \E st \in InsertStatus, B \in SUBSET Actions, T \in SUBSET Tasks :
                InsertAction(a, st, B, T)
    \/ \E e \in Editors, a \in Actions : CheckEditable(e, a)
    \/ \E e \in Editors :
          /\ editing[e] # NoAction
          /\ \E B \in SUBSET Actions, T \in SUBSET Tasks :
                AddDependencies(e, B, T) \/ ReplaceDependencies(e, B, T)
    \/ \E e \in Editors : ClearDependencies(e) \/ EditFails(e)
    \/ \E a \in Actions : \E held \in SUBSET {b \in Actions : b < a} : QueueClaim(a, held)
    \/ \E a \in Actions : ManualDispatch(a) \/ BackToPending(a)
    \/ \E a \in Actions, st \in {"done", "failed", "cancelled"} : Finish(a, st)
    \/ \E t \in Tasks, st \in {"open", "closed"} : SetTaskStatus(t, st)
    \/ \E p \in Projects : DeleteProject(p)

Spec == Init /\ [][Next]_vars

-----------------------------------------------------------------------------
(* Properties.                                                             *)

NoCircularWait(edges) ==
    \A S \in SUBSET Actions :
        S # {} => \E a \in S : \A b \in S : <<a, b>> \notin edges

\* Every nonempty set of actions has a member that waits for none of them:
\* the cycle check of insertActionDependenciesTx, run edge by edge, keeps
\* the whole graph free of circular waits whatever edits come in which order.
Acyclic == NoCircularWait(actionDeps)

\* No edge outlives either of its ends: dep_id has no foreign key, so only
\* the purge triggers stand between a deleted blocker and an action that the
\* gate holds back for ever.
NoDanglingEdges ==
    /\ \A e \in actionDeps : ActionExists(e[1]) /\ ActionExists(e[2])
    /\ \A e \in taskDeps : ActionExists(e[1]) /\ TaskExists(e[2])

\* The blockers that still exist can all succeed: each action among them is
\* done or waits in the queue itself, each task is closed.
NothingStandsInTheWay ==
    /\ \A e \in actionDeps :
          status[e[1]] = "pending" /\ ActionExists(e[2]) => status[e[2]] \in {"pending", "done"}
    /\ \A e \in taskDeps :
          status[e[1]] = "pending" /\ TaskExists(e[2]) => task[e[2]] = "closed"

\* The gate never locks the queue by itself: as long as no blocker failed,
\* was cancelled, is still at work or is an open task, some pending action
\* passes the gate.
GateProgress ==
    (\E a \in Actions : status[a] = "pending") /\ NothingStandsInTheWay
        => \E a \in Actions : status[a] = "pending" /\ DependencyGate(a)

\* `tq action update` refuses to change the dependencies of an action that
\* is neither pending nor failed; so a step that changes the edges an action
\* owns, other than by deleting one of their ends, finds it in one of those.
DepsFixedOnceStarted ==
    [][\A a \in Actions :
          LET kept == {e \in actionDeps : ActionExists(e[2])'}
          IN  \/ EdgesOf(a, actionDeps)' = EdgesOf(a, kept)
              \/ status[a] \in {"unborn", "pending", "failed"}
              \/ status'[a] = "deleted"]_vars

=============================================================================
