---------------------------- MODULE MCMigration ----------------------------
(***************************************************************************)
(* Instances of Migration for TLC: a database of the time of prompts, and  *)
(* one of just before the trigger on task_id.                              *)
(***************************************************************************)
EXTENDS Migration

CONSTANTS a1, a2, t1, t2, c1, c2

Recent == {"projects.dispatch_enabled", "tasks.work_dir", "actions.title",
           "worker_heartbeats.max_interactive", "actions.dispatch_after", "actions.work_dir",
           "actions.tmux_session", "actions.tmux_window", "schedules.last_error",
           "schedules.instruction"}

Prompts == [columns  |-> (Recent \ {"actions.title", "actions.tmux_window", "schedules.instruction"})
                          \cup {"actions.prompt_id", "actions.tmux_pane", "schedules.prompt_id", "tasks.url"},
            counting |-> "none"]
Counted == [columns |-> Recent, counting |-> "stale"]

AllVersions == {Prompts, Counted}
JustCounted == {Counted}

\* Tasks are interchangeable: the old actions may as well be filed under t1.
Begin == Init /\ \A a \in Old : action[a].task = t1
OneHome == Begin /\ [][Next]_vars /\ \A p \in Procs : WF_vars(Start(p) \/ Migrate(p))
=============================================================================
