-------------------------------- MODULE MCUi --------------------------------
(***************************************************************************)
(* An instance of Ui for TLC: a project with a task and two actions, one   *)
(* of them yet to come, or else two schedules.                             *)
(***************************************************************************)
EXTENDS Ui

OneProject == 1 :> 1
OneTask    == 1 :> 1 @@ 2 :> 1

\* A project with a task and an action that has ended.
Worked == [project |-> 1 :> "focused", task |-> 1 :> "open",
           action |-> 1 :> "done" @@ 2 :> "gone", schedule |-> 1 :> "gone" @@ 2 :> "gone"]

\* The same while the action waits.
Waiting == [Worked EXCEPT !.action[1] = "pending"]

\* Two schedules.
Planned == [project |-> 1 :> "gone", task |-> 1 :> "gone",
            action |-> 1 :> "gone" @@ 2 :> "gone", schedule |-> 1 :> "enabled" @@ 2 :> "disabled"]

StartBoards == [tasks |-> {Worked, Waiting}, schedules |-> {Planned}]

\* The two loops of skipDecorativeLines, for comparison with Skip.
RECURSIVE Walk(_, _, _)
Walk(ls, c, dir) ==
    IF c \in 0..(Len(ls) - 1) /\ ls[c + 1].type \in Border THEN Walk(ls, c + dir, dir) ELSE c

Loops(ls, c, dir) ==
    LET n     == Len(ls)
        there == Walk(ls, c, dir)
        back  == Walk(ls, Max({0, Min({there, n - 1})}), -dir)
    IN  IF n = 0 THEN 0
        ELSE IF there \in 0..(n - 1) THEN there
        ELSE Max({0, Min({back, n - 1})})

ASSUME SkipAsLoops ==
    \A n \in 0..4 : \A ls \in [1..n -> {Line("top", 1), Line("task", 1)}] :
        \A c \in 0..Max({0, n - 1}), dir \in {-1, 1} : Skip(ls, c, dir) = Loops(ls, c, dir)

\* The nested loops of buildLines over sorted rows, for comparison with
\* BuildLines, on two projects with three tasks and three actions.
Big == INSTANCE Ui WITH
    Projects <- {1, 2}, Tasks <- {1, 2, 3}, Actions <- {1, 2, 3}, Schedules <- {},
    ProjectOf <- <<1, 2, 1>>, TaskOf <- <<3, 3, 2>>

Sorted(S, status) ==
    SetToSortSeq(S, LAMBDA i, j : \/ Rank(status[i]) < Rank(status[j])
                                  \/ Rank(status[i]) = Rank(status[j]) /\ i > j)

TaskLoop(v, e, t) ==
    LET as == Sorted({a \in 1..3 : <<3, 3, 2>>[a] = t /\ v.action[a] # "gone"}, v.action)
    IN  <<Line("separator", t), Line("task", t)>>
        \o (IF e.task[t] = "open" THEN [i \in DOMAIN as |-> Line("action", as[i])] ELSE <<>>)

ProjectLoop(v, e, p) ==
    LET ts == Sorted({t \in 1..3 : <<1, 2, 1>>[t] = p /\ Big!TaskShows(v, t)}, v.task)
    IN  <<Line("top", p), Line("project", p)>>
        \o (IF e.project[p] = "open"
            THEN FlattenSeq([i \in DOMAIN ts |-> TaskLoop(v, e, ts[i])]) ELSE <<>>)
        \o <<Line("bottom", p)>>

ASSUME LinesAsLoops ==
    \A task \in [1..3 -> {"open", "done", "old"}], action \in [1..3 -> {"gone", "pending", "done"}] :
        \A second \in {"gone", "focused"}, f \in [1..3 -> {"open", "shut"}] :
            LET v == [project |-> <<"focused", second>>, task |-> task, action |-> action]
                e == [project |-> <<"open", "open">>, task |-> f]
            IN  Big!BuildLines(v, e) = ProjectLoop(v, e, 1) \o
                    (IF second = "gone" THEN <<>> ELSE ProjectLoop(v, e, 2))
=============================================================================
