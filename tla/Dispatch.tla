------------------------------ MODULE Dispatch ------------------------------
(***************************************************************************)
(* The life of tq actions under concurrent queue workers and CLI commands: *)
(* the worker's tick (dispatch/queue_worker.go: reap, then dispatch), the  *)
(* launch path it shares with `tq action dispatch` (dispatch/execute.go),  *)
(* the status commands (cmd/done.go, fail.go, cancel.go, reset.go) and the *)
(* store operations they call (db/action.go).                              *)
(*                                                                         *)
(* Processes share the database and the daemon's state.json files.  Each   *)
(* store call that is one statement or one transaction is one step; what a *)
(* process read in an earlier step may be stale in a later one.            *)
(*                                                                         *)
(* Time: age counts the thresholds started_at has crossed (1: the 30s      *)
(* grace of both reapers, 2: the 4h limit of noninteractive sessions), and *)
(* ripe says that dispatch_after is null or past.  Which ripe pending      *)
(* action a worker claims is left open: module Dependencies has the gate   *)
(* and the order.                                                          *)
(***************************************************************************)
EXTENDS Integers, FiniteSets

CONSTANTS
    Actions,            \* ids of actions
    Workers,            \* processes running RunWorker (one per `tq ui`)
    Operators,          \* processes running CLI commands, one at a time
    Commands,           \* the commands each operator issues
    Mode,               \* metadata.mode of each action
    MaxInteractive, MaxNonInteractive,
    MaxAttempts,        \* maxDispatchAttemptsPerTick
    Sessions,           \* bound of the model: claude sessions ever started
    Endings,            \* bound of the model: how sessions may end
    NoSession, NoAction,
    MaxFaults           \* bound of the model: crashes and tolerated errors

Procs    == Workers \cup Operators
Modes    == {"interactive", "noninteractive", "remote"}
Command  == {"done", "fail", "cancel", "reset", "dispatch"}
Status   == {"pending", "running", "dispatched", "done", "failed", "cancelled"}
Terminal == {"done", "failed", "cancelled"}

ASSUME ModesAssumption    == Mode \in [Actions -> Modes]
ASSUME CommandsAssumption == Commands \in [Operators -> SUBSET Command]
ASSUME LimitsAssumption   == {MaxInteractive, MaxNonInteractive, MaxAttempts} \subseteq Nat
ASSUME EndingsAssumption  == Endings \subseteq {"done", "failed", "gone"}
ASSUME FaultsAssumption   == MaxFaults \in Nat
ASSUME ProcsAssumption    == Workers \cap Operators = {}
ASSUME NoneAssumption     == NoSession \notin Sessions /\ NoAction \notin Actions

VARIABLES
    status,    \* actions.status
    row,       \* the other columns and metadata keys of an action
    slot,      \* ghost: actions whose present run passed an admission check
    session,   \* what the daemon or the cloud knows of each session
    pc,        \* where each process stands
    job,       \* the action a process works on and what it noted about it
    sweep,     \* what a worker collected and tried this tick
    acked,     \* ghost: actions some caller was told are done, with a result
    faults     \* faults so far

vars == <<status, row, slot, session, pc, job, sweep, acked, faults>>

MaybeSession == Sessions \cup {NoSession}

Age == 0..2

Row == [age   : Age,                              \* started_at
        ripe  : BOOLEAN,                          \* dispatch_after
        short : MaybeSession,                     \* metadata.daemon_short
        sid   : MaybeSession,                     \* metadata.claude_session_id
        kept  : BOOLEAN,                          \* metadata.successful_result
        cloud : BOOLEAN]                          \* metadata.executor = cloud

Job == [act  : Actions \cup {NoAction},
        from : Status \cup {"unread"},            \* status movePending has read
        sess : MaybeSession,                      \* session just launched
        text : BOOLEAN]                           \* done comes with a result

Sweep == [orphans : SUBSET Actions,
          listed  : SUBSET [act : Actions, short : Sessions, age : Age, hasSid : BOOLEAN],
          sids    : SUBSET (Actions \X Sessions),
          dones   : SUBSET (Actions \X BOOLEAN),  \* with or without a result
          lost    : SUBSET Actions,
          fails   : SUBSET Actions,
          tries   : 0..MaxAttempts]

PC == {"idle", "orphans", "list", "read", "merge", "dones", "keep", "fails", "claim",
       "admit", "defer", "deferWrite", "launch", "record", "mark", "reject",
       "done", "fail", "cancel", "resetRead", "resetWrite"}

TypeOK ==
    /\ status \in [Actions -> Status]
    /\ row \in [Actions -> Row]
    /\ slot \subseteq Actions
    /\ session \in [Sessions -> [for : Actions \cup {NoAction},
                                 state : {"unused", "working", "done", "failed", "gone"}]]
    /\ pc \in [Procs -> PC]
    /\ job \in [Procs -> Job]
    /\ sweep \in [Workers -> Sweep]
    /\ acked \subseteq Actions
    /\ faults \in 0..MaxFaults

NoJob    == [act |-> NoAction, from |-> "unread", sess |-> NoSession, text |-> FALSE]
NoSweep  == [orphans |-> {}, listed |-> {}, sids |-> {}, dones |-> {}, lost |-> {}, fails |-> {},
             tries |-> 0]
FreshRow == [age |-> 0, ripe |-> TRUE, short |-> NoSession, sid |-> NoSession,
             kept |-> FALSE, cloud |-> FALSE]

Init ==
    /\ status = [a \in Actions |-> "pending"]
    /\ row = [a \in Actions |-> FreshRow]
    /\ slot = {}
    /\ session = [s \in Sessions |-> [for |-> NoAction, state |-> "unused"]]
    /\ pc = [p \in Procs |-> "idle"]
    /\ job = [p \in Procs |-> NoJob]
    /\ sweep = [w \in Workers |-> NoSweep]
    /\ acked = {}
    /\ faults = 0

-----------------------------------------------------------------------------
(* Store operations.                                                       *)

\* A write of status: a run that ends takes its admission and its age along.
\* (started_at stays in the row after a run, but only running rows are asked
\* for it.)
SetStatus(S, st) ==
    /\ status' = [a \in Actions |-> IF a \in S THEN st ELSE status[a]]
    /\ slot' = IF st = "running" THEN slot ELSE slot \ S

ResetAge(S) == [a \in Actions |-> IF a \in S THEN [row[a] EXCEPT !.age = 0] ELSE row[a]]

\* (Mutant of Open: only done is final.)
OpenUnlessDone(S) == {a \in S : status[a] # "done"}

\* The rows of S that markTerminal, BulkMarkDone or BulkMarkFailed change.
Open(S) == {a \in S : status[a] \notin Terminal}

\* markTerminal: a terminal action stays as it is.
MarkTerminal(a, st) ==
    /\ SetStatus(Open({a}), st)
    /\ row' = ResetAge(Open({a}))

\* (Mutant of LosesResult: a cancelled action is forgotten.)
LosesToFailureOnly(a, text) == text /\ status[a] = "failed"

\* preserveSuccessfulResultOnRaceLoss: a result that comes with "done" too
\* late, after failed or cancelled, must still go to the metadata.
LosesResult(a, text) == text /\ status[a] \in {"failed", "cancelled"}

\* NextPending and ClaimPending.
Claim(a) ==
    /\ SetStatus({a}, "running")
    /\ row' = ResetAge({a})

\* (Mutant of MovePending: a deferral gets a status of its own.)
MoveAside(a, ripe) ==
    /\ SetStatus({a}, IF ripe THEN "pending" ELSE "deferred")
    /\ row' = [row EXCEPT ![a].age = 0, ![a].ripe = ripe]

\* The UPDATE of movePending; ripe is FALSE for a dispatch_after in 30s.
MovePending(a, ripe) ==
    /\ SetStatus({a}, "pending")
    /\ row' = [row EXCEPT ![a].age = 0, ![a].ripe = ripe]

\* CountRunningInteractive and CountRunningNonInteractive: the pool of a.
Running(m) == {a \in Actions : status[a] = "running" /\ Mode[a] = m}
Limit(m)   == IF m = "noninteractive" THEN MaxNonInteractive ELSE MaxInteractive

Goto(p, l) == pc' = [pc EXCEPT ![p] = l]
Finished(p) == Goto(p, "idle") /\ job' = [job EXCEPT ![p] = NoJob]

-----------------------------------------------------------------------------
(* The worker's tick, first half: reapOrphans and reapBg.                  *)

\* ListRunningOrphans.
ListOrphans(w) ==
    LET found == {a \in Actions : /\ status[a] = "running"
                                  /\ row[a].short = NoSession
                                  /\ ~ row[a].cloud
                                  /\ row[a].age >= 1}
    IN  /\ pc[w] = "idle"
        /\ sweep' = [sweep EXCEPT ![w] = [NoSweep EXCEPT !.orphans = found]]
        /\ Goto(w, IF found = {} THEN "list" ELSE "orphans")
        /\ UNCHANGED <<status, row, slot, session, job, acked, faults>>

\* BulkMarkFailed of the orphans.
FailOrphans(w) ==
    LET open == Open(sweep[w].orphans)
    IN  /\ pc[w] = "orphans"
        /\ SetStatus(open, "failed")
        /\ row' = ResetAge(open)
        /\ sweep' = [sweep EXCEPT ![w].orphans = {}]
        /\ Goto(w, "list")
        /\ UNCHANGED <<session, job, acked, faults>>

\* ListRunningWithDaemonShort.
ListShorts(w) ==
    LET found == {a \in Actions : /\ status[a] = "running"
                                  /\ row[a].short # NoSession
                                  /\ ~ row[a].cloud}
    IN  /\ pc[w] = "list"
        /\ sweep' = [sweep EXCEPT ![w].listed =
                        {[act |-> a, short |-> row[a].short, age |-> row[a].age,
                          hasSid |-> row[a].sid # NoSession] : a \in found}]
        /\ Goto(w, IF found = {} THEN "claim" ELSE "read")
        /\ UNCHANGED <<status, row, slot, session, job, acked, faults>>

\* (Mutants of SaysFailed: a lost job directory is taken for a transient error;
\* the hard timeout is the grace period, and is applied to every mode.)
SaysFailedIfRead(l) ==
    \/ session[l.short].state = "failed"
    \/ session[l.short].state = "working" /\ Mode[l.act] = "noninteractive" /\ l.age = 2
SaysFailedByClock(l) ==
    \/ session[l.short].state = "failed"
    \/ session[l.short].state \in {"gone", "working"} /\ l.age >= 1

\* The verdicts of reapBg's loop on one listed action.
SaysDone(l)   == session[l.short].state = "done"
SaysFailed(l) ==
    \/ session[l.short].state = "failed"
    \/ session[l.short].state = "gone" /\ l.age >= 1
    \/ session[l.short].state = "working" /\ Mode[l.act] = "noninteractive" /\ l.age = 2

\* The next of reapBg's three bulk writes that has anything to write.
NextWrite(s, after) ==
    IF after = "read" /\ s.sids # {} THEN "merge"
    ELSE IF after \in {"read", "merge"} /\ s.dones # {} THEN "dones"
    ELSE IF after \in {"read", "merge", "dones"} /\ s.lost # {} THEN "keep"
    ELSE IF after # "fails" /\ s.fails # {} THEN "fails"
    ELSE "claim"

\* reapBg's loop: state.json of every listed action.  A file that cannot be
\* read or decoded is skipped until the next tick; withText are the done
\* sessions whose output.result is not empty.
ReadStates(w, unreadable, withText) ==
    LET seen == {l \in sweep[w].listed : l.act \notin unreadable}
        read == [sweep[w] EXCEPT
                    !.listed = {},
                    !.sids   = {<<l.act, l.short>> : l \in
                                  {l \in seen : ~ l.hasSid /\ session[l.short].state # "gone"}},
                    !.dones  = {<<l.act, l.act \in withText>> : l \in {l \in seen : SaysDone(l)}},
                    !.fails  = {l.act : l \in {l \in seen : SaysFailed(l)}}]
    IN  /\ pc[w] = "read"
        /\ unreadable = {} \/ faults < MaxFaults
        /\ unreadable \subseteq {l.act : l \in sweep[w].listed}
        /\ withText \subseteq {l.act : l \in {l \in seen : SaysDone(l)}}
        /\ faults' = IF unreadable = {} THEN faults ELSE faults + 1
        /\ sweep' = [sweep EXCEPT ![w] = read]
        /\ Goto(w, NextWrite(read, "read"))
        /\ UNCHANGED <<status, row, slot, session, job, acked>>

\* BulkMergeActionMetadata of claude_session_id, whatever became of the rows.
MergeSids(w) ==
    /\ pc[w] = "merge"
    /\ row' = [a \in Actions |->
                 IF \E s \in Sessions : <<a, s>> \in sweep[w].sids
                 THEN [row[a] EXCEPT !.sid = CHOOSE s \in Sessions : <<a, s>> \in sweep[w].sids]
                 ELSE row[a]]
    /\ sweep' = [sweep EXCEPT ![w].sids = {}]
    /\ Goto(w, NextWrite(sweep[w], "merge"))
    /\ UNCHANGED <<status, slot, session, job, acked, faults>>

\* BulkMarkDone, its transaction.
MarkDones(w) ==
    LET attempted == {d[1] : d \in sweep[w].dones}
        late      == {d[1] : d \in {d \in sweep[w].dones : LosesResult(d[1], d[2])}}
        told      == {d[1] : d \in {d \in sweep[w].dones : d[2]}} \ late
    IN  /\ pc[w] = "dones"
        /\ SetStatus(Open(attempted), "done")
        /\ row' = ResetAge(Open(attempted))
        /\ acked' = acked \cup told
        /\ sweep' = [sweep EXCEPT ![w].dones = {}, ![w].lost = late]
        /\ Goto(w, NextWrite(sweep'[w], "dones"))
        /\ UNCHANGED <<session, job, faults>>

\* BulkMarkDone after its transaction: one MergeActionMetadata per late result.
KeepSweptResult(w, a) ==
    /\ pc[w] = "keep"
    /\ a \in sweep[w].lost
    /\ row' = [row EXCEPT ![a].kept = TRUE]
    /\ acked' = acked \cup {a}
    /\ sweep' = [sweep EXCEPT ![w].lost = @ \ {a}]
    /\ Goto(w, NextWrite(sweep'[w], "dones"))
    /\ UNCHANGED <<status, slot, session, job, faults>>

\* BulkMarkFailed of failed, missing and overdue sessions.
MarkFails(w) ==
    LET open == Open(sweep[w].fails)
    IN  /\ pc[w] = "fails"
        /\ SetStatus(open, "failed")
        /\ row' = ResetAge(open)
        /\ sweep' = [sweep EXCEPT ![w].fails = {}]
        /\ Goto(w, "claim")
        /\ UNCHANGED <<session, job, acked, faults>>

-----------------------------------------------------------------------------
(* The worker's tick, second half: dispatchOne.                            *)

\* NextPending; executeRemote has no admission check.
ClaimNext(w, a) ==
    /\ pc[w] = "claim"
    /\ sweep[w].tries < MaxAttempts
    /\ status[a] = "pending" /\ row[a].ripe
    /\ Claim(a)
    /\ sweep' = [sweep EXCEPT ![w].tries = @ + 1]
    /\ job' = [job EXCEPT ![w] = [NoJob EXCEPT !.act = a]]
    /\ Goto(w, IF Mode[a] = "remote" THEN "launch" ELSE "admit")
    /\ UNCHANGED <<session, acked, faults>>

\* Nothing to dispatch, or the attempts of this tick are used up: the worker
\* sleeps for PollInterval and starts its next tick.
EndTick(w) ==
    /\ pc[w] = "claim"
    /\ Goto(w, "idle")
    /\ UNCHANGED <<status, row, slot, session, job, sweep, acked, faults>>

\* (Mutant of Admit: the worker's own claim is not counted.)
AdmitOneMore(w) ==
    LET a == job[w].act IN
    /\ pc[w] = "admit"
    /\ IF Cardinality(Running(Mode[a])) > Limit(Mode[a]) + 1
       THEN Goto(w, "defer") /\ UNCHANGED slot
       ELSE /\ Goto(w, "launch")
            /\ slot' = IF status[a] = "running" THEN slot \cup {a} ELSE slot
    /\ UNCHANGED <<status, row, session, job, sweep, acked, faults>>

\* BeforeInteractive / BeforeNonInteractive: the count includes the claim.
Admit(w) ==
    LET a == job[w].act IN
    /\ pc[w] = "admit"
    /\ IF Cardinality(Running(Mode[a])) > Limit(Mode[a])
       THEN Goto(w, "defer") /\ UNCHANGED slot
       ELSE /\ Goto(w, "launch")
            /\ slot' = IF status[a] = "running" THEN slot \cup {a} ELSE slot
    /\ UNCHANGED <<status, row, session, job, sweep, acked, faults>>

\* DeferToPending, its read: only a running action may be deferred.
DeferRead(w) ==
    /\ pc[w] = "defer"
    /\ Goto(w, IF status[job[w].act] = "running" THEN "deferWrite" ELSE "reject")
    /\ UNCHANGED <<status, row, slot, session, job, sweep, acked, faults>>

\* DeferToPending, its UPDATE; dispatchOne then tries the next action.
DeferWrite(w) ==
    LET a == job[w].act IN
    /\ pc[w] = "deferWrite"
    /\ IF status[a] = "running"
       THEN /\ MovePending(a, FALSE)
            /\ Goto(w, "claim")
            /\ job' = [job EXCEPT ![w] = NoJob]
       ELSE /\ Goto(w, "reject")
            /\ UNCHANGED <<status, row, slot, job>>
    /\ UNCHANGED <<session, sweep, acked, faults>>

-----------------------------------------------------------------------------
(* The launch path of workers and `tq action dispatch`.                    *)

\* `claude --bg` or `claude --remote` starts a session and reports it.
Launch(p, s) ==
    /\ pc[p] = "launch"
    /\ session[s].state = "unused"
    /\ session' = [session EXCEPT ![s] = [for |-> job[p].act, state |-> "working"]]
    /\ job' = [job EXCEPT ![p].sess = s]
    /\ Goto(p, IF Mode[job[p].act] = "remote" THEN "mark" ELSE "record")
    /\ UNCHANGED <<status, row, slot, sweep, acked, faults>>

\* Bad metadata or claude_args (found before the admission check), or the
\* command fails or prints no short id.
LaunchFails(p) ==
    /\ pc[p] \in {"admit", "launch"}
    /\ Goto(p, "reject")
    /\ UNCHANGED <<status, row, slot, session, job, sweep, acked, faults>>

\* MergeActionMetadata of daemon_short, whatever became of the action.
RecordShort(p) ==
    /\ pc[p] = "record"
    /\ row' = [row EXCEPT ![job[p].act].short = job[p].sess]
    /\ Finished(p)
    /\ UNCHANGED <<status, slot, session, sweep, acked, faults>>

\* MarkDispatched: an action that is no longer running only gets a warning.
\* (The merge of metadata.remote_session just before changes nothing here.)
MarkDispatched(p) ==
    LET S == {job[p].act} \cap {a \in Actions : status[a] = "running"} IN
    /\ pc[p] = "mark"
    /\ SetStatus(S, "dispatched")
    /\ row' = ResetAge(S)
    /\ Finished(p)
    /\ UNCHANGED <<session, sweep, acked, faults>>

\* MarkFailed of an action that could not be launched or deferred.
Reject(p) ==
    /\ pc[p] = "reject"
    /\ MarkTerminal(job[p].act, "failed")
    /\ Finished(p)
    /\ UNCHANGED <<session, sweep, acked, faults>>

-----------------------------------------------------------------------------
(* CLI commands: a check of the status, then the store operation.          *)

\* The statuses each command goes on with.
Accepts(c) ==
    CASE c \in {"done", "fail"} -> {"pending", "running", "dispatched"}
      [] c = "cancel"           -> {"pending", "running", "dispatched", "failed"}
      [] c = "reset"            -> {"failed", "cancelled"}
      [] OTHER                  -> {}

FirstStep(c) == IF c = "reset" THEN "resetRead" ELSE c

\* GetAction and the refusals of done, fail, cancel and reset.
Check(o, c, a, text) ==
    /\ pc[o] = "idle"
    /\ c \in Commands[o] \ {"dispatch"}
    /\ status[a] \in Accepts(c)
    /\ text => c = "done"
    /\ job' = [job EXCEPT ![o] = [NoJob EXCEPT !.act = a, !.text = text]]
    /\ Goto(o, FirstStep(c))
    /\ UNCHANGED <<status, row, slot, session, sweep, acked, faults>>

\* MarkDone up to the end of its transaction.
Done(o) ==
    LET a == job[o].act IN
    /\ pc[o] = "done"
    /\ MarkTerminal(a, "done")
    /\ IF LosesResult(a, job[o].text)
       THEN Goto(o, "keep") /\ UNCHANGED <<job, acked>>
       ELSE Finished(o) /\ acked' = IF job[o].text THEN acked \cup {a} ELSE acked
    /\ UNCHANGED <<session, sweep, faults>>

\* preserveSuccessfulResultOnRaceLoss of that command.
KeepResult(o) ==
    LET a == job[o].act IN
    /\ o \in Operators
    /\ pc[o] = "keep"
    /\ row' = [row EXCEPT ![a].kept = TRUE]
    /\ acked' = acked \cup {a}
    /\ Finished(o)
    /\ UNCHANGED <<status, slot, session, sweep, faults>>

\* MarkFailed and MarkCancelled.
Fail(o) ==
    /\ pc[o] = "fail"
    /\ MarkTerminal(job[o].act, "failed")
    /\ Finished(o)
    /\ UNCHANGED <<session, sweep, acked, faults>>

Cancel(o) ==
    /\ pc[o] = "cancel"
    /\ MarkTerminal(job[o].act, "cancelled")
    /\ Finished(o)
    /\ UNCHANGED <<session, sweep, acked, faults>>

\* ResetToPending reads the status again and requires nothing of it ...
ResetRead(o) ==
    /\ pc[o] = "resetRead"
    /\ job' = [job EXCEPT ![o].from = status[job[o].act]]
    /\ Goto(o, "resetWrite")
    /\ UNCHANGED <<status, row, slot, session, sweep, acked, faults>>

\* ... and its UPDATE succeeds if the status is still the one it has read.
ResetWrite(o) ==
    /\ pc[o] = "resetWrite"
    /\ IF status[job[o].act] = job[o].from
       THEN MovePending(job[o].act, TRUE)
       ELSE UNCHANGED <<status, row, slot>>
    /\ Finished(o)
    /\ UNCHANGED <<session, sweep, acked, faults>>

\* (Mutant of ManualDispatch: ClaimPending claims whatever is not terminal.)
DispatchAgain(o, a) ==
    /\ pc[o] = "idle"
    /\ "dispatch" \in Commands[o]
    /\ status[a] \notin Terminal
    /\ Claim(a)
    /\ job' = [job EXCEPT ![o] = [NoJob EXCEPT !.act = a]]
    /\ Goto(o, "launch")
    /\ UNCHANGED <<session, sweep, acked, faults>>

\* DispatchByID: ClaimPending, then the launch path without admission check.
ManualDispatch(o, a) ==
    /\ pc[o] = "idle"
    /\ "dispatch" \in Commands[o]
    /\ status[a] = "pending"
    /\ Claim(a)
    /\ job' = [job EXCEPT ![o] = [NoJob EXCEPT !.act = a]]
    /\ Goto(o, "launch")
    /\ UNCHANGED <<session, sweep, acked, faults>>

-----------------------------------------------------------------------------
(* Sessions, time and faults.                                              *)

\* The daemon moves a session to a final state, or removes its job directory.
SessionEnds(s, st) ==
    /\ session[s].state \in {"working", "done", "failed"}
    /\ Mode[session[s].for] # "remote"
    /\ session[s].state # "working" => st = "gone"
    /\ session' = [session EXCEPT ![s].state = st]
    /\ UNCHANGED <<status, row, slot, pc, job, sweep, acked, faults>>

\* The SessionStart hook of a cloud session (runClaudeSessionRecord), which
\* skips an action it finds terminal.
CloudSessionRecords(s) ==
    LET a == session[s].for IN
    /\ session[s].state = "working"
    /\ Mode[a] = "remote"
    /\ status[a] \notin Terminal
    /\ row' = [row EXCEPT ![a].sid = s, ![a].cloud = TRUE]
    /\ UNCHANGED <<status, slot, session, pc, job, sweep, acked, faults>>

\* started_at of a running action crosses the next threshold.
Ages(a) ==
    /\ status[a] = "running"
    /\ row[a].age < IF Mode[a] = "noninteractive" THEN 2 ELSE 1
    /\ row' = [row EXCEPT ![a].age = @ + 1]
    /\ UNCHANGED <<status, slot, session, pc, job, sweep, acked, faults>>

\* dispatch_after passes.
Ripens(a) ==
    /\ ~ row[a].ripe
    /\ row' = [row EXCEPT ![a].ripe = TRUE]
    /\ UNCHANGED <<status, slot, session, pc, job, sweep, acked, faults>>

\* A process is killed and, if it is a worker, started again.
Crash(p) ==
    /\ pc[p] # "idle"
    /\ faults < MaxFaults
    /\ faults' = faults + 1
    /\ Finished(p)
    /\ sweep' = [w \in Workers |-> IF w = p THEN NoSweep ELSE sweep[w]]
    /\ UNCHANGED <<status, row, slot, session, acked>>

\* A store call still fails after its retries.  The worker logs the error and
\* goes on with its tick ...
TickError(w) ==
    LET at   == pc[w]
        left == CASE at = "orphans" -> [sweep[w] EXCEPT !.orphans = {}]
                  [] at = "merge"   -> [sweep[w] EXCEPT !.sids = {}]
                  [] at = "dones"   -> [sweep[w] EXCEPT !.dones = {}]
                  [] at = "keep"    -> [sweep[w] EXCEPT !.lost = {}]
                  [] at = "fails"   -> [sweep[w] EXCEPT !.fails = {}]
                  [] OTHER          -> sweep[w]
    IN  /\ at \in {"orphans", "list", "merge", "dones", "keep", "fails",
                   "admit", "defer", "deferWrite"}
        /\ faults < MaxFaults
        /\ faults' = faults + 1
        /\ sweep' = [sweep EXCEPT ![w] = left]
        /\ Goto(w, CASE at = "orphans"                 -> "list"
                     [] at = "list"                    -> "claim"
                     [] at = "admit"                   -> "defer"
                     [] at \in {"defer", "deferWrite"} -> "reject"
                     [] OTHER                          -> NextWrite(left, at))
        /\ UNCHANGED <<status, row, slot, session, job, acked>>

\* ... and with the last call of a launch or a command that is its end.
LastCallFails(p) ==
    /\ pc[p] \in {"record", "mark", "reject", "done", "fail", "cancel", "resetWrite"}
    /\ faults < MaxFaults
    /\ faults' = faults + 1
    /\ Finished(p)
    /\ UNCHANGED <<status, row, slot, session, sweep, acked>>

-----------------------------------------------------------------------------
Reap(w) ==
    \/ ListOrphans(w) \/ FailOrphans(w)
    \/ ListShorts(w)
    \/ \E unreadable, withText \in SUBSET Actions : ReadStates(w, unreadable, withText)
    \/ MergeSids(w) \/ MarkDones(w) \/ MarkFails(w)
    \/ \E a \in Actions : KeepSweptResult(w, a)

DispatchOne(w) ==
    \/ \E a \in Actions : ClaimNext(w, a)
    \/ EndTick(w)
    \/ Admit(w) \/ DeferRead(w) \/ DeferWrite(w)

Execute(p) ==
    \/ \E s \in Sessions : Launch(p, s)
    \/ LaunchFails(p)
    \/ RecordShort(p) \/ MarkDispatched(p) \/ Reject(p)

Operate(o) ==
    \/ \E c \in Command, a \in Actions, text \in BOOLEAN : Check(o, c, a, text)
    \/ Done(o) \/ KeepResult(o) \/ Fail(o) \/ Cancel(o)
    \/ ResetRead(o) \/ ResetWrite(o)
    \/ \E a \in Actions : ManualDispatch(o, a)

Environment ==
    \/ \E s \in Sessions, st \in Endings : SessionEnds(s, st)
    \/ \E s \in Sessions : CloudSessionRecords(s)
    \/ \E a \in Actions : Ages(a) \/ Ripens(a)

Next ==
    \/ \E w \in Workers : Reap(w) \/ DispatchOne(w) \/ TickError(w)
    \/ \E p \in Procs : Execute(p) \/ Crash(p) \/ LastCallFails(p)
    \/ \E o \in Operators : Operate(o)
    \/ Environment

Spec == Init /\ [][Next]_vars

\* A worker that runs keeps on with its loop, and time passes.
FairSpec ==
    /\ Spec
    /\ \A w \in Workers : WF_vars(Reap(w) \/ DispatchOne(w) \/ Execute(w))
    /\ \A a \in Actions : WF_vars(Ages(a))

-----------------------------------------------------------------------------
(* Properties.                                                             *)

\* Runs that passed an admission check never exceed the cap of their pool,
\* however many workers claim and count at the same time: each claims first
\* and counts its own claim (docs/dispatch.md, "Slot caps").
SlotCap ==
    \A m \in {"interactive", "noninteractive"} :
        Cardinality({a \in slot : Mode[a] = m}) <= Limit(m)

\* Whoever completed an action with a result, the CLI or the reaper, finds
\* it done or its result in metadata.successful_result for ever after: the
\* race of done with fail, cancel, the reapers and reset loses nothing.
SuccessKept == \A a \in acked : status[a] = "done" \/ row[a].kept

\* Whatever workers, commands, crashes and errors do, the status of an
\* action only moves as README.md and docs/dispatch.md allow it, and results
\* are kept (module ActionLifecycle).  That a failed action can be cancelled
\* is allowed as well, though the code never does it.
Promise == INSTANCE ActionLifecycle
               WITH kept <- {a \in Actions : row[a].kept}, told <- acked
Lifecycle == Promise!Spec

\* Two workers, `tq action dispatch`, deferrals, crashes and the orphan
\* reaper never start a second session for an action nobody reset.
LaunchedOnce ==
    \A s1, s2 \in Sessions :
        session[s1].for = session[s2].for /\ session[s1].for # NoAction => s1 = s2

\* An interactive action with a recorded session that is still at work is
\* left running by reapBg (docs/dispatch.md: non-terminal states leave the
\* action running), although what it acts on was read some steps before.
WorkingSessionKeepsAction ==
    [][\A w \in Workers, a \in Actions :
          /\ pc[w] \in {"dones", "fails"} /\ pc'[w] # pc[w]
          /\ status[a] = "running" /\ Mode[a] = "interactive"
          /\ row[a].short # NoSession
          /\ session[row[a].short].state = "working"
          => status'[a] = "running"]_vars

\* What the reaper must not leave as it is: a local run with no session at
\* work, and any noninteractive run.
Stale(a) ==
    /\ status[a] = "running"
    /\ \/ Mode[a] = "noninteractive"
       \/ /\ Mode[a] = "interactive"
          /\ \A s \in Sessions : ~ (session[s].for = a /\ session[s].state = "working")

\* A crashed launch, a lost, failed or finished session, an overdue batch
\* run: the worker's ticks always end such a run (or find it in a new one).
EventuallyReaped == \A a \in Actions : Stale(a) ~> ~ Stale(a)

\* `tq action reset` is refused on running and dispatched actions: the row
\* it moves back to pending is never one at work (README.md, cmd/reset.go).
ResetNeverUndoesARun ==
    [][\A o \in Operators :
          pc[o] = "resetWrite" /\ status[job[o].act] \in {"running", "dispatched"}
              /\ pc'[o] # pc[o]
          => status'[job[o].act] # "pending"]_vars
=============================================================================
