---------------------------- MODULE WakeupQueue ----------------------------
(***************************************************************************)
(* The queue of wakeups and the runs they start: who creates a wakeup      *)
(* (services/wakeup.ts), who claims and dispatches it                      *)
(* (services/job-manager.ts), what the run does with it when it ends       *)
(* (services/agent-runner.ts), and the passes that clean up after runs     *)
(* nobody drives (services/orphan-detector.ts).                            *)
(*                                                                         *)
(* A wakeup is owed to an agent about a task; an ask is the event that     *)
(* created it.  A run reads the whole task when it starts, so it serves    *)
(* every ask for its agent and task made until then, whichever wakeup      *)
(* carried it.  `fate' records what became of each ask; nothing reads it   *)
(* but the properties.                                                     *)
(*                                                                         *)
(* All tasks are in one project, so an agent's launch key is its member    *)
(* id.  Each statement is an action; statements of one function between    *)
(* which no other writer makes a difference are one action (see README).   *)
(***************************************************************************)
EXTENDS Naturals, FiniteSets

CONSTANTS
    Members,     \* agents
    Tasks,
    Assignee,    \* the agent each task is assigned to
    Asks,        \* what may be asked of an agent, each at most once
    For,         \* the agent, the task and the source of each ask
    Rows,        \* identities of agent_wakeup_requests rows
    Runs,        \* identities of heartbeat_runs rows
    MaxRetries,  \* MAX_RETRIES, the ceiling on lost runs of one lineage
    Env,         \* which parts of the environment a run includes
    MaxMishaps,  \* bounds crashes, hand-backs, faults and new blockers
    None

Sources == {"assignment", "timer", "mention"}

(* Sources a person or a peer speaks through (DISPATCH_SUPPRESSION_EXEMPT_SOURCES). *)
Exempt == {"mention"}

(* Sources that wait for the task's blockers (GATED_WAKEUP_SOURCES).       *)
Gated == {"assignment", "timer"}

ASSUME QueueAssumption ==
    /\ Assignee \in [Tasks -> Members]
    /\ For \in [Asks -> [member : Members, task : Tasks, source : Sources]]
    /\ Rows \subseteq Nat /\ Runs \subseteq Nat
    /\ MaxRetries \in Nat \ {0}
    /\ MaxMishaps \in Nat
    /\ None \notin Members \cup Tasks \cup Rows \cup Runs

Open == {"queued", "claimed", "deferred"}
TerminalWakeup == {"completed", "failed", "skipped", "coalesced", "cancelled"}
Unfinished == {"queued", "running"}
TerminalRun == {"succeeded", "failed", "cancelled"}
Dispatchers == {"cron", "press"}

VARIABLES
    wake,     \* agent_wakeup_requests
    run,      \* heartbeat_runs, and the process that drives each
    locks,    \* execution_locks: agent and task
    blocked,  \* tasks with open blockers
    repo,     \* the project has a designated repository
    disp,     \* processWakeups and one dispatchWakeupNow
    target,   \* the row createWakeup found to coalesce onto, per ask
    slot,     \* runningTasks: the run that holds each agent's launch key
    active,   \* activeTaskRuns
    live,     \* liveRuns
    sweep,    \* the orphan-detection cron
    fate,     \* history: what became of each ask
    mishaps

vars == <<wake, run, locks, blocked, repo, disp, target, slot, active, live, sweep, fate, mishaps>>

NoRow == [status |-> "none", member |-> None, task |-> None, source |-> "timer",
          why |-> "", strikes |-> 0, asks |-> {}]
NoRun == [status |-> "none", wakeup |-> None, member |-> None, task |-> None, strikes |-> 0,
          seen |-> {}, covers |-> {}, pc |-> "none", verdict |-> "", aborted |-> FALSE,
          reaped |-> FALSE]
Idle == [pc |-> "idle", row |-> None, strikes |-> 0, source |-> "timer", verdict |-> "", batch |-> {}]
NoSweep == [pc |-> "idle", run |-> None, row |-> None, verdict |-> ""]

WakeRows ==
    [status : Open \cup TerminalWakeup \cup {"none"}, member : Members \cup {None},
     task : Tasks \cup {None}, source : Sources, why : {"", "blocked", "repo"},
     strikes : Nat, asks : SUBSET Asks]
RunRows ==
    [status : Unfinished \cup TerminalRun \cup {"none"}, wakeup : Rows \cup {None},
     member : Members \cup {None}, task : Tasks \cup {None},
     strikes : Nat, seen : SUBSET Asks, covers : SUBSET Rows,
     pc : {"none", "launched", "parked", "working", "finalized", "settled"},
     verdict : {"", "success", "fail", "lost", "handback"},
     aborted : BOOLEAN, reaped : BOOLEAN]
Scans == [row : Rows, strikes : Nat, source : Sources]   \* a row as a dispatch read it
Dispatches ==
    [pc : {"idle", "gate", "write", "activate", "launch"}, row : Rows \cup {None},
     strikes : Nat, source : Sources, verdict : {"", "coalesce", "defer", "claim"},
     batch : SUBSET Scans]
Sweeps ==
    [pc : {"idle", "handback", "retry", "heal"}, run : Runs \cup {None},
     row : Rows \cup {None}, verdict : {"", "completed", "failed", "queued"}]

TypeOK ==
    /\ wake \in [Rows -> WakeRows]
    /\ run \in [Runs -> RunRows]
    /\ locks \subseteq Members \X Tasks
    /\ blocked \subseteq Tasks
    /\ repo \in BOOLEAN
    /\ disp \in [Dispatchers -> Dispatches]
    /\ target \in [Asks -> Rows \cup {None}]
    /\ slot \in [Members -> Runs \cup {None}]
    /\ active \subseteq Tasks
    /\ live \subseteq Runs
    /\ sweep \in Sweeps
    /\ fate \in [Asks -> {"unborn", "posting", "owed", "closed", "withdrawn"}]
    /\ mishaps \in 0..MaxMishaps

Init ==
    /\ wake = [w \in Rows |-> NoRow]
    /\ run = [r \in Runs |-> NoRun]
    /\ locks = {}
    /\ blocked \in IF "blockers" \in Env THEN SUBSET Tasks ELSE {{}}
    /\ repo = ("repo" \notin Env)
    /\ disp = [d \in Dispatchers |-> Idle]
    /\ target = [a \in Asks |-> None]
    /\ slot = [m \in Members |-> None]
    /\ active = {}
    /\ live = {}
    /\ sweep = NoSweep
    /\ fate = [a \in Asks |-> "unborn"]
    /\ mishaps = 0

Mishap(kind) ==
    /\ kind \in Env
    /\ mishaps < MaxMishaps
    /\ mishaps' = mishaps + 1

-----------------------------------------------------------------------------
(* Reading and writing the two tables.                                     *)

About(w, m, t) == wake[w].member = m /\ wake[w].task = t
Put(w, s) == [wake EXCEPT ![w].status = s]

Queued(m, t) == {w \in Rows : wake[w].status = "queued" /\ About(w, m, t)}
Unused == {w \in Rows : wake[w].status = "none"}

(* Identities are interchangeable: a new row takes the first free one.     *)
First(S) == {x \in S : \A y \in S : x <= y}

ActiveRun(r) == run[r].status \in Unfinished
RunsOn(m, t) == {r \in Runs : ActiveRun(r) /\ run[r].member = m /\ run[r].task = t}

Owed(m, t) == {a \in Asks : fate[a] = "owed" /\ For[a].member = m /\ For[a].task = t}

(* The asks of A that are still owed come to the end e.                    *)
Ends(A, e) == [a \in Asks |-> IF a \in A /\ fate[a] = "owed" THEN e ELSE fate[a]]

(* A trigger about m and t from source s, standing for the asks A, and,    *)
(* when it retries a lost run, with the strikes that run had (the payload  *)
(* names the run, and createHeartbeatRun reads its count).  Coalesced, the *)
(* row keeps its place and its lineage unless the trigger brings one, and  *)
(* its source unless the trigger is exempt and the row is not.             *)
Trigger(row, m, t, s, k, A) ==
    IF row.status = "queued"
    THEN [row EXCEPT !.source = IF s \in Exempt /\ @ \notin Exempt THEN s ELSE @,
                     !.strikes = IF k > 0 THEN k ELSE @,
                     !.asks = @ \cup A]
    ELSE [NoRow EXCEPT !.status = "queued", !.member = m, !.task = t, !.source = s,
                       !.strikes = k, !.asks = A]

(* createWakeup by a process of the server, its statements in one step.    *)
CreateTargets(m, t) == IF Queued(m, t) # {} THEN Queued(m, t) ELSE First(Unused)
Create(m, t, s, k, A) ==
    \E w \in CreateTargets(m, t) :
        wake' = [wake EXCEPT ![w] = Trigger(@, m, t, s, k, A)]

(* Identities of rows nothing refers to any more are used again.  This is  *)
(* no step of the program; it commutes with all of them, so it goes first. *)
Spent(r) ==
    /\ run[r] # NoRun /\ run[r].pc = "none" /\ ~ActiveRun(r)
    /\ wake[run[r].wakeup].status # "claimed" /\ sweep.run # r /\ sweep.row # run[r].wakeup
    /\ run[r].status = "succeeded" => \A w \in run[r].covers : wake[w].status \notin Open

Gone(w) ==
    /\ wake[w].status \in TerminalWakeup
    /\ \A r \in Runs : run[r].wakeup # w
    /\ \A d \in Dispatchers : disp[d].row # w /\ \A b \in disp[d].batch : b.row # w
    /\ \A a \in Asks : target[a] # w
    /\ sweep.row # w

Tidy == ~(\E r \in Runs : Spent(r)) /\ ~(\E w \in Rows : Gone(w))

-----------------------------------------------------------------------------
(* createWakeup by a request: a comment, an assignment, a mention.  The    *)
(* look-up and the write are two statements, and another request or the    *)
(* dispatcher may come between them.                                       *)

PostSelect(a) ==
    /\ fate[a] = "unborn"
    /\ Tidy
    /\ fate' = [fate EXCEPT ![a] = "posting"]
    /\ LET found == Queued(For[a].member, For[a].task) IN
       \E w \in IF found # {} THEN found ELSE {None} : target' = [target EXCEPT ![a] = w]
    /\ UNCHANGED <<wake, run, locks, blocked, repo, disp, slot, active, live, sweep, mishaps>>

(* Mutant: the merge does not ask whether the row is still queued.         *)
MergesBlindly(a) == target[a] # None

(* The update asks again that the row is queued; if not, a row is inserted. *)
Merges(a) == target[a] # None /\ wake[target[a]].status = "queued"

PostWrite(a) ==
    /\ fate[a] = "posting"
    /\ Tidy
    /\ \E w \in IF Merges(a) THEN {target[a]} ELSE First(Unused) :
           wake' = [wake EXCEPT ![w] = Trigger(@, For[a].member, For[a].task, For[a].source, 0, {a})]
    /\ fate' = [fate EXCEPT ![a] = "owed"]
    /\ target' = [target EXCEPT ![a] = None]
    /\ UNCHANGED <<run, locks, blocked, repo, disp, slot, active, live, sweep, mishaps>>

(* A person withdraws a queued wakeup.                                     *)
CancelWakeup(w) ==
    /\ "cancel" \in Env
    /\ Tidy
    /\ wake[w].status = "queued"
    /\ wake' = Put(w, "cancelled")
    /\ fate' = Ends(wake[w].asks, "withdrawn")
    /\ UNCHANGED <<run, locks, blocked, repo, disp, target, slot, active, live, sweep, mishaps>>

-----------------------------------------------------------------------------
(* The task's blockers and the project's repository.                       *)

Block(t) ==
    /\ t \notin blocked
    /\ Tidy
    /\ Mishap("blockers")
    /\ blocked' = blocked \cup {t}
    /\ UNCHANGED <<wake, run, locks, repo, disp, target, slot, active, live, sweep, fate>>

(* created_at of the rows in W becomes now: no run so far started after them. *)
Restamped(W) == [r \in Runs |-> [run[r] EXCEPT !.covers = @ \ W]]

(* The last blocker closes; wakeIfReady releases the assignee's parked     *)
(* wakeups, or wakes it unless it is at work on the task.                  *)
Unblock(t) ==
    LET m == Assignee[t]
        parked == {w \in Rows : About(w, m, t) /\ wake[w].status = "deferred" /\ wake[w].why = "blocked"}
    IN
    /\ t \in blocked
    /\ Tidy
    /\ blocked' = blocked \ {t}
    /\ \/ /\ parked # {}
          /\ wake' = [w \in Rows |-> IF w \in parked THEN [wake[w] EXCEPT !.status = "queued"] ELSE wake[w]]
          /\ run' = Restamped(parked)
       \/ /\ parked = {} /\ RunsOn(m, t) = {}
          /\ Create(m, t, "assignment", 0, {})
          /\ UNCHANGED run
       \/ /\ parked = {} /\ RunsOn(m, t) # {}
          /\ UNCHANGED <<wake, run>>
    /\ UNCHANGED <<locks, repo, disp, target, slot, active, live, sweep, fate, mishaps>>

DesignateRepo ==
    /\ ~repo
    /\ Tidy
    /\ repo' = TRUE
    /\ UNCHANGED <<wake, run, locks, blocked, disp, target, slot, active, live, sweep, fate, mishaps>>

-----------------------------------------------------------------------------
(* Dispatch.                                                               *)

(* Mutant: the guards in memory only.                                      *)
BusyInMemory(w) == wake[w].task \in active \/ slot[wake[w].member] # None

(* isTaskBusy and isAgentBusyInProject: the guards in memory, then the rows. *)
TaskBusy(t) == t \in active \/ \E r \in Runs : ActiveRun(r) /\ run[r].task = t
AgentBusy(m) == slot[m] # None \/ \E r \in Runs : ActiveRun(r) /\ run[r].member = m
Busy(w) == TaskBusy(wake[w].task) \/ AgentBusy(wake[w].member)

(* A dispatch goes by the source s it read with the row, though a trigger  *)
(* that is merged into the row meanwhile may raise it.                     *)

(* assignmentWakeupAlreadyServed: a run that succeeded started after the   *)
(* row was created.                                                        *)
AlreadyServed(w, s) ==
    /\ s = "assignment"
    /\ \E r \in Runs : run[r].status = "succeeded" /\ w \in run[r].covers

(* shouldDeferWakeupForBlockers.                                           *)
ShouldDefer(w, s) == s \in Gated /\ wake[w].task \in blocked

Onward(d, batch) ==
    disp' = [disp EXCEPT ![d] = IF batch = {} THEN Idle ELSE [Idle EXCEPT !.pc = "gate", !.batch = batch]]

(* processWakeups: releaseSatisfiedDeferrals, then one look at the queue.  *)
CronScan ==
    LET released == {w \in Rows : repo /\ wake[w].status = "deferred" /\ wake[w].why = "repo"}
        now == [w \in Rows |-> IF w \in released THEN [wake[w] EXCEPT !.status = "queued"] ELSE wake[w]]
        batch == {[row |-> w, strikes |-> now[w].strikes, source |-> now[w].source] :
                     w \in {v \in Rows : now[v].status = "queued"}}
    IN
    /\ disp["cron"].pc = "idle"
    /\ Tidy
    /\ batch # {}
    /\ wake' = now
    /\ run' = Restamped(released)
    /\ Onward("cron", batch)
    /\ UNCHANGED <<locks, blocked, repo, target, slot, active, live, sweep, fate, mishaps>>

(* The task or the agent is busy, or the fleet is full: the row is left as *)
(* it is, with the reason on it.                                           *)
CronSkips(b) ==
    /\ disp["cron"].pc = "gate" /\ b \in disp["cron"].batch
    /\ Tidy
    /\ Busy(b.row) \/ "capacity" \in Env
    /\ Onward("cron", disp["cron"].batch \ {b})
    /\ UNCHANGED <<wake, run, locks, blocked, repo, target, slot, active, live, sweep, fate, mishaps>>

CronReads(b) ==
    /\ disp["cron"].pc = "gate" /\ b \in disp["cron"].batch
    /\ Tidy
    /\ ~Busy(b.row)
    /\ disp' = [disp EXCEPT !["cron"] =
                    [pc |-> "write", row |-> b.row, strikes |-> b.strikes, source |-> b.source,
                     verdict |-> IF AlreadyServed(b.row, b.source) THEN "coalesce"
                                 ELSE IF ShouldDefer(b.row, b.source) THEN "defer" ELSE "claim",
                     batch |-> @.batch \ {b}]]
    /\ UNCHANGED <<wake, run, locks, blocked, repo, target, slot, active, live, sweep, fate, mishaps>>

(* None of the three updates asks whether the row is still queued.         *)
CronWrites ==
    LET w == disp["cron"].row
        v == disp["cron"].verdict
    IN
    /\ disp["cron"].pc = "write"
    /\ Tidy
    /\ \/ /\ v = "coalesce"
          /\ wake' = Put(w, "coalesced")
          /\ Onward("cron", disp["cron"].batch)
       \/ /\ v = "defer"
          /\ wake' = [wake EXCEPT ![w].status = "deferred", ![w].why = "blocked"]
          /\ Onward("cron", disp["cron"].batch)
       \/ /\ v = "claim"
          /\ wake' = Put(w, "claimed")
          /\ disp' = [disp EXCEPT !["cron"].pc = "activate"]
    /\ UNCHANGED <<run, locks, blocked, repo, target, slot, active, live, sweep, fate, mishaps>>

(* dispatchWakeupNow: a person presses Run now on a queued wakeup.         *)
PressReads(w) ==
    /\ disp["press"].pc = "idle"
    /\ Tidy
    /\ Mishap("press")
    /\ wake[w].status = "queued" /\ ~Busy(w)
    /\ disp' = [disp EXCEPT !["press"] =
                    [pc |-> "write", row |-> w, strikes |-> wake[w].strikes, source |-> wake[w].source,
                     verdict |-> IF ShouldDefer(w, wake[w].source) THEN "defer" ELSE "claim",
                     batch |-> {}]]
    /\ UNCHANGED <<wake, run, locks, blocked, repo, target, slot, active, live, sweep, fate>>

(* Here the claim does ask; the deferral does not.                         *)
PressWrites ==
    LET w == disp["press"].row
        v == disp["press"].verdict
    IN
    /\ disp["press"].pc = "write"
    /\ Tidy
    /\ \/ /\ v = "defer"
          /\ wake' = [wake EXCEPT ![w].status = "deferred", ![w].why = "blocked"]
          /\ Onward("press", {})
       \/ /\ v = "claim" /\ wake[w].status = "queued"
          /\ wake' = Put(w, "claimed")
          /\ disp' = [disp EXCEPT !["press"].pc = "activate"]
       \/ /\ v = "claim" /\ wake[w].status # "queued"
          /\ Onward("press", {})
          /\ UNCHANGED wake
    /\ UNCHANGED <<run, locks, blocked, repo, target, slot, active, live, sweep, fate, mishaps>>

(* activateAgent turns the wakeup away for good: the agent is disabled, a  *)
(* hold suppresses it, or a statement throws.                              *)
Refuses(d) ==
    LET w == disp[d].row IN
    /\ disp[d].pc = "activate"
    /\ Tidy
    /\ \/ "disable" \in Env /\ wake' = Put(w, "skipped") /\ UNCHANGED mishaps
       \/ "hold" \in Env /\ disp[d].source \notin Exempt /\ wake' = Put(w, "completed") /\ UNCHANGED mishaps
       \/ Mishap("dbfault") /\ wake' = Put(w, "failed")
    /\ fate' = Ends(wake[w].asks, "closed")
    /\ Onward(d, disp[d].batch)
    /\ UNCHANGED <<run, locks, blocked, repo, target, slot, active, live, sweep>>

(* activateAgent turns it away for now.  requeueWakeup does not ask what   *)
(* has become of the row; over budget, the row is left claimed.            *)
PutsOff(d) ==
    LET w == disp[d].row IN
    /\ disp[d].pc = "activate"
    /\ Tidy
    /\ \/ (Busy(w) \/ "capacity" \in Env) /\ wake' = Put(w, "queued")
       \/ ~Busy(w) /\ "budget" \in Env /\ UNCHANGED wake
       \/ /\ ~Busy(w) /\ ~repo /\ disp[d].source \notin Exempt
          /\ wake' = [wake EXCEPT ![w].status = "deferred", ![w].why = "repo"]
    /\ Onward(d, disp[d].batch)
    /\ UNCHANGED <<run, locks, blocked, repo, target, slot, active, live, sweep, fate, mishaps>>

Proceeds(d) ==
    LET w == disp[d].row IN
    /\ disp[d].pc = "activate"
    /\ Tidy
    /\ ~Busy(w) /\ (repo \/ disp[d].source \in Exempt)
    /\ disp' = [disp EXCEPT ![d].pc = "launch"]
    /\ UNCHANGED <<wake, run, locks, blocked, repo, target, slot, active, live, sweep, fate, mishaps>>

(* Mutant: a launch takes over a key that is still held.                   *)
KeyTakenOver(m) == TRUE

(* launchTask takes a key that is free.                                    *)
KeyFree(m) == slot[m] = None

(* Mutant: every run starts without strikes.                               *)
NoLineage(d) == 0

(* A run inherits the strikes of the lost run its wakeup retries           *)
(* (createHeartbeatRun, process_loss_retry_count).                         *)
Lineage(d) == disp[d].strikes

(* The end of activateAgent: the execution lock, the guards in memory,     *)
(* launchTask, and absorbQueuedTaskWakeups.  The awaits between the busy   *)
(* checks and here are what lets two dispatches of one task pass.          *)
Launch(d) ==
    LET w == disp[d].row
        m == wake[w].member
        t == wake[w].task
    IN
    /\ disp[d].pc = "launch"
    /\ Tidy
    /\ \/ /\ <<m, t>> \in locks
          /\ wake' = Put(w, "deferred")
          /\ UNCHANGED <<run, locks, slot, active>>
       \/ /\ <<m, t>> \notin locks /\ ~KeyFree(m)
          /\ wake' = Put(w, "queued")
          /\ active' = active \ {t}
          /\ UNCHANGED <<run, locks, slot>>
       \/ /\ <<m, t>> \notin locks /\ KeyFree(m)
          /\ \E r \in First({q \in Runs : run[q] = NoRun}) :
                /\ run' = [run EXCEPT ![r] = [NoRun EXCEPT !.wakeup = w, !.member = m, !.task = t,
                                              !.strikes = Lineage(d),
                                              !.seen = Owed(m, t), !.pc = "launched"]]
                /\ slot' = [slot EXCEPT ![m] = r]
          /\ locks' = locks \cup {<<m, t>>}
          /\ active' = active \cup {t}
          /\ wake' = [v \in Rows |-> IF v \in Queued(m, t) \ {w}
                                     THEN [wake[v] EXCEPT !.status = "coalesced"] ELSE wake[v]]
    /\ Onward(d, disp[d].batch)
    /\ UNCHANGED <<blocked, repo, target, live, sweep, fate, mishaps>>

-----------------------------------------------------------------------------
(* A run, from its row to the release of its launch key.                   *)

CreateRun(r) ==
    /\ run[r].pc = "launched"
    /\ Tidy
    /\ run' = [run EXCEPT ![r].status = "queued", ![r].pc = "parked"]
    /\ live' = live \cup {r}
    /\ UNCHANGED <<wake, locks, blocked, repo, disp, target, slot, active, sweep, fate, mishaps>>

(* markHeartbeatRunRunning: a row that was ended while the run waited for  *)
(* a credential or a container is not started.                             *)
Start(r) ==
    LET m == run[r].member
        t == run[r].task
    IN
    /\ run[r].pc = "parked" /\ ~run[r].aborted
    /\ Tidy
    /\ \/ /\ run[r].status = "queued"
          /\ run' = [run EXCEPT ![r].status = "running", ![r].pc = "working", ![r].seen = @ \cup Owed(m, t),
                                ![r].covers = {w \in Rows : /\ About(w, m, t)
                                                            /\ wake[w].status \in Open
                                                            /\ wake[w].source = "assignment"}]
       \/ /\ run[r].status # "queued"
          /\ run' = [run EXCEPT ![r].pc = "finalized", ![r].verdict = "fail"]
    /\ UNCHANGED <<wake, locks, blocked, repo, disp, target, slot, active, live, sweep, fate, mishaps>>

(* Mutant: the run writes its outcome over any other.                      *)
FinalizedAnyway(r, s, v) ==
    [run EXCEPT ![r].status = s, ![r].pc = "finalized", ![r].verdict = v]

(* updateHeartbeatRun: the first to declare an outcome owns it.            *)
Finalized(r, s, v) ==
    [run EXCEPT ![r].status = IF @ \in Unfinished THEN s ELSE @, ![r].pc = "finalized", ![r].verdict = v]

Succeed(r) ==
    /\ run[r].pc = "working"
    /\ Tidy
    /\ run' = Finalized(r, "succeeded", "success")
    /\ UNCHANGED <<wake, locks, blocked, repo, disp, target, slot, active, live, sweep, fate, mishaps>>

Fail(r) ==
    /\ run[r].pc \in {"parked", "working"} /\ ~run[r].aborted
    /\ Tidy
    /\ run' = Finalized(r, "failed", "fail")
    /\ UNCHANGED <<wake, locks, blocked, repo, disp, target, slot, active, live, sweep, fate, mishaps>>

(* finalizeAbort, once the run notices that it was terminated.             *)
Abort(r) ==
    /\ run[r].pc \in {"parked", "working"} /\ run[r].aborted
    /\ Tidy
    /\ run' = Finalized(r, "cancelled", "fail")
    /\ UNCHANGED <<wake, locks, blocked, repo, disp, target, slot, active, live, sweep, fate, mishaps>>

(* finalizeRequeue: no capacity, a provider's refusal, the server shutting down. *)
HandBack(r) ==
    /\ run[r].pc \in {"parked", "working"} /\ ~run[r].aborted
    /\ Tidy
    /\ Mishap("handback")
    /\ run' = Finalized(r, "cancelled", "handback")
    /\ UNCHANGED <<wake, locks, blocked, repo, disp, target, slot, active, live, sweep, fate>>

(* retryOrEscalateLostRun, by the strikes the run had before it was lost.  *)
RetryOrEscalate(r, prior) ==
    IF prior + 1 < MaxRetries
    THEN /\ Create(run[r].member, run[r].task, "timer", prior + 1, run[r].seen)
         /\ UNCHANGED fate
    ELSE /\ fate' = Ends(run[r].seen, "closed")
         /\ UNCHANGED wake

(* The transport or the container is lost: updateHeartbeatRun, then        *)
(* spendLostRunStrike, whoever's verdict the row has.                      *)
Lose(r) ==
    /\ "loss" \in Env
    /\ Tidy
    /\ run[r].pc \in {"parked", "working"} /\ ~run[r].aborted
    /\ RetryOrEscalate(r, run[r].strikes)
    /\ run' = [Finalized(r, "failed", "lost") EXCEPT ![r].strikes = @ + 1]
    /\ UNCHANGED <<locks, blocked, repo, disp, target, slot, active, live, sweep, mishaps>>

(* The run throws, and so does what should record that: before its row is  *)
(* there, or with its row left as it was.                                  *)
Throw(r) ==
    /\ Mishap("dbfault")
    /\ Tidy
    /\ run[r].pc \in {"launched", "parked", "working"}
    /\ run' = [run EXCEPT ![r].pc = "finalized",
                          ![r].verdict = IF run[r].pc = "launched" THEN "fail" ELSE "lost"]
    /\ UNCHANGED <<wake, locks, blocked, repo, disp, target, slot, active, live, sweep, fate>>

(* Mutant: the run's status is written as the wakeup's.                    *)
RunOutcome(v) == IF v = "success" THEN "succeeded" ELSE "failed"

Outcome(v) == IF v = "success" THEN "completed" ELSE "failed"

(* onAgentComplete: the lock, then settleWakeupForRun.  A hand-back of a   *)
(* row that somebody settled is announced as abandoned.                    *)
Settle(r) ==
    LET w == run[r].wakeup
        v == run[r].verdict
        claimed == wake[w].status = "claimed"
        decided == wake[w].status \in TerminalWakeup
    IN
    /\ run[r].pc = "finalized"
    /\ Tidy
    /\ wake' = IF v = "handback"
               THEN IF claimed THEN Put(w, "queued") ELSE wake
               ELSE IF decided THEN wake ELSE Put(w, Outcome(v))
    /\ fate' = IF v = "lost" \/ (v = "handback" /\ claimed) THEN fate ELSE Ends(run[r].seen, "closed")
    /\ locks' = locks \ {<<run[r].member, run[r].task>>}
    /\ live' = live \ {r}
    /\ run' = [run EXCEPT ![r].pc = "settled"]
    /\ UNCHANGED <<blocked, repo, disp, target, slot, active, sweep, mishaps>>

(* Mutant: a launch the sweep has given up frees the task all the same.    *)
GuardFreedAnyway(r) == TRUE

(* The task's guard is still this launch's to free.                        *)
GuardIsItsOwn(r) == ~run[r].reaped

(* launchTask's settle handler: only what still belongs to this launch.    *)
Release(r) ==
    LET m == run[r].member IN
    /\ run[r].pc = "settled"
    /\ Tidy
    /\ slot' = IF slot[m] = r THEN [slot EXCEPT ![m] = None] ELSE slot
    /\ active' = IF GuardIsItsOwn(r) THEN active \ {run[r].task} ELSE active
    /\ run' = [run EXCEPT ![r].pc = "none"]
    /\ UNCHANGED <<wake, locks, blocked, repo, disp, target, live, sweep, fate, mishaps>>

(* terminateHeartbeatRun: a live run is only told to stop, and writes its  *)
(* own row when it has.                                                    *)
Terminate(r) ==
    LET w == run[r].wakeup IN
    /\ ActiveRun(r)
    /\ Tidy
    /\ Mishap("terminate")
    /\ run' = IF r \in live THEN [run EXCEPT ![r].aborted = TRUE]
                            ELSE [run EXCEPT ![r].status = "cancelled"]
    /\ live' = live \ {r}
    /\ wake' = IF wake[w].status \in TerminalWakeup THEN wake ELSE Put(w, "cancelled")
    /\ fate' = Ends(run[r].seen, "withdrawn")
    /\ UNCHANGED <<locks, blocked, repo, disp, target, slot, active, sweep>>

-----------------------------------------------------------------------------
(* The orphan-detection cron: detectOrphans, sweepStaleDispatches,         *)
(* healStaleRunState.  Its windows (30 s, 120 s) are longer than a         *)
(* dispatch or a launch takes, and shorter than a run.                     *)

(* Mutant: only runs that started are looked at.                           *)
OrphanedAtWork(r) == run[r].status = "running" /\ r \notin live

Orphaned(r) == ActiveRun(r) /\ r \notin live

(* A row without a driver is ended first; what it was for is settled next. *)
Reap(r) ==
    LET neverStarted == run[r].status = "queued" IN
    /\ sweep.pc = "idle"
    /\ Tidy
    /\ Orphaned(r)
    /\ run' = [run EXCEPT ![r].status = IF neverStarted THEN "cancelled" ELSE "failed",
                          ![r].strikes = IF neverStarted THEN @ ELSE @ + 1]
    /\ locks' = {l \in locks : l[1] # run[r].member}
    /\ sweep' = [NoSweep EXCEPT !.pc = IF neverStarted THEN "handback" ELSE "retry", !.run = r]
    /\ UNCHANGED <<wake, blocked, repo, disp, target, slot, active, live, fate, mishaps>>

(* handBackNeverStartedWork: the wakeup itself, else a replacement that    *)
(* costs a strike, else an approval.                                       *)
HandBackNeverStarted ==
    LET r == sweep.run
        w == run[r].wakeup
        k == run[r].strikes + 1
    IN
    /\ sweep.pc = "handback"
    /\ Tidy
    /\ \/ /\ wake[w].status = "claimed"
          /\ wake' = Put(w, "queued")
          /\ UNCHANGED <<run, fate>>
       \/ /\ wake[w].status # "claimed" /\ k >= MaxRetries
          /\ fate' = Ends(run[r].seen, "closed")
          /\ UNCHANGED <<wake, run>>
       \/ /\ wake[w].status # "claimed" /\ k < MaxRetries
          /\ run' = [run EXCEPT ![r].strikes = k]
          /\ Create(run[r].member, run[r].task, wake[w].source, k, run[r].seen)
          /\ UNCHANGED fate
    /\ sweep' = NoSweep
    /\ UNCHANGED <<locks, blocked, repo, disp, target, slot, active, live, mishaps>>

RetryOrphan ==
    /\ sweep.pc = "retry"
    /\ Tidy
    /\ RetryOrEscalate(sweep.run, run[sweep.run].strikes - 1)
    /\ sweep' = NoSweep
    /\ UNCHANGED <<run, locks, blocked, repo, disp, target, slot, active, live, mishaps>>

(* sweepStaleDispatches: a run whose row has long been terminal and whose  *)
(* completion is stuck gives up its key and guard; released late, it must  *)
(* not take those of its successor.  It waits STALE_STATE_GRACE_SECONDS    *)
(* from the end of the run, and the heals of that time freed its lock.     *)
ReapDispatch(m) ==
    LET r == slot[m] IN
    /\ sweep.pc = "idle" /\ r # None
    /\ Tidy
    /\ run[r].status # "none" /\ RunsOn(m, run[r].task) = {} /\ <<m, run[r].task>> \notin locks
    /\ Mishap("wedge")
    /\ run' = [run EXCEPT ![r].reaped = TRUE, ![r].aborted = TRUE]
    /\ slot' = [slot EXCEPT ![m] = None]
    /\ active' = active \ {run[r].task}
    /\ live' = live \ {r}
    /\ UNCHANGED <<wake, locks, blocked, repo, disp, target, sweep, fate>>

HealLock(l) ==
    /\ sweep.pc = "idle" /\ l \in locks
    /\ Tidy
    /\ RunsOn(l[1], l[2]) = {}
    /\ \A r \in Runs : run[r].pc # "none" /\ run[r].status = "none" => <<run[r].member, run[r].task>> # l
    /\ locks' = locks \ {l}
    /\ UNCHANGED <<wake, run, blocked, repo, disp, target, slot, active, live, sweep, fate, mishaps>>

(* Mutant: only wakeups that got as far as a run are looked at.            *)
AbandonedByRun(w) ==
    /\ wake[w].status = "claimed"
    /\ \E r \in Runs : run[r].wakeup = w /\ run[r].status # "none"
    /\ \A r \in Runs : run[r].wakeup = w => ~ActiveRun(r)

(* A claimed wakeup no run is active for, and nobody is about to launch.   *)
RunsOf(w) == {r \in Runs : run[r].wakeup = w /\ run[r].status # "none"}
Abandoned(w) ==
    /\ wake[w].status = "claimed"
    /\ \A r \in RunsOf(w) : ~ActiveRun(r)
    /\ \A d \in Dispatchers : disp[d].row = w => disp[d].pc \notin {"activate", "launch"}
    /\ \A r \in Runs : run[r].wakeup = w /\ run[r].pc # "none" => run[r].status # "none"

(* It ends by its last run's status, or goes back to the queue if it has   *)
(* none.  Rows carry no time, so any of its runs may be the last.  The     *)
(* look and the update are apart, and the update asks nothing.             *)
HealReads(w) ==
    /\ sweep.pc = "idle"
    /\ Tidy
    /\ Abandoned(w)
    /\ \E v \in IF RunsOf(w) = {} THEN {"queued"}
               ELSE {IF run[r].status = "succeeded" THEN "completed" ELSE "failed" : r \in RunsOf(w)} :
          sweep' = [pc |-> "heal", row |-> w, run |-> None, verdict |-> v]
    /\ UNCHANGED <<wake, run, locks, blocked, repo, disp, target, slot, active, live, fate, mishaps>>

HealWrites ==
    LET w == sweep.row IN
    /\ sweep.pc = "heal"
    /\ Tidy
    /\ wake' = Put(w, sweep.verdict)
    /\ fate' = Ends(UNION {run[r].seen : r \in {q \in Runs : run[q].wakeup = w /\ run[q].status \in {"succeeded", "failed"}}},
                    "closed")
    /\ sweep' = NoSweep
    /\ UNCHANGED <<run, locks, blocked, repo, disp, target, slot, active, live, mishaps>>

-----------------------------------------------------------------------------
(* The process dies and comes back: reconcileDatabaseOnStartup fails the   *)
(* runs in flight and queues a wakeup for each one's task.  Claimed        *)
(* wakeups are left to the sweep.                                          *)
Restart ==
    LET cut == {r \in Runs : ActiveRun(r)}
        pairs == {<<run[r].member, run[r].task>> : r \in cut}
        lost(p) == UNION {run[r].seen : r \in {q \in cut : <<run[q].member, run[q].task>> = p}}
    IN
    /\ Mishap("crash")
    /\ Tidy
    /\ \E f \in [pairs -> Rows] :
          /\ \A p \in pairs : f[p] \in IF Queued(p[1], p[2]) # {} THEN Queued(p[1], p[2]) ELSE Unused
          /\ \A p, q \in pairs : f[p] = f[q] => p = q
          /\ wake' = [w \in Rows |->
                         IF \E p \in pairs : f[p] = w
                         THEN LET p == CHOOSE p \in pairs : f[p] = w
                              IN Trigger(wake[w], p[1], p[2], "timer", 0, lost(p))
                         ELSE wake[w]]
    /\ run' = [r \in Runs |-> IF run[r].pc = "launched" THEN NoRun
                              ELSE [run[r] EXCEPT !.status = IF r \in cut THEN "failed" ELSE @,
                                                  !.pc = "none"]]
    /\ locks' = {} /\ slot' = [m \in Members |-> None] /\ active' = {} /\ live' = {}
    /\ disp' = [d \in Dispatchers |-> Idle]
    /\ sweep' = NoSweep
    /\ target' = [a \in Asks |-> None]
    /\ fate' = [a \in Asks |-> IF fate[a] = "posting" THEN "unborn" ELSE fate[a]]
    /\ UNCHANGED <<blocked, repo>>

Forget ==
    /\ ~Tidy
    /\ wake' = [w \in Rows |-> IF Gone(w) THEN NoRow ELSE wake[w]]
    /\ run' = [r \in Runs |-> IF Spent(r) THEN NoRun
                              ELSE [run[r] EXCEPT !.covers = {w \in @ : ~Gone(w)}]]
    /\ UNCHANGED <<locks, blocked, repo, disp, target, slot, active, live, sweep, fate, mishaps>>

-----------------------------------------------------------------------------
Requests ==
    \/ \E a \in Asks : PostSelect(a) \/ PostWrite(a)
    \/ \E w \in Rows : CancelWakeup(w) \/ PressReads(w)
    \/ \E t \in Tasks : Block(t) \/ Unblock(t)
    \/ \E r \in Runs : Terminate(r)
    \/ DesignateRepo

Cron ==
    \/ CronScan
    \/ \E b \in disp["cron"].batch : CronSkips(b) \/ CronReads(b)
    \/ CronWrites

Activation(d) == Refuses(d) \/ PutsOff(d) \/ Proceeds(d) \/ Launch(d)

Finish(r) == Succeed(r) \/ Fail(r) \/ Abort(r) \/ Lose(r) \/ HandBack(r) \/ Throw(r)

Sweep ==
    \/ \E r \in Runs : Reap(r)
    \/ HandBackNeverStarted
    \/ RetryOrphan
    \/ \E l \in Members \X Tasks : HealLock(l)
    \/ \E w \in Rows : HealReads(w)
    \/ HealWrites

Work ==
    \/ Requests
    \/ Cron
    \/ PressWrites
    \/ \E d \in Dispatchers : Activation(d)
    \/ \E r \in Runs : CreateRun(r) \/ Start(r) \/ Finish(r) \/ Settle(r) \/ Release(r)
    \/ Sweep
    \/ \E m \in Members : ReapDispatch(m)
    \/ Restart

Next == Work \/ Forget

Spec == Init /\ [][Next]_vars

(* The crons tick, a statement that was sent is answered, and a run ends   *)
(* (launchTask gives it a time limit).                                     *)
FairSpec ==
    /\ Spec
    /\ \A a \in Asks : WF_vars(PostWrite(a))
    /\ WF_vars(Cron)
    /\ \A d \in Dispatchers : WF_vars(Activation(d))
    /\ WF_vars(PressWrites)
    /\ \A r \in Runs : WF_vars(CreateRun(r) \/ Start(r) \/ Finish(r) \/ Settle(r) \/ Release(r))
    /\ WF_vars(Sweep)
    /\ WF_vars(Forget)

-----------------------------------------------------------------------------
(* An ask that is owed is never dropped: some open wakeup or some          *)
(* unfinished run stands for its agent and task, until a run that saw it   *)
(* ends with a verdict, it is escalated to a person, or a person withdraws *)
(* it.  The wakeup and the run change hands between requests, dispatch,    *)
(* the run's own settlement, the sweep and the restart.                    *)
AsksCarried ==
    \A a \in Asks : fate[a] = "owed" =>
        \/ \E w \in Rows : wake[w].status \in Open /\ About(w, For[a].member, For[a].task)
        \/ RunsOn(For[a].member, For[a].task) # {}
        \/ sweep.pc \in {"handback", "retry"} /\ a \in run[sweep.run].seen

(* No two unfinished runs have one task: dispatch checks the task in       *)
(* memory and in the table, and the sweep and the restart free it only     *)
(* after the row of the run that had it is terminal.                       *)
OneRunPerTask ==
    \A r, q \in Runs : ActiveRun(r) /\ ActiveRun(q) /\ run[r].task = run[q].task => r = q

(* A run that some process still drives, and whose key was not taken away. *)
Driven(x) == x.pc # "none" /\ ~x.reaped

(* No two runs of one agent are driven at once, though the cron and Run    *)
(* now dispatch side by side and each looked before the other launched,    *)
(* unless the sweep gave one of them up (launchTask's check of the key,    *)
(* sweepStaleDispatches).                                                  *)
OneRunPerAgent ==
    \A r, q \in Runs : Driven(run[r]) /\ Driven(run[q]) /\ run[r].member = run[q].member => r = q

(* A launched run keeps its agent's launch key and its task's guard until  *)
(* it releases them itself or the sweep takes them: the completion of a    *)
(* run that was given up, come late, frees neither its agent's next run    *)
(* nor another agent's on its task.  (Where Run now and the cron launch at *)
(* once it does not hold: see README.)                                     *)
GuardsHeld ==
    \A r \in Runs : run[r].pc \in {"launched", "parked", "working"} /\ ~run[r].reaped =>
        slot[run[r].member] = r /\ run[r].task \in active

(* The first verdict on a run stands: whoever else comes to end it (the    *)
(* run itself, a termination, the sweep, a restart) leaves the row alone.  *)
VerdictStands ==
    [][\A r \in Runs : run[r].status \in TerminalRun => run'[r].status \in {run[r].status, "none"}]_vars

(* No run row stays unfinished, though its driver may have thrown, been    *)
(* terminated or died without writing it.                                  *)
RunsEnd == \A r \in Runs : ActiveRun(r) ~> ~ActiveRun(r)

(* No wakeup stays claimed, whatever became of its dispatch or its run.    *)
ClaimsSettle == \A w \in Rows : wake[w].status = "claimed" ~> wake[w].status # "claimed"

(* A wakeup parked on its task's blockers is there only while the task has *)
(* blockers: the closing of the last one releases it.                      *)
NoStrandedWakeup ==
    \A w \in Rows : wake[w].status = "deferred" /\ wake[w].why = "blocked" => wake[w].task \in blocked

(* Every ask comes to an end, even if run after run is lost: the strikes   *)
(* of a lineage end it with an escalation.                                 *)
AsksEnd == \A a \in Asks : fate[a] = "owed" ~> fate[a] \in {"closed", "withdrawn"}

=============================================================================
