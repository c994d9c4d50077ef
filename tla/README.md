# A TLA+ development of Hezo's server core

Hezo runs teams of AI agents, each in a container, from one server process
(`packages/server`). This project models the parts of the server everything else
depends on:

- the container fleet: how runs and chat turns get a container, keep it to
  themselves, give it back, and how containers are retired, reconciled, billed and
  shared between projects under one memory budget;
- the wakeup queue: how an event becomes a wakeup, a wakeup a run, and what the run,
  the sweeps and a restart do with both when the run ends, is lost or cut short;
- the chat sessions: how messages interrupt or wait for replies, and who waits for whom.

All paths below are relative to `packages/server/src/` unless they start with `packages/`.

## 1. Inventory

| Component | State it keeps | Operations | Hard behaviour |
|---|---|---|---|
| Keyed lock (`lib/keyed-lock.ts`) | a map from key to owner and queue of waiters | acquire (with priority, time limit, abort signal), release, `withKeyedLock` | a time-out or abort racing the hand-over, double release, priority overtaking |
| Container pool (`services/containers.ts`, `services/sandbox/pool-db.ts`) | `container_pool_members`, `projects.container_id/status`; in memory the lifecycle locks, the calls in flight and the holds | acquire ladder, provision, claim, release, retire, sync, reconcile, memory stop, operator remove | every `await` is an interleaving point; half of the writers take no lock; engine calls time out, fail, or finish late; the process dies |
| Pool decisions (`services/sandbox/pool.ts`) | none | `selectPoolMember`, the two idle planners, `planCrossProjectReclaim` | boundaries of the budget arithmetic, "keep one" and "do not strand" rules |
| Uptime ledger (`services/sandbox/uptime-ledger.ts`) | intervals billed per container, provisional ones per create request | open, close, open provisional, adopt, discard | moves in a statement of its own, after the row it describes |
| Orphan reaper (`services/sandbox/orphan-reaper.ts`) | the suspects of the last sweep | sweep | a container being created looks like an orphan |
| Capacity (`services/run-concurrency.ts`, `services/job-manager.ts`) | pending-start counts, active runs | gate, launch, idle passes, reclaim | one budget read under as many locks as there are projects; plans older than the state they act on |
| Job manager (`services/job-manager.ts`) | timers; `runningTasks`, `activeTaskRuns`, `liveRuns` | crons, dispatch, launch, completion, startup repair | crash recovery, claims without a guard, guards released late |
| Agent runner (`services/agent-runner.ts`) | one run's row, container, worktrees | prepare, execute, settle, release | abort at every point |
| Chat sessions (`services/chat-session-manager.ts`) | per conversation: send chain, reply, group queue, compaction, titling; `chat_messages` | send, interrupt, queue, cancel, turn, compact, title, close, stop | a reply between two awaits is invisible to the message that should stop it; waits across conversations; a runtime evicted under its users |
| Wakeup queue (`services/wakeup.ts`, `comment-wakeups.ts`, `no-work-backoff.ts`) | `agent_wakeup_requests` | create and coalesce, claim, defer, release, requeue, absorb, settle | select-then-insert, unguarded claims, a park racing its release |
| Orphan detector, run termination, hand-back | `heartbeat_runs`, retries | detect, terminate, retry, escalate | three parties settle one run |
| Tasks and dependencies, approvals, budgets | tables of that name | status changes, release of deferred work, resolve, pause | resolution once only |
| Backend switch and recovery, instance lock, unlock hand-off, migrations | settings, lock row, temporary database | switch, take over, swap | crash between two steps |
| OAuth and credentials, log streaming and compaction | tokens; chunks | refresh; append, compact | one refresh at a time; nothing lost at the seam |
| Engines, git, egress proxy, SSH agent, parsers, MCP tools, connectors, SSO, backup, web app | mostly none | I/O | not concurrent with themselves in a way a model would show |

How they interact: the job manager's gate admits a run on a reading of the
member table plus the pending starts kept in memory; the run then climbs
the ladder of `acquireRunContainer` under its project's lifecycle lock (a
`KeyedLock`), one attempt per lock hold, and outside the lock may reclaim other
projects' idle members under a global lock and each victim's own. Retirement
takes the lifecycle lock to decide and to write, and leaves its engine calls running
in the background (`lifecycleCallsInFlight`). A cron reads the tables, asks the
engine, and writes what it concludes without any lock. Every write to a member's
state is followed by a separate write to the ledger.

A trigger (a comment, an assignment, a timer) calls `createWakeup`, which merges it into
a queued row for the same agent and task or inserts one. Two dispatchers claim
rows: the cron `processWakeups` and an operator's "Run now". Activation takes the
execution lock, the launch key of the agent and the guard of the task, and starts a
run, which inserts its own row. The run's end is written by the run, by a
termination, by the orphan sweep or by the restart, whichever comes first; the
wakeup is then settled, requeued or retried by one of the same parties. A chat
message goes through neither the queue nor the gate: it claims a container itself,
as a `chat-turn`, and its conversation's chain decides when.

What makes each part correct is listed with the modules below; what is hard to
test is listed, line by line, under `hazards` in `PROJECT.json`.

## 2. Modules

**`AbstractLock`, `KeyedLock`, `KeyedLockProofs`.** `KeyedLock` has `entry[k]` (the
key is in the registry), `queue[k]`, and for every acquire call its key, priority
and status. One action per outcome of `acquireKeyedLock` (free, contended, already
aborted), `GiveUp` for a time-out or an abort of a waiter, `Release` with the hand-over
to the first in the queue, `ReleaseAgain`, and `Forget`, by which a settled call's
identity is used again. JavaScript runs a grant, a
time-out and an abort each to completion, so each is one action. `AbstractLock`
says only that a key has at most one holder and that a call waits, holds, and is
done or withdrawn; `KeyedLock` implements it (`ImplementsLock`).

**`ContainerPool`.** One project, its runs, and every writer of its member rows.
Statements are executed one at a time: an actor that has decided what to write
holds the statements in `todo`, and `Exec` executes the first of one actor's, so
any other actor may come between a state change and its ledger move, as in
the code, where each is an awaited query. `row`, `bill`, `prov`, `named`, `shown` and
`live` are the tables and survive `Crash`; `lock`, `pc`, `at`, `todo`, `tracked`,
`holds`, `seen` and `suspected` are the process's and do not. `engine` is what the
backend really holds; `serving` is a history variable, the runs whose work is executing.
Actors: runs (`EnterLadder` to `Ended`), the retirer and the background halves of
stops, removals and failed creates, work outside a run (`HoldRunning`, and `EnsureRunning`, which
takes a running container as it is or goes on to `EnsureStarts` or `EnsureFails`, and `EnsureDone`, where
the hold is taken), the cron (`LivenessReads`/`LivenessJudges`, `SyncReads`/`SyncJudges`,
`SyncMeasures` and what follows it), the operator, the reaper, and the startup repair.

**`PoolLadder`.** `sandbox/pool.ts` as operators. Where the code takes the first
match of a list whose order carries no meaning for the properties, the operator
returns the set of all decisions an order could lead to.

**`Fleet`.** Several projects under one budget. The decisions are `PoolLadder`'s;
`Fleet` says when each is taken, on which reading and under which lock. A pass that
holds a project's lock from its reading to its last write is one step; the
reclaim is scan (`PlanReclaim`) and then one `Evict` per victim, with anything in
between. A create is visible in the table only from `RecordCreate` on, which is what the
budget's arithmetic has to cope with.

**`WakeupQueue`.** `wake` and `run` are the tables `agent_wakeup_requests` and
`heartbeat_runs` (with the process that drives each run in `pc`, `aborted`,
`reaped`), `locks` is `execution_locks`; they survive `Restart`. `disp`, `slot`,
`active` and `live` are the job manager's memory. `target` is what `createWakeup`'s first statement found,
used by its second. `fate` is history: what became of each ask (the event behind a
wakeup). Actions: `PostSelect`/`PostWrite` (`createWakeup`); `CronScan`, `CronSkips`,
`CronReads`/`CronWrites` (`processWakeups`: gates read, then the row written without
a condition; a row is judged by the source its scan read, which a merge may have changed since); `PressReads`/`PressWrites` (`dispatchWakeupNow`); `Refuses`, `PutsOff`, `Proceeds`,
`Launch` (`activateAgent`); `CreateRun`, `Start` and the ways a run ends (`Succeed`, `Fail`,
`Abort`, `HandBack`, `Lose`, `Throw`); `Settle`, `Release` (the completion);
`Terminate`; the sweep (`Reap`, `HandBackNeverStarted`, `RetryOrphan`, `HealLock`,
`HealReads`/`HealWrites`) and `ReapDispatch`; `Block`/`Unblock` with the release of deferred
rows; `Restart`. A run reads its whole task when it starts, so it serves every ask made for
its agent and task by then, whichever row carried it: `AsksCarried` is stated of asks,
not rows, because coalescing and absorption end rows without ending what they stand for.

**`ChatSession`.** Conversations of four kinds with the messages sent to them. An action goes from one await
that takes time to the next. `chain` is a runtime's `turnLock`, `rt` the rest of
`ConversationRuntime`; a close evicts the runtime from the map, and `gen` says which
one is in it, for every function keeps the runtime it looked up: the send its own
(`send.rt`), `runChatTurn` its own (`turn.own`), `runTurn` and the upkeep theirs (`turn.in`),
the group queue and each of its replies theirs (`room.own`, `room.in`). A send is `Post`, `Begin`
(preempting a compaction), `StopTitling`, `Interrupt`, `Store`, and `Refuse`,
`KickTurn` or `KickQueue`; a group queue is `RoomGate`, `RoomKick`, `RoomReplied`
with `CancelReply`; a turn is `Acquire` or `AcquireNothing`, `Build`, `ExecEnds`, `Scrub`,
`Title`/`TitleEnds`, `Fold`/`FoldEnds` (its turn on `memberCompactionLock`) and
`Teardown`, or `FailLate`. `CloseBegin`, `CloseGoesOn` and `CloseMark` are
`closeConversation`, `StopBegin`/`StopEnds` are `stop` and `restart`, and `Crash` includes
`reconcileDatabaseOnStartup`.

`ContainerPoolMC`, `FleetMC`, `WakeupQueueMC` and `ChatSessionMC` hold the instances'
constants and symmetry; the modules ending in `Proofs`, `ContainerPoolDiscipline`,
`ContainerPoolExclusion` and `ContainerPoolCustody` hold the theorems (section 4). `KeyedLock` is checked as it stands, without symmetry, because
its run has liveness properties. The modules are not composed into one: `ChatSession` and
`WakeupQueue` meet the fleet only through "a container is claimed, later", which is an
arbitrary delay in both; in `Fleet` runs and turns are the acquirers.

## 3. Runs

| Run | Configuration | Shows |
|---|---|---|
| `lock` | `KeyedLock.cfg`: 2 keys, 4 calls | `TypeOK`, `LockInv`; `OrderKept`: a waiter is only overtaken by a new priority waiter; `ImplementsLock`; `PriorityServed`, `PlainServed` |
| `pool_safety` | `ContainerPoolSafety.cfg`: 2 runs, 2 containers, held work, 1 engine fault | `OneRunPerContainer`; `RetirementSparesRuns`: no stop or removal is under way where a run executes; `WorkIsBilled`; `HoldsRespected`: none begins on a held container |
| `pool_claims` | `ContainerPoolClaims.cfg`: 2 runs, 1 container; status sync, and one memory stop or settings change | `ClaimHasHolder` among the writers that take no lock |
| `pool_mishaps` | `ContainerPoolMishaps.cfg`: 2 runs, 1 container, held work, 2 of crashes, faults and an operator's removals | `TypeOK`; `OneRunPerContainer` when a container that lost its row joins the pool again; `ClaimHasHolder` across restarts |
| `pool_ledger` | `ContainerPoolLedger.cfg`: 1 run, 1 container, liveness pass, reaper, 1 crash, fault or outside stop | `RestIsSettled`, `RequestsSettled`, `MembersBilled`, `OrphansReaped` |
| `fleet_one_project` | `FleetOne.cfg`: 2 task runs, 1 chat turn, 3 containers, everything on | `BudgetKept`: the ladder, the chat lane, recycling and the idle passes of one project keep within the total |
| `fleet_reclaim` | `FleetReclaim.cfg`: 2 projects with runs and 1 without, containers of sizes 1 and 2 in a budget of 2, out of disk or pinned | `LadderInv`: what a run was offered stays as it was until it claims it; `ReclaimPlansTight`: a plan frees enough, would not without its last member, plans to destroy no pinned one and strands no project; `ClaimsSpared`, `TypeOK`; `PinnedSpared`: only another project's reclaim, planned before the commits were made, destroys them; `ReclaimEnds`: two starved projects do not wait for each other for ever |
| `wakeup_asks` | `WakeupAsks.cfg`: 2 mentions for one agent and task, lost runs, 1 crash or failing statement | `AsksCarried`: nothing asked is dropped between the queue, dispatch, run, sweep and restart; `OneRunPerTask`; `TypeOK` |
| `wakeup_ends` | `WakeupEnds.cfg`: 1 mention, lost runs up to the code's ceiling of 3, and 1 crash, failing statement, termination, stuck completion or cancel | `AsksEnd`, `RunsEnd`, `ClaimsSettle` (liveness); `VerdictStands`: the first verdict on a run is not rewritten; `GuardsHeld`: the completion of a run the sweep gave up, come late, frees neither the launch key nor the task guard of the next |
| `wakeup_gates` | `WakeupGates.cfg`: 1 assignment, all gates opening and closing, and 1 Run now, stuck completion, hand-back or blocker | `OneRunPerAgent`: the cron and a Run now with the same wakeup in hand do not both drive the agent |
| `chat` | `Chat.cfg`: 2 messages to one conversation of each kind (a group's first has 2 answerers), or to a DM beside another DM with 1; 1 close, shutdown, crash or failing clean-up | `OneReply`, `AnswersLatest`, `ReplyStands`; `RepliesEnd`, `WaitersReturn` (liveness); `TypeOK` |

One run shows where the code does not do what one of its comments says; the
comment is quoted under `findings`:

- `wakeup_stranded` (`WakeupStranded.cfg`): the cron reads that a task is blocked; its
  last blocker closes, and `wakeIfReady` finds no deferred row to release; the cron
  then writes the wakeup deferred with reason `blocked`. The periodic release leaves that
  reason to `wakeIfReady`, which is not called again: the wakeup is stranded until
  somebody touches the task (`NoStrandedWakeup`).

Seven more configurations are kept beside the runs. Two are larger instances, and pass:
`WakeupKeys.cfg` (one agent asked about two tasks, with Run now: `OneRunPerAgent` where only the
launch key stands between the dispatches) and `WakeupGuards.cfg` (two agents asked about one task:
`GuardsHeld` where the late completion is one agent's and the later run the other's). Five give
counterexamples, each to the property named with it; all but the second are of the steps that the hypotheses
of theorems in section 4 exclude:

- `WakeupRunNow.cfg`: a Run now for one agent and the cron's dispatch of
  another's wakeup both find their task free, since its guard is set only at launch; the
  launch keys are the agents', so both launch (`OneRunPerTask`), though `services/job-manager.ts:2760`
  says "only one agent runs on a given task at a time".
- `ContainerPoolHeld.cfg`: a retirement has suspended a member, left the
  lock and is stopping the container in the background. `ensureRunningUnderLock` finds
  the container running and returns it at once, for it waits for calls under way only
  before a start; the hold is taken on a container that goes down (`HeldStaysUp`), though `services/containers.ts:216`
  says "no retirement can slip in between the start and the hold".
- `ContainerPoolMemory.cfg`: the memory limit's stop fails while a chat turn
  works in the container. What follows the stop takes the turn's claim for abandoned, since no
  heartbeat row names the container, and suspends it; the next run resumes the container,
  which never stopped, and claims it (`OneRunPerContainer`), though `sandbox/pool-db.ts:670` says "A live run
  therefore keeps its claim exactly as before".
- `FleetBudget.cfg`: two dispatches of different projects pass the gate
  before either has its pending start, and both ladders read the table, each under its own
  project's lock, before either create is recorded (`BudgetKept`). It takes two dispatches
  at once: a Run now beside the cron, or two of them. `services/job-manager.ts:1817` says "the ceiling
  is never exceeded".
- `FleetPinned.cfg`: a member a reclaim has planned to destroy is claimed,
  worked in and released with unpushed commits before the reclaim gets its project's
  lock; the reclaim asks again only whether it is idle, and destroys it (`PinnedKept`; `sandbox/pool.ts:40`: "must not be recycled"). Locks
  are granted in any order in `Fleet`; in the code's queue this order arises when the victim's
  lock is held or asked for ahead of the reclaim, or when the reclaim waits for minutes at an
  earlier victim.

Other behaviours the models have, which no run states as a property of its own
(each was seen as a counterexample when the named constants were used):

Wakeup queue:

- With `Env = {"cancel"}` the cron's claim, which has no condition, overwrites a
  person's cancellation made since the row was read, and the wakeup runs.
  `routes/queued-wakeups.ts` relies on a condition only its own statement has.
- With `{"terminate"}`: a terminated run leaves `liveRuns` at once while its row is still
  unfinished, so the sweep takes it for an orphan and retries the work that a person
  has just stopped.
- With `{"press"}` and one agent, the dispatch that comes second to the launch key puts the
  row of the first one's run back into the queue, and a trigger merged into it is dropped
  when that run settles it. With two agents `GuardsHeld` fails too: the two runs of
  `WakeupRunNow.cfg` have one guard, and the first to end frees it under the other.
- With `{"handback"}`: the heal pass reads a handed-back run as the failure of its wakeup
  and marks that failed before the completion requeues it; if the process dies in
  between, the work is dropped.
- An assignment merged into a queued row that is older than the last successful run is
  retired with the row as already served (`assignmentWakeupAlreadyServed` compares
  the row's creation time).
- A statement failing and the process dying between `Reap` and its hand-back or retry
  lose the ask: the run's row is already terminal. `wakeup_asks` allows one such event, not two.
- A wakeup refused over budget stays claimed, and the heal pass requeues it every time.

Chat sessions:

- A message already past its interrupt step when `stop` or `restart` takes its list of
  turns starts its turn afterwards; `abortAllCurrent` says "no exec outlives a
  restart/shutdown".
- Likewise for a close: a message on its way when the conversation is closed starts its
  reply on the evicted runtime, and one queued behind it starts another on a new
  one, so two replies can run in a conversation, and after it was marked closed.
  `abortConversationRuntime` says the thread is "quiescent" before the row is marked.
  `OneReply` and `AnswersLatest` are therefore stated of conversations not yet evicted.
- By reading: the eviction of a compacted window is allowed by any change of the memory row
  during the compaction, also one made by another turn of the same agent.

Containers:

- `ContainerPoolMemory.cfg` has a variant in which the stop succeeds: the member is suspended before the run in
  it has released it, another run resumes and claims the container, and the first run's
  release, which does not ask whose claim it is, makes it idle for a third
  (`services/containers.ts:2681`, `sandbox/pool-db.ts:474`).
- `FleetBudget.cfg` has a variant at the gate: a project with a start in flight is
  exempt from it and counted once however many starts it has. With one project
  the lock keeps the budget, as `fleet_one_project` shows; how far several can
  overrun is the theorem `Overrun`.
- A task run reuses the container a chat turn left in the lane, and the next turn queues.
- The liveness pass reads a member idle, finds its container stopped, and writes it
  suspended after a run has resumed and claimed it; a second run resumes it
  (`OneRunPerContainer` fails with `Env = {"liveness", "outside"}`).
- A member in error has its interval closed while its container is down. Started
  again from outside, it is never reopened: `RunningVerdict` leaves errored
  members alone.
- By the same re-reading as in `FleetPinned.cfg`, a reclaim can take what has meanwhile become a
  project's last member. The plan itself never does (`ReclaimPlansTight`).
- A suspended member that is out of disk counts as the warm start that lets the
  last usable member go, in both idle planners.
- Unpushed commits pin a container against destruction, not against suspension,
  by `planIdleShutdown`; `sandbox/pool-db.ts:246` reads as if they did both.

### Bounds

Two acquirers are enough for every double claim, since claims are per container
and the actions only compare two at a time; a finished run's identity is
used again, so behaviours have any number of runs. A container's engine identity is never
reused in `ContainerPool`; in `Fleet` it is once nobody refers to it. `MaxMishaps`
bounds crashes, faults and interference, not the ordinary interleavings; the
ledger's run allows one, at any point, which is what each repair exists for. `Env` switches parts of the environment on, so that each run
contains the actors its question is about. Four calls make a queue of three behind a
holder, the least in which a priority waiter overtakes one of two. The
budget of two in `Fleet` makes the third container the one too many; `fleet_reclaim` has a third project
without runs, to which members of both sizes are victims, so that a small victim followed by a
large one, which then would have done alone, is a plan that occurs.

In `WakeupQueue` a row or run nobody refers to any more is forgotten and its identity used
again (`Forget`, before anything else can happen), so `Rows` and `Runs` bound
what exists at one time. Two runs let one start while another has ended and is still
being settled, which is where the guards change hands; one agent and one task are enough for a late
completion to meet its successor. The key is per agent and
the guard per task, and `WakeupKeys.cfg` and `WakeupGuards.cfg` check each where the other does not hide
it: one agent with two tasks, two agents with one. `OneRunPerTask` was also checked with two agents on one
task (1.47 million states, without Run now). `MaxRetries` is the code's 3 in `wakeup_ends`.
In `ChatSession` every message is sent at most once, so behaviours are finite; two messages are
a reply and the one that supersedes it, and the third, in another
conversation, is what a compaction can be parked behind.

### Fairness

`KeyedLock!FairSpec`: holders release (`withKeyedLock` does in a `finally`).
`ContainerPool!FairSpec`: weak fairness of statements, of the steps of a run
inside the lock, of background calls (each has a time limit in the code), of the
crons and of the restart; strong fairness of the liveness pass coming to each member,
because it goes through the list with a cursor. A run outside the lock may work for
ever. Faults are bounded, so a call made again and again is answered.
`Fleet!FairSpec`: what runs inside a lock goes on, and strong fairness of getting a
lock, justified by the queue being served in order (`PlainServed`).
`WakeupQueue!FairSpec`: weak fairness of each party's next step: the crons tick, a
statement that was sent is answered (or fails, at most `MaxMishaps` times), and a run
ends because `launchTask` gives it a time limit. A run may lose every
attempt; `AsksEnd` holds because the strikes are counted.
`ChatSession!FairSpec`: as long as some send, turn, queue, close or shutdown can go on, one
does. That is the weakest form; execs, waits for a container and for a credential have
deadlines in the code, and messages are finitely many.

## 4. Proofs

`KeyedLockProofs` is about any set of keys and calls, under `NoneAssumption` (the
value for "nobody" is not a call or key).

- `TypeCorrect`: `Spec => []TypeOK`.
- `LockSafe`: `Spec => []LockInv`. `LockInv` says that a key's queue lists, once each,
  exactly the calls waiting for it, priority ones first, that a key with waiters is
  registered, and that a registered key has exactly one holder. None of these is inductive alone: that the
  hand-over makes no second holder needs the releaser to be the only one, and
  that nobody is granted twice needs the queue to have no duplicates.
  Together with `TypeOK` they are, action by action.
- `LockRefines`: `Spec => ImplementsLock`. `holder` and `waiting` of `AbstractLock`
  are read off the calls' statuses; under `LockInv` each action is one abstract step
  (the hand-over is release and grant in one) or a stutter.
- `OrderStands`: `Spec => OrderKept`. Every way a queue changes (an insertion behind the
  priority waiters, a removal anywhere, the hand-over) keeps the order of those who stay.

`FleetProofs` is about any finite sets of projects and containers and any runs, sizes and budget,
under `FleetAssumption`.

- `IdleFloor`: both idle planners keep a member, take only idle ones and destroy none
  that is pinned. It is a fact about the operators of `PoolLadder`, for any set of
  members, and holds in every state; no run repeats it.
- `LadderSafe`: `Spec => []LadderInv`. The inductive invariant is
  `IInv == Shape /\ LadderInv`, `Shape` being the part of `TypeOK` the argument uses.
  That a chosen member stays as it was chosen (`OnItsRung`) is preserved only
  because the run is inside its project's lock (`InsideLock`): everything that
  retires takes members that are idle or suspended in a project nobody has locked
  (`Movable`). `RetiredTakes` to `PassTakes` show that of each retiring action, and
  `RetiringKeeps`, once, that such a step disturbs no run.
- `ClaimsKept`: `Spec => ClaimsSpared`, from the same invariant.
- `TypeCorrect`: `Spec => []TypeOK`. The invariant is `TInv`, `IInv` with what the arithmetic needs:
  every member has an owner, whose size it has (`Owned`), flags are sets of containers (`Flags`), and needs and
  plans are numbers and sets (`Accounts`).
- `ReclaimTight`: `Spec => []ReclaimPlansTight`. The plan is the shortest prefix of the order that frees
  enough; that there is one, that it names members only, and that without its last member it would not do, are
  facts about sums of sizes (`TakenFacts`, `ReclaimFacts`); that it leaves each victim a member is
  `ReclaimFloor`. That every member it takes is needed is not claimed, and false: with two to find, victims
  of sizes one and two are both taken.
- `Overrun`, for any projects: what runs takes at most the budget and one start of every project but one.
  Not inductive as it stands: `Fits` counts, with what runs, the starts decided on and not yet made
  (`Wanting`), of which each project has one at most because the decision is made inside its lock. TLC finds
  the bound reached with two projects of one size.
- `BudgetSafe`: `Spec /\ [][~Overlap]_vars => []BudgetKept`, for any projects. `Overlap` is the step of `FleetBudget.cfg`: a
  run decides on a start while another start is decided on and not yet recorded. `Within(Budget)` is the
  inductive form, what runs and what is about to fits; any other interleaving of projects, gates, chat turns
  and reclaims keeps it.
- `PinnedSafe`: `Spec => PinnedSpared`, for any projects and with no further hypothesis. A reclaim's plan names other
  projects' members only (`Elsewhere`), so that its own provisions and recycling are not confused with it, and what holds commits
  is a finished member (`PinnedRows`), which no failing provision destroys. `PinnedKept`, without the
  exception, is false with two projects (`FleetPinned.cfg`).

Sums over a set are folds, and the library's induction rules are out of reach, so a fact about all finite sets
is proved by least counterexample: strict inclusion on the subsets of a finite set is well founded, and a minimal set
at which the fact fails (`MinimalSubset`) is neither empty nor one element more than a set where it holds. `SumsOf`
gives sums by this argument their defining equation, monotonicity and additivity, and every later lemma is about `Total`.

`ChatSessionProofs` is about any conversations, messages, numbers of answerers and mishaps,
under `ChatAssumption`. The inductive invariant `Inv` has `TypeOK` with what keeps the
queues from running empty (a send past the chain is at its head, a compaction under way at
the head of its), and, for conversations that were never closed:

- a reply under way is its runtime's current one, answers the message stored last, is awaited
  by any send that found it, and runs for the group queue if there is one (`ReplyInv`);
- only the queue of the message stored last is set (`QueueInv`), and a send past its
  interruption is that message (`StoredLast`);
- rows of replies still to come are not inserted (`Fresh`), and there is one runtime (`FirstGen`).

`OneReply` by itself is not inductive: a message that has interrupted nothing, because the
reply was between two awaits, must be known to be still behind the gate. From `Inv` follow `TypeCorrect`
(`TypeOK`), `OneReplyAtATime` (`OneReply`), `LatestAnswered` (`AnswersLatest`) and
`OutcomeStands` (`ReplyStands`).

`WakeupQueueProofs` is about any agents, tasks, asks, rows, runs and numbers of retries and
mishaps, under `QueueAssumption`.

- `TypeCorrect`: with `TypeOK` it takes that nothing refers to a row or run that was forgotten
  (`RunsKnown`, `DispKnown`, `SweepKnown`).
- `FirstVerdictStands` (`VerdictStands`): the run, a termination, the sweep and a
  restart may all come to end one run; the first one's verdict stays.
- `AgentAlone`: `Spec => []OneRunPerAgent`. No two runs of one agent are driven at once, Run now included.
- `GuardsKept` (`GuardsHeld`) and `TaskAlone` (`OneRunPerTask`), under `[]~Crossing`, Run now included: `Crossing` is that both
  dispatchers are between the task's busy check and the launch at once, which is where `WakeupRunNow.cfg` goes wrong. The invariant adds to
  the keys (`Keys`) that what passed the busy checks is still free when it
  is launched (`Guards`), which only another dispatch past its own check could undo (`LaunchAlone`), and that launched or unfinished
  runs have different tasks (`Alone`): the table's check alone is too late for a run launched and not yet inserted, the
  memory's alone too early for one whose guard a sweep took away.

`ContainerPoolProofs`, `ContainerPoolDiscipline`, `ContainerPoolExclusion` and `ContainerPoolCustody` are about any runs,
any finite set of containers and any number of mishaps, under `ConstAssumption` and `NobodyAssumption`
(the value for "nobody" is no actor).

- `TypeCorrect` and `ClaimsReturned` (`ClaimHasHolder`) hold for every `Env`, the lockless passes
  included. The strengthening (`Holders`) says that an ending run has its
  release and nothing else ahead of it, so no other statement of its own can come between.
- `OneRunAtATime`: `Spec /\ [][~LateWrite]_vars => []OneRunPerContainer`, for every `Env`, the container-sync
  cron included. `LateWrite` is a step of that cron: a statement it decided on before it asked the engine changes
  the row of a member a run holds, or makes one idle whose stop or removal is being waited for (`ContainerPoolMemory.cfg` has one).
  So that is the only way two runs come to share a container. Its inductive invariant has four layers.
  `Discipline`: which statements an actor may have pending (`Mine`), who must hold the lock (`Seats`),
  and what a process that is down has left (`Down`). `Used`: a container somebody refers to has been asked of the
  engine, so that a new one is nobody's. `Exclusion`: a stop under way is in the in-flight
  map, or its container can never come back (`Called`, `Dead`); while it is, the ladder finds
  nothing there to use (`Withheld`) and what it went on with is not being stopped (`Undisturbed`);
  a destroyed member's row goes before its name and both before the engine is called
  (`Struck`); a claimer's row is busy, gone or outdated (`Sound`), and nobody shares a container with a
  claimer, not even on the way to one (`Lone`). The last is the property; it needs `Sound` because the
  ladder judges by the row, `Sound` needs `Withheld` because a stop's settling half takes
  no lock, and that needs `Called` and `Dead` because a removal may replace a stop in the map.
- `HoldsKept`: `Spec => HoldsRespected`, for every `Env` and with no further hypothesis: a pass asks about the holds
  in the lock hold in which it begins, so what it is about to take down is not held (`Held`).
- `RunsSpared`: `Spec /\ [][~Trespass]_vars => []RetirementSparesRuns`. A `Trespass` is a `LateWrite`, or a statement of an
  operator's Remove that takes the row of a member a run holds. It adds `Custody` to
  the invariant of `OneRunAtATime`: a member about to be destroyed is not claimed (`Condemned`),
  a container about to be adopted has no member yet (`Joining`), so a claimer's row stays busy and not
  merely sound (`Standing`); a removal is of a `Dead` container (`Buried`). `Standing` and `Withheld` keep stops
  from a run, `Standing` and `Buried` removals.
- `WorkBilled`: `Spec /\ [][~Intrusion]_vars => []WorkIsBilled`. An `Intrusion` is a `Trespass`, or a statement of the same two that
  changes the row, closes the interval or takes the name of a container a run is concerned with, also one it is only on its way to:
  a Remove can delete a row before the claim has opened its interval, which matters after a crash
  between a resume's two statements (TLC, `Env = {"operator", "crash"}`). It adds `Metered`: a claim has its `open` as the only
  statement ahead, and the interval is open once that is executed (`Paid`); of those who may have a `close` pending, a stop's
  and a removal's are kept off by `Withheld` and `Buried`, a run's by `Lone`; a failed create's and the reaper's are of `Dead`
  containers (`Settled`), and an adopter's is of a member nobody has claimed (`Owed`). That the reaper's orphan is
  dead takes that a member somebody has chosen stays, that a container being created has no row and no name (`OnTheWay`),
  and that one about to be adopted is still named (`Wanted`).

Out of the prover's reach, and with TLC: the liveness properties. Model-checked only for another reason:
`AsksCarried`, which is true of one mishap and not of two (a crash between `Reap` and
its retry after a failing statement; a hand-back, then a heal before the completion).

Two definitions changed because a proof of them failed. `Retired` had a CASE whose guards overlapped, which leaves the
outcome open; and `AfterPlan` counted suspended members of other projects too, so that the floor of
`ReclaimPlansTight` and `IdlePlansKeepFloor` could be met by somebody else's member.

## 5. Abstractions

`ContainerPool`: which of several members a rung prefers, and when a pass retires
one, is any choice (the rules are `PoolLadder`'s); a retirement plan is carried out
one member per lock hold; the eight attempts of the ladder are "again or give up";
`beginPoolMemberStop` and the entry of the stop into the in-flight map are one step;
holds are a set where the code counts; the liveness pass may come to a member at any
age; the reaper removes one confirmed orphan per sweep, and its second sighting comes
after a create has been recorded, ten minutes being longer than a
create may take; `ensureRunningUnderLock` finds a container to take or start and
does not provision one; the teardown of a whole project is left out; the startup sweep of the reaper is an ordinary sweep.
Database statements always succeed.

`Fleet`: sizes are fixed per project; task affinity, the hours allowance, errored
members, holds and containers without a member row are left out (errors and holds are in
`ContainerPool`); `rested` stands for both floors of a reclaim, 30 s idle and 300 s
old; a chat keeps at most one member warm; a failed provision leaves nothing that
counts.

`WakeupQueue`: one project, so the launch key is the agent's; wakeups have a task
(heartbeats without one, timeout continuations, the chaining to an agent's next task,
idempotency keys, archiving and draining are left out). Rows carry no
time: grace windows are "any time later", the order of equal candidates is any
order, and a wakeup's "last run" is any of its runs. Launch and the absorption of
queued rows are one step, since both run in one synchronous stretch as far as other
writers of those rows can tell; a termination's statements are one step;
`createWakeup` called by the server's own passes is one step, called by a request
two. The source of a row is the one read with the scan, its age the row's own, which differs only if a
Run now parks the row and an unblocking restamps it between scan and read; one Run now is
dispatched at a time. Statements fail only where the code has a handler for it (`dbfault`).

`ChatSession`: prompts, windows, memory, usage and delivery to channels are left out; a
claim of a container is a step that may come late or be refused; whether a thread is
untitled and whether a window is over its cap is any choice; a batch of
messages is one message; statements succeed, except the ones whose failure is named (`Refuse`,
`BuildThrows`, `ScrubThrows`, and the recording of usage in `ExecEnds`, after which a delivered reply gets no upkeep); convert-to-task, which uses the same abort and eviction as
a close, is not an action of its own. The model tells a worker's DM, which is an assistant
thread in the table, from the CEO's, because only the latter is titled.

## 6. Not modelled

The components with status `not_modelled` in `PROJECT.json`, with the reason for
each. Formatting, logging, broadcasting and measurement are left out of the
modelled ones. Most of the repository by size is request handlers over single rows,
drivers, parsers, the web application and types; the modules here are about the state
that several parties share.

## 7. Plan

Done: the lock with its refinement and safety proofs, the pool, the decisions, the
fleet, the wakeup queue with its sweeps and the chat sessions, and the safety proofs of
section 4. Next, in this order:

1. `DeferredWork`: dependencies, approvals and budget pauses as reasons to wait, and
   that each release wakes what waited for it, with the park of `wakeup_stranded` as one case.
2. `InstanceOwner`: instance lock, unlock hand-off and database swap across crashes.
3. `TokenRefresh` and `LogStream`.
