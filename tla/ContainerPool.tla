---------------------------- MODULE ContainerPool ----------------------------
(***************************************************************************)
(* The containers of one project: the ladder a run acquires one through,   *)
(* the claim it holds, the passes that retire, reconcile and remove        *)
(* members, and the uptime ledger that bills them                          *)
(* (packages/server/src/services/containers.ts, sandbox/pool-db.ts,        *)
(* sandbox/uptime-ledger.ts, sandbox/orphan-reaper.ts, job-manager.ts).    *)
(*                                                                         *)
(* Every await is a point where another actor may run, so an actor that    *)
(* has decided what to write keeps the statements in todo and executes     *)
(* them one at a time.  The lifecycle lock (module KeyedLock) excludes     *)
(* acquires and retirements from each other; the status sync, the liveness *)
(* pass, the operator and the settling half of a stop or removal do not    *)
(* take it.                                                                *)
(***************************************************************************)
EXTENDS Naturals, FiniteSets, Sequences, SequencesExt

CONSTANTS
    Runs,        \* agent runs and chat turns; an identity is reused once it ended
    Containers,  \* engine ids; never reused
    None,        \* no container, nobody
    Env,         \* the parts of the environment a configuration switches on
    MaxMishaps   \* bound on crashes, faults and interference from outside

ASSUME ConstAssumption ==
    /\ None \notin Runs \union Containers
    /\ IsFiniteSet(Containers)
    /\ Env \subseteq {"crash", "faults", "hold", "liveness", "sync", "memory",
                      "operator", "outside", "reaper", "settings"}
    /\ MaxMishaps \in Nat

VARIABLES
    row,        \* container_pool_members.state, "none" without a row
    outdated,   \* members not built to today's memory cap and image
    bill,       \* bill[c]: is an uptime interval of c open
    prov,       \* containers whose create request has a provisional interval
    named,      \* projects.container_id
    shown,      \* projects.container_status
    live,       \* runs whose heartbeat row is running and names their container
    engine,     \* what the container engine holds
    lock,       \* the actor inside the project's lifecycle lock
    pc,         \* where each actor is
    at,         \* at[r]: the container run r is concerned with
    todo,       \* statements each actor has still to execute
    tracked,    \* lifecycleCallsInFlight: "none", "stop" or "remove"
    holds,      \* containerHolds
    seen,       \* what a pass read before it asked the engine
    suspected,  \* orphans the last sweep saw
    up,         \* is the server process running
    serving,    \* runs whose work is really executing in their container
    mishaps     \* how many have happened

db == <<row, outdated, bill, prov, named, shown, live>>
process == <<lock, pc, at, tracked, holds, seen, suspected, up>>
vars == <<db, engine, process, todo, serving, mishaps>>

Run(r) == <<"run", r>>
Stop(c) == <<"stop", c>>          \* the background half of a suspend
Removal(c) == <<"removal", c>>    \* the background half of a destroy
Cleanup(c) == <<"cleanup", c>>    \* settleFailedCreate
Retirer == <<"pass", "retirer">>
Worker == <<"pass", "worker">>    \* a clone, reset or install outside any run
Watch == <<"pass", "watch">>      \* the container-sync cron
Operator == <<"pass", "operator">>
Reaper == <<"pass", "reaper">>
Boot == <<"pass", "boot">>

Passes == {Retirer, Worker, Watch, Operator, Reaper, Boot}
Actors == {Run(r) : r \in Runs} \union Passes
          \union {Stop(c) : c \in Containers}
          \union {Removal(c) : c \in Containers}
          \union {Cleanup(c) : c \in Containers}

ASSUME NobodyAssumption == None \notin Actors

RowState == {"none", "creating", "idle", "busy", "suspended", "error"}
EngineState == {"unused", "requested", "stopped", "running", "stopping", "gone"}
Exists == {"stopped", "running", "stopping"}
RunPc == {"new", "again", "decide", "inspect", "resume", "request", "creating",
          "start", "setup", "claim", "claimed", "working", "running", "ending",
          "retry", "failed"}
PassPc == {"off", "sync", "memory", "liveness", "calling", "settling", "lookup",
           "removing", "starting", "on"}

Ops == {"open", "close", "adopt", "discard", "provisional", "set", "upsert", "adoptUnpooled",
        "delete", "release", "unclaim", "markRunning", "beginStop",
        "beginRemoval", "name", "unname", "show", "showIfNamed", "showGone",
        "endRuns", "cancel"}
ShownState == {"none", "creating", "running", "stopped", "error"}
Statement == [op : Ops, c : Containers, to : RowState \union ShownState \union {""}]

(* What a pass remembers: a member's state or the project's, or that it    *)
(* found an interval nobody accounts for.                                  *)
Reading ==
    [c : Containers \union {None},
     state : RowState \union ShownState \union {"unsettled", "provisional", ""}]

TypeOK ==
    /\ row \in [Containers -> RowState]
    /\ outdated \subseteq Containers
    /\ bill \in [Containers -> BOOLEAN]
    /\ prov \subseteq Containers
    /\ named \in Containers \union {None}
    /\ shown \in ShownState
    /\ live \subseteq Runs
    /\ engine \in [Containers -> EngineState]
    /\ lock \in Actors \union {None}
    /\ pc \in [Actors -> RunPc \union PassPc]
    /\ at \in [Runs -> Containers \union {None}]
    /\ todo \in [Actors -> Seq(Statement)]
    /\ tracked \in [Containers -> {"none", "stop", "remove"}]
    /\ holds \subseteq Containers
    /\ seen \in [{"watch", "worker"} -> Reading]
    /\ suspected \subseteq Containers
    /\ up \in BOOLEAN
    /\ serving \subseteq Runs
    /\ mishaps \in 0..MaxMishaps

Nothing == [c |-> None, state |-> "none"]
IdlePc == [a \in Actors |-> IF a \in {Run(r) : r \in Runs} THEN "new" ELSE "off"]

Init ==
    /\ row = [c \in Containers |-> "none"]
    /\ outdated = {}
    /\ bill = [c \in Containers |-> FALSE]
    /\ prov = {}
    /\ named = None
    /\ shown = "none"
    /\ live = {}
    /\ engine = [c \in Containers |-> "unused"]
    /\ lock = None
    /\ pc = IdlePc
    /\ at = [r \in Runs |-> None]
    /\ todo = [a \in Actors |-> <<>>]
    /\ tracked = [c \in Containers |-> "none"]
    /\ holds = {}
    /\ seen = [p \in {"watch", "worker"} |-> Nothing]
    /\ suspected = {}
    /\ up = TRUE
    /\ serving = {}
    /\ mishaps = 0

-----------------------------------------------------------------------------
(* Statements: one query each, executed by Exec below.                     *)

St(op, c) == [op |-> op, c |-> c, to |-> ""]
StTo(op, c, to) == [op |-> op, c |-> c, to |-> to]

(* The statement is done; more are to follow at once.                      *)
Done(a, more) == todo' = [todo EXCEPT ![a] = more \o Tail(@)]

(* The ledger move that goes with a member's new state; an errored one     *)
(* keeps whatever it had.                                                  *)
Uptime(state, c) ==
    CASE state = "suspended" -> <<St("close", c)>>
      [] state = "error"     -> <<>>
      [] OTHER               -> <<St("open", c)>>

(* The interval copies its shape from the member row: no row, no interval. *)
OpenUptime(a, c) ==
    /\ bill' = [bill EXCEPT ![c] = @ \/ row[c] # "none"]
    /\ Done(a, <<>>)
    /\ UNCHANGED <<row, prov, named, shown, live>>

CloseUptime(a, c) ==
    /\ bill' = [bill EXCEPT ![c] = FALSE]
    /\ Done(a, <<>>)
    /\ UNCHANGED <<row, prov, named, shown, live>>

OpenProvisional(a, c) ==
    /\ prov' = prov \union {c}
    /\ Done(a, <<>>)
    /\ UNCHANGED <<row, bill, named, shown, live>>

(* The provisional interval becomes the container's, or is dropped when    *)
(* the container has one already.                                          *)
AdoptProvisional(a, c) ==
    /\ bill' = [bill EXCEPT ![c] = @ \/ c \in prov]
    /\ prov' = prov \ {c}
    /\ Done(a, <<>>)
    /\ UNCHANGED <<row, named, shown, live>>

DiscardProvisional(a, c) ==
    /\ prov' = prov \ {c}
    /\ Done(a, <<>>)
    /\ UNCHANGED <<row, bill, named, shown, live>>

(* setPoolMemberState: whatever the row says now, unless there is none.    *)
(* The interval moves even when the row did not.                           *)
SetState(a, c, to) ==
    /\ row' = [row EXCEPT ![c] = IF @ = "none" THEN @ ELSE to]
    /\ Done(a, Uptime(to, c))
    /\ UNCHANGED <<bill, prov, named, shown, live>>

UpsertMember(a, c, to) ==
    /\ row' = [row EXCEPT ![c] = to]
    /\ Done(a, Uptime(to, c))
    /\ UNCHANGED <<bill, prov, named, shown, live>>

(* A change of AdoptMember: the member as the ladder's own.                 *)
AdoptUsable(a, c, to) ==
    /\ row' = [row EXCEPT ![c] = to]
    /\ Done(a, Uptime(to, c))
    /\ UNCHANGED <<outdated, bill, prov, named, shown, live>>

(* adoptUnpooledContainer's upsert states no allocation, so the ladder     *)
(* will replace the member rather than use it.                             *)
AdoptMember(a, c, to) ==
    /\ row' = [row EXCEPT ![c] = to]
    /\ outdated' = outdated \union {c}
    /\ Done(a, Uptime(to, c))
    /\ UNCHANGED <<bill, prov, named, shown, live>>

ForgetMember(a, c) ==
    /\ row' = [row EXCEPT ![c] = "none"]
    /\ Done(a, <<>>)
    /\ UNCHANGED <<bill, prov, named, shown, live>>

(* releasePoolMember: any state but suspended, whoever claimed it.         *)
ReleaseMember(a, c) ==
    /\ IF row[c] \in {"none", "suspended"}
       THEN Done(a, <<>>) /\ UNCHANGED row
       ELSE /\ row' = [row EXCEPT ![c] = "idle"]
            /\ Done(a, Uptime("idle", c))
    /\ UNCHANGED <<bill, prov, named, shown, live>>

(* releaseClaimIfRunGone: a claim no running heartbeat row accounts for.   *)
Unclaim(a, c) ==
    /\ IF row[c] = "busy" /\ \A r \in live : at[r] # c
       THEN /\ row' = [row EXCEPT ![c] = "suspended"]
            /\ Done(a, Uptime("suspended", c))
       ELSE Done(a, <<>>) /\ UNCHANGED row
    /\ UNCHANGED <<bill, prov, named, shown, live>>

MarkRunning(a, c) ==
    /\ IF row[c] = "suspended"
       THEN /\ row' = [row EXCEPT ![c] = "idle"]
            /\ Done(a, Uptime("idle", c))
       ELSE Done(a, <<>>) /\ UNCHANGED row
    /\ UNCHANGED <<bill, prov, named, shown, live>>

(* The project row.  Only showIfNamed and unname look at what it names.    *)
WriteProject(a, s) ==
    /\ named' = CASE s.op = "name" -> s.c
                  [] s.op = "showGone" -> None
                  [] s.op = "unname" /\ named = s.c -> None
                  [] OTHER -> named
    /\ shown' = CASE s.op = "name" -> "running"
                  [] s.op = "showGone" -> "error"
                  [] s.op = "unname" /\ named = s.c -> "none"
                  [] s.op = "showIfNamed" /\ named # s.c -> shown
                  [] s.op \in {"show", "showIfNamed"} -> s.to
                  [] OTHER -> shown
    /\ Done(a, <<>>)
    /\ UNCHANGED <<row, bill, prov, live>>

(* failProjectRuns, scoped to the container.                               *)
EndRuns(a, c) ==
    /\ live' = {r \in live : at[r] # c}
    /\ Done(a, <<>>)
    /\ UNCHANGED <<row, bill, prov, named, shown>>

(* beginPoolMemberStop, and the stop it lets go ahead: only an idle member *)
(* is taken, or a container that has no member.                            *)
BeginStop(a, c) ==
    /\ IF row[c] \in {"idle", "none"}
       THEN /\ row' = [row EXCEPT ![c] = IF @ = "idle" THEN "suspended" ELSE @]
            /\ pc' = [pc EXCEPT ![Stop(c)] = "calling"]
            /\ tracked' = [tracked EXCEPT ![c] = "stop"]
       ELSE UNCHANGED <<row, pc, tracked>>
    /\ Done(a, <<>>)
    /\ UNCHANGED <<bill, prov, named, shown, live>>

BeginRemoval(a, c) ==
    /\ pc' = [pc EXCEPT ![Removal(c)] = "calling"]
    /\ tracked' = [tracked EXCEPT ![c] = "remove"]
    /\ Done(a, <<>>)
    /\ UNCHANGED db

(* cancelLiveRunsForContainer: the work of the task runs is aborted; each  *)
(* still has to reach its own release.  Whoever has no heartbeat row yet   *)
(* may be a chat turn, which nobody cancels.                               *)
CancelLiveRuns(a, c) ==
    LET here == {r \in serving : at[r] = c} IN
    /\ \E spared \in SUBSET (here \ live) : serving' = (serving \ here) \union spared
    /\ Done(a, <<>>)
    /\ UNCHANGED db

Exec(a) ==
    /\ up /\ todo[a] # <<>>
    /\ LET s == Head(todo[a]) IN
       \/ /\ \/ s.op = "open" /\ OpenUptime(a, s.c)
             \/ s.op = "close" /\ CloseUptime(a, s.c)
             \/ s.op = "provisional" /\ OpenProvisional(a, s.c)
             \/ s.op = "adopt" /\ AdoptProvisional(a, s.c)
             \/ s.op = "discard" /\ DiscardProvisional(a, s.c)
             \/ s.op = "set" /\ SetState(a, s.c, s.to)
             \/ s.op = "upsert" /\ UpsertMember(a, s.c, s.to)
             \/ s.op = "delete" /\ ForgetMember(a, s.c)
             \/ s.op = "release" /\ ReleaseMember(a, s.c)
             \/ s.op = "unclaim" /\ Unclaim(a, s.c)
             \/ s.op = "markRunning" /\ MarkRunning(a, s.c)
             \/ s.op \in {"name", "unname", "show", "showIfNamed", "showGone"}
                /\ WriteProject(a, s)
             \/ s.op = "endRuns" /\ EndRuns(a, s.c)
          /\ UNCHANGED <<outdated, pc, tracked, serving>>
       \/ s.op = "adoptUnpooled" /\ AdoptMember(a, s.c, s.to)
          /\ UNCHANGED <<pc, tracked, serving>>
       \/ s.op = "beginStop" /\ BeginStop(a, s.c) /\ UNCHANGED <<outdated, serving>>
       \/ s.op = "beginRemoval" /\ BeginRemoval(a, s.c) /\ UNCHANGED serving
       \/ s.op = "cancel" /\ CancelLiveRuns(a, s.c) /\ UNCHANGED <<pc, tracked>>
    /\ UNCHANGED <<engine, lock, at, holds, seen, suspected, up, mishaps>>

-----------------------------------------------------------------------------
(* The engine                                                              *)

(* Work in a container ends when the container stops running.              *)
EngineMoves(c, state) ==
    /\ engine' = [engine EXCEPT ![c] = state]
    /\ serving' = IF state = "running" THEN serving
                  ELSE {r \in serving : at[r] # c}

Mishap(kind) ==
    /\ kind \in Env
    /\ mishaps < MaxMishaps
    /\ mishaps' = mishaps + 1

(* A requested create comes into being, or never will.                     *)
EngineCreates(c) ==
    /\ engine[c] = "requested"
    /\ \E state \in {"stopped", "gone"} : EngineMoves(c, state)
    /\ UNCHANGED <<db, process, todo, mishaps>>

(* A stop whose answer was not waited for finishes.                        *)
EngineStops(c) ==
    /\ engine[c] = "stopping"
    /\ EngineMoves(c, "stopped")
    /\ UNCHANGED <<db, process, todo, mishaps>>

(* Stopped or removed from outside: a daemon restart, a managed backend.   *)
Outside(c) ==
    /\ Mishap("outside")
    /\ \/ engine[c] = "running" /\ EngineMoves(c, "stopped")
       \/ engine[c] \in {"running", "stopped"} /\ EngineMoves(c, "gone")
    /\ UNCHANGED <<db, process, todo>>

(* The memory cap or the image a container is built to changes.            *)
SettingsChange ==
    /\ Mishap("settings")
    /\ outdated' = {c \in Containers : row[c] # "none"}
    /\ UNCHANGED <<row, bill, prov, named, shown, live, engine, process, todo, serving>>

-----------------------------------------------------------------------------
(* Acquiring: acquireRunContainer, one attempt of the ladder per lock hold *)

(* Nothing starts before the startup reconciliation has finished.          *)
Free(a) == up /\ todo[a] = <<>> /\ todo[Boot] = <<>>

(* Actor a goes to step p with statements to execute on the way.           *)
Goto(a, p, statements) ==
    /\ pc' = [pc EXCEPT ![a] = p]
    /\ todo' = [todo EXCEPT ![a] = statements]

InRun(r, p) == Free(Run(r)) /\ pc[Run(r)] = p

(* withContainerLifecycleLock lets one actor in at a time.                 *)
LockIgnored == TRUE
LockFree == lock = None

(* awaitLifecycleCall: a stop or removal in flight has settled.            *)
CallNotAwaited(c) == TRUE
CallAwaited(c) == tracked[c] = "none"

(* A container the project names and the pool has no row for joins it.     *)
AdoptUnpooled ==
    IF named \in Containers /\ row[named] = "none" /\ engine[named] \in Exists
    THEN <<StTo("adoptUnpooled", named,
                IF engine[named] = "running" THEN "idle" ELSE "suspended")>>
    ELSE <<>>

EnterLadder(r) ==
    /\ InRun(r, "new") \/ InRun(r, "again")
    /\ LockFree
    /\ lock' = Run(r)
    /\ Goto(Run(r), "decide", IF pc[Run(r)] = "new" THEN AdoptUnpooled ELSE <<>>)
    /\ UNCHANGED <<db, engine, at, tracked, holds, seen, suspected, up, serving, mishaps>>

(* executeRetirementPlan skips a container work outside a run holds.       *)
HoldIgnored(c) == TRUE
NotHeld(c) == c \notin holds

(* Retirement's statements for one container, under the lifecycle lock.    *)
Destroy(c) == <<St("delete", c), St("unname", c), St("beginRemoval", c)>>

(* The rungs.  Which of several members the ladder prefers is module       *)
(* PoolLadder; what matters here is the state each rung takes one in.  A   *)
(* disposable outdated member is replaced before anything else; one that   *)
(* is pinned or busy is passed over.                                       *)
Decide(r) ==
    /\ InRun(r, "decide")
    /\ \/ \E c \in Containers \ outdated : \* reuse
             /\ row[c] = "idle"
             /\ Goto(Run(r), "inspect", <<>>) /\ at' = [at EXCEPT ![r] = c]
       \/ \E c \in Containers \ outdated : \* resume
             /\ row[c] = "suspended"
             /\ Goto(Run(r), "resume", <<>>) /\ at' = [at EXCEPT ![r] = c]
       \/ \E c \in Containers : \* create
             /\ engine[c] = "unused"
             /\ \A s \in Runs : at[s] # c
             /\ Goto(Run(r), "request",
                     <<StTo("show", c, "creating"), St("provisional", c)>>)
             /\ at' = [at EXCEPT ![r] = c]
       \/ \E c \in outdated : \* recycle
             /\ row[c] \in {"idle", "suspended"}
             /\ Goto(Run(r), "retry", IF NotHeld(c) THEN Destroy(c) ELSE <<>>)
             /\ UNCHANGED at
       \/ Goto(Run(r), "failed", <<>>) /\ UNCHANGED at \* queue
    /\ UNCHANGED <<db, engine, lock, tracked, holds, seen, suspected, up, serving, mishaps>>

(* Reuse: the row is checked against the engine first.                     *)
Inspect(r) ==
    LET c == at[r] IN
    /\ InRun(r, "inspect")
    /\ \/ engine[c] \notin Exists
          /\ Goto(Run(r), "retry", <<St("close", c), St("delete", c)>>)
       \/ engine[c] \in {"stopped", "stopping"}
          /\ Goto(Run(r), "retry", <<StTo("set", c, "suspended")>>)
       \/ engine[c] = "running" /\ Goto(Run(r), "claim", <<>>)
    /\ UNCHANGED <<db, engine, lock, at, tracked, holds, seen, suspected, up, serving, mishaps>>

(* Resume: wait for a stop in flight, then start in place.  A start that   *)
(* fails drops the member only when the container is gone.                 *)
Resume(r) ==
    LET c == at[r] IN
    /\ InRun(r, "resume")
    /\ CallAwaited(c)
    /\ \/ /\ engine[c] \in {"stopped", "running"}
          /\ EngineMoves(c, "running")
          /\ Goto(Run(r), "claim", <<StTo("set", c, "idle"), St("name", c)>>)
          /\ UNCHANGED mishaps
       \/ /\ engine[c] \notin Exists
          /\ Goto(Run(r), "retry", <<St("close", c), St("delete", c)>>)
          /\ UNCHANGED <<engine, serving, mishaps>>
       \/ /\ engine[c] \in Exists
          /\ \/ engine[c] = "stopping" /\ UNCHANGED mishaps
             \/ Mishap("faults")
          /\ Goto(Run(r), "failed", <<>>)
          /\ UNCHANGED <<engine, serving>>
    /\ UNCHANGED <<db, lock, at, tracked, holds, seen, suspected, up>>

(* Create, metered from the request.                                       *)
RequestCreate(r) ==
    /\ InRun(r, "request")
    /\ EngineMoves(at[r], "requested")
    /\ Goto(Run(r), "creating", <<>>)
    /\ UNCHANGED <<db, lock, at, tracked, holds, seen, suspected, up, mishaps>>

CreateAnswers(r) ==
    LET c == at[r] IN
    /\ InRun(r, "creating")
    /\ engine[c] \in Exists
    /\ Goto(Run(r), "start", <<St("adopt", c), StTo("upsert", c, "creating")>>)
    /\ UNCHANGED <<db, engine, lock, at, tracked, holds, seen, suspected, up, serving, mishaps>>

(* The create failed or timed out, which says nothing of what the backend  *)
(* did: its outcome is looked up in the background.                        *)
CreateFails(r) ==
    LET c == at[r] IN
    /\ InRun(r, "creating")
    /\ \/ engine[c] = "gone" /\ UNCHANGED mishaps
       \/ Mishap("faults")
    /\ pc' = [pc EXCEPT ![Run(r)] = "failed", ![Cleanup(c)] = "lookup"]
    /\ todo' = [todo EXCEPT ![Run(r)] = <<StTo("show", c, "error")>>]
    /\ UNCHANGED <<db, engine, lock, at, tracked, holds, seen, suspected, up, serving>>

StartCreated(r) ==
    LET c == at[r] IN
    /\ InRun(r, "start")
    /\ engine[c] \in {"stopped", "running"}
    /\ EngineMoves(c, "running")
    /\ Goto(Run(r), "setup", <<St("name", c)>>)
    /\ UNCHANGED <<db, lock, at, tracked, holds, seen, suspected, up, mishaps>>

SetUp(r) ==
    /\ InRun(r, "setup")
    /\ engine[at[r]] = "running"
    /\ Goto(Run(r), "claim", <<StTo("upsert", at[r], "idle")>>)
    /\ UNCHANGED <<db, engine, lock, at, tracked, holds, seen, suspected, up, serving, mishaps>>

(* The start or a later step of the provision failed.                      *)
ProvisionFails(r) ==
    LET c == at[r] IN
    /\ InRun(r, "start") \/ InRun(r, "setup")
    /\ \/ engine[c] # "running" /\ pc[Run(r)] = "setup" /\ UNCHANGED mishaps
       \/ engine[c] \notin Exists /\ UNCHANGED mishaps
       \/ Mishap("faults")
    /\ Goto(Run(r), "failed", <<StTo("set", c, "error"), StTo("show", c, "error")>>)
    /\ UNCHANGED <<db, engine, lock, at, tracked, holds, seen, suspected, up, serving>>

(* claimPoolMember: the guarded move that decides between two acquires.    *)
Claim(r) ==
    LET c == at[r] IN
    /\ InRun(r, "claim")
    /\ IF row[c] = "idle"
       THEN /\ row' = [row EXCEPT ![c] = "busy"]
            /\ Goto(Run(r), "claimed", Uptime("busy", c))
            /\ serving' = IF engine[c] = "running" THEN serving \union {r} ELSE serving
       ELSE Goto(Run(r), "retry", <<>>) /\ UNCHANGED <<row, serving>>
    /\ UNCHANGED <<outdated, bill, prov, named, shown, live, engine, lock, at, tracked,
                   holds, seen, suspected, up, mishaps>>

(* The lock is left with a claim, to try again (up to eight times), or     *)
(* with an error, after which the caller may come back.                    *)
LeaveLadder(r) ==
    /\ lock = Run(r)
    /\ lock' = None
    /\ \/ InRun(r, "claimed") /\ Goto(Run(r), "working", <<>>) /\ UNCHANGED at
       \/ InRun(r, "retry") /\ Goto(Run(r), "again", <<>>) /\ at' = [at EXCEPT ![r] = None]
       \/ InRun(r, "retry") /\ Goto(Run(r), "new", <<>>) /\ at' = [at EXCEPT ![r] = None]
       \/ InRun(r, "failed") /\ Goto(Run(r), "new", <<>>) /\ at' = [at EXCEPT ![r] = None]
    /\ UNCHANGED <<db, engine, tracked, holds, seen, suspected, up, serving, mishaps>>

-----------------------------------------------------------------------------
(* A run with its container                                                *)

(* The heartbeat row names the container; a chat turn has no such row.     *)
Attribute(r) ==
    /\ InRun(r, "working")
    /\ live' = live \union {r}
    /\ Goto(Run(r), "running", <<>>)
    /\ UNCHANGED <<row, outdated, bill, prov, named, shown, engine, lock, at, tracked, holds,
                   seen, suspected, up, serving, mishaps>>

(* What the finally of a run still does for its container.                 *)
NoRelease(r) == <<>>
Teardown(r) == <<St("release", at[r])>>

(* The run ends, of itself or aborted, and its finally releases.           *)
End(r) ==
    /\ InRun(r, "working") \/ InRun(r, "running")
    /\ live' = live \ {r}
    /\ serving' = serving \ {r}
    /\ Goto(Run(r), "ending", Teardown(r))
    /\ UNCHANGED <<row, outdated, bill, prov, named, shown, engine, lock, at, tracked, holds,
                   seen, suspected, up, mishaps>>

Ended(r) ==
    /\ InRun(r, "ending")
    /\ Goto(Run(r), "new", <<>>)
    /\ at' = [at EXCEPT ![r] = None]
    /\ UNCHANGED <<db, engine, lock, tracked, holds, seen, suspected, up, serving, mishaps>>

RunStep(r) ==
    \/ EnterLadder(r) \/ Decide(r) \/ Inspect(r) \/ Resume(r) \/ RequestCreate(r)
    \/ CreateAnswers(r) \/ CreateFails(r) \/ StartCreated(r) \/ SetUp(r)
    \/ ProvisionFails(r) \/ Claim(r) \/ LeaveLadder(r) \/ Attribute(r) \/ End(r)
    \/ Ended(r)

-----------------------------------------------------------------------------
(* Retirement and its background halves                                    *)

(* retireIdleMembersOfProject, retireDormantContainers, the surplus pass   *)
(* and another project's reclaim: one member of the plan, under the lock.  *)
(* A held container is skipped.                                            *)
Retire ==
    /\ Free(Retirer) /\ LockFree
    /\ lock' = Retirer
    /\ \E c \in Containers :
       /\ NotHeld(c)
       /\ \/ row[c] = "idle" /\ Goto(Retirer, "on", <<St("beginStop", c)>>)
          \/ /\ named = c /\ shown = "running" \* from before the pool: no member
             /\ \A d \in Containers : row[d] \notin {"idle", "busy", "suspended"}
             /\ Goto(Retirer, "on", <<St("beginStop", c)>>)
          \/ row[c] \in {"idle", "suspended"} /\ Goto(Retirer, "on", Destroy(c))
    /\ UNCHANGED <<db, engine, at, tracked, holds, seen, suspected, up, serving, mishaps>>

RetireDone ==
    /\ Free(Retirer) /\ lock = Retirer
    /\ lock' = None
    /\ Goto(Retirer, "off", <<>>)
    /\ UNCHANGED <<db, engine, at, tracked, holds, seen, suspected, up, serving, mishaps>>

(* stopContainerGracefully, once the engine answers.                       *)
StopAnswers(c) ==
    /\ up /\ pc[Stop(c)] = "calling"
    /\ engine[c] \in Exists
    /\ EngineMoves(c, "stopped")
    /\ Goto(Stop(c), "settling",
            <<StTo("showIfNamed", c, "stopped"), StTo("set", c, "suspended"), St("endRuns", c)>>)
    /\ UNCHANGED <<db, lock, at, tracked, holds, seen, suspected, up, mishaps>>

(* The stop failed or ran out of time; it may still be going on.  Neither  *)
(* the member nor its interval is touched.                                 *)
StopFails(c) ==
    /\ up /\ pc[Stop(c)] = "calling"
    /\ \/ engine[c] = "gone" /\ UNCHANGED <<engine, serving, mishaps>>
       \/ Mishap("faults") /\ UNCHANGED <<engine, serving>>
       \/ Mishap("faults") /\ engine[c] = "running" /\ EngineMoves(c, "stopping")
    /\ Goto(Stop(c), "settling", <<StTo("showIfNamed", c, "error"), St("endRuns", c)>>)
    /\ UNCHANGED <<db, lock, at, tracked, holds, seen, suspected, up>>

(* finishRemoval.                                                          *)
RemovalAnswers(c) ==
    /\ up /\ pc[Removal(c)] = "calling"
    /\ EngineMoves(c, "gone")
    /\ Goto(Removal(c), "settling", <<St("close", c)>>)
    /\ UNCHANGED <<db, lock, at, tracked, holds, seen, suspected, up, mishaps>>

RemovalFails(c) ==
    /\ up /\ pc[Removal(c)] = "calling"
    /\ Mishap("faults")
    /\ Goto(Removal(c), "settling", <<>>)
    /\ UNCHANGED <<db, engine, lock, at, tracked, holds, seen, suspected, up, serving>>

(* The call leaves the in-flight map unless a later one replaced it.       *)
CallSettles(c) ==
    \E kind \in {"stop", "remove"} :
        LET a == IF kind = "stop" THEN Stop(c) ELSE Removal(c) IN
        /\ Free(a) /\ pc[a] = "settling"
        /\ Goto(a, "off", <<>>)
        /\ tracked' = [tracked EXCEPT ![c] = IF @ = kind THEN "none" ELSE @]
        /\ UNCHANGED <<db, engine, lock, at, holds, seen, suspected, up, serving, mishaps>>

(* settleFailedCreate: look the name up, and remove what turns up.         *)
LookUpCreate(c) ==
    /\ Free(Cleanup(c)) /\ pc[Cleanup(c)] = "lookup"
    /\ \/ /\ engine[c] \in Exists
          /\ Goto(Cleanup(c), "removing", <<St("adopt", c)>>)
          /\ UNCHANGED mishaps
       \/ /\ engine[c] \notin Exists
          /\ Goto(Cleanup(c), "off", <<St("discard", c)>>)
          /\ UNCHANGED mishaps
       \/ Mishap("faults") /\ Goto(Cleanup(c), "off", <<>>)
    /\ UNCHANGED <<db, engine, lock, at, tracked, holds, seen, suspected, up, serving>>

RemoveCreated(c) ==
    /\ Free(Cleanup(c)) /\ pc[Cleanup(c)] = "removing"
    /\ \/ /\ EngineMoves(c, "gone")
          /\ Goto(Cleanup(c), "off", <<St("close", c)>>)
          /\ UNCHANGED mishaps
       \/ /\ Mishap("faults")
          /\ Goto(Cleanup(c), "off", <<>>)
          /\ UNCHANGED <<engine, serving>>
    /\ UNCHANGED <<db, lock, at, tracked, holds, seen, suspected, up>>

Background(c) ==
    \/ StopAnswers(c) \/ StopFails(c) \/ RemovalAnswers(c) \/ RemovalFails(c)
    \/ CallSettles(c) \/ LookUpCreate(c) \/ RemoveCreated(c)

-----------------------------------------------------------------------------
(* Work outside a run                                                      *)

(* holdRunningContainer: a repo reset or an install in a running member.   *)
HoldRunning ==
    /\ "hold" \in Env
    /\ Free(Worker) /\ pc[Worker] = "off" /\ LockFree
    /\ named \in Containers
    /\ tracked[named] = "none"
    /\ row[named] \notin {"suspended", "error"}
    /\ holds' = holds \union {named}
    /\ UNCHANGED <<db, engine, lock, pc, at, tracked, seen, suspected, up, todo, serving, mishaps>>

(* ensureRunningUnderLock: a container the engine reports running is the   *)
(* answer at once, also while a stop of it is in flight; one at rest is to *)
(* be started.                                                             *)
EnsureRunning ==
    /\ "hold" \in Env
    /\ Free(Worker) /\ pc[Worker] = "off" /\ LockFree
    /\ named \in Containers /\ engine[named] \in Exists
    /\ lock' = Worker
    /\ \/ engine[named] = "running" /\ shown = "running" /\ Goto(Worker, "on", <<>>)
       \/ /\ engine[named] = "running" /\ shown # "running"
          /\ Goto(Worker, "on", <<StTo("show", named, "running")>>)
       \/ engine[named] # "running" /\ Goto(Worker, "starting", <<>>)
    /\ seen' = [seen EXCEPT !["worker"] = [c |-> named, state |-> ""]]
    /\ UNCHANGED <<db, engine, at, tracked, holds, suspected, up, serving, mishaps>>

(* The start waits for a retirement's call, which may still be stopping it.*)
EnsureStarts ==
    LET c == seen["worker"].c IN
    /\ Free(Worker) /\ lock = Worker /\ pc[Worker] = "starting"
    /\ CallAwaited(c)
    /\ engine[c] \in {"stopped", "running"}
    /\ EngineMoves(c, "running")
    /\ Goto(Worker, "on", <<St("markRunning", c), StTo("show", c, "running")>>)
    /\ UNCHANGED <<db, lock, at, tracked, holds, seen, suspected, up, mishaps>>

(* refuseStartOverBudget throws, or the start does.                        *)
EnsureFails ==
    /\ Free(Worker) /\ lock = Worker /\ pc[Worker] = "starting"
    /\ lock' = None
    /\ Goto(Worker, "off", <<>>)
    /\ seen' = [seen EXCEPT !["worker"] = Nothing]
    /\ UNCHANGED <<db, engine, at, tracked, holds, suspected, up, serving, mishaps>>

(* holdProjectContainer takes a hold in the same lock hold; the callers of *)
(* ensureProjectContainerRunning take none.                                *)
EnsureDone ==
    /\ Free(Worker) /\ lock = Worker /\ pc[Worker] = "on"
    /\ lock' = None
    /\ holds' \in {holds, holds \union {seen["worker"].c}}
    /\ Goto(Worker, "off", <<>>)
    /\ seen' = [seen EXCEPT !["worker"] = Nothing]
    /\ UNCHANGED <<db, engine, at, tracked, suspected, up, serving, mishaps>>

ReleaseHold ==
    /\ Free(Worker) /\ pc[Worker] = "off"
    /\ \E c \in holds : holds' = holds \ {c}
    /\ UNCHANGED <<db, engine, lock, pc, at, tracked, seen, suspected, up, todo, serving, mishaps>>

-----------------------------------------------------------------------------
(* The passes that do not take the lock                                    *)

(* syncContainerStatuses, one cron: the status sync, then the liveness     *)
(* reconcile, then the transitions both found.                             *)

(* reconcilePoolMembers lists the members and the intervals no member      *)
(* accounts for, then goes through the list asking the engine.             *)
LivenessReads(c) ==
    /\ "liveness" \in Env
    /\ Free(Watch) /\ pc[Watch] = "off"
    /\ \/ row[c] # "none"
          /\ seen' = [seen EXCEPT !["watch"] = [c |-> c, state |-> row[c]]]
       \/ row[c] = "none" /\ bill[c]
          /\ seen' = [seen EXCEPT !["watch"] = [c |-> c, state |-> "unsettled"]]
       \/ c \in prov
          /\ seen' = [seen EXCEPT !["watch"] = [c |-> c, state |-> "provisional"]]
    /\ Goto(Watch, "liveness", <<>>)
    /\ UNCHANGED <<db, engine, lock, at, tracked, holds, suspected, up, serving, mishaps>>

(* handleContainerTransition: abort the runs, fail their rows, and only    *)
(* then give back a claim that is nobody's.                                *)
Transition(c) == <<St("cancel", c), St("endRuns", c), St("unclaim", c)>>

(* A create whose call has not settled is keyed in the in-flight map too.  *)
CreateInFlight(c) == \E r \in Runs : at[r] = c /\ pc[Run(r)] = "creating"

(* What the pass writes for what it read, by what the engine says now:     *)
(* an interval no member accounts for (settleUnaccountedUptime),           *)
UnsettledIgnored(c, state) == <<>>
UnsettledVerdict(c, state) ==
    CASE state = "provisional" ->
            IF engine[c] \in Exists THEN <<St("adopt", c)>> ELSE <<St("discard", c)>>
      [] OTHER ->
            IF engine[c] \in {"running", "stopping"} THEN <<>> ELSE <<St("close", c)>>

(* a member whose container is up,                                         *)
RunningUnrepaired(c, state) ==
    IF state = "suspended" THEN <<St("markRunning", c)>> ELSE <<>>
RunningVerdict(c, state) ==
    CASE state \in {"idle", "busy"} -> <<St("open", c)>>
      [] state = "suspended" -> <<St("markRunning", c)>>
      [] OTHER -> <<>>

(* and one whose container is at rest: a claim is the run's to give back.  *)
RestUnsettled(c, state) ==
    CASE state = "busy" -> Transition(c)
      [] state = "idle" -> <<StTo("set", c, "suspended")>> \o Transition(c)
      [] OTHER -> <<>>
RestVerdict(c, state) ==
    CASE state \in {"suspended", "error"} -> <<St("close", c)>>
      [] state = "busy" -> Transition(c)
      [] state = "idle" -> <<StTo("set", c, "suspended")>> \o Transition(c)
      [] OTHER -> <<>>

Verdict(c, state) ==
    CASE state \in {"provisional", "unsettled"} -> UnsettledVerdict(c, state)
      [] engine[c] \notin Exists -> <<St("close", c), St("delete", c)>>
      [] engine[c] = "running" -> RunningVerdict(c, state)
      [] engine[c] = "stopped" -> RestVerdict(c, state)
      [] engine[c] = "stopping" -> <<>>

LivenessJudges ==
    LET c == seen["watch"].c
        state == seen["watch"].state IN
    /\ Free(Watch) /\ pc[Watch] = "liveness"
    /\ \/ tracked[c] # "none" /\ state # "provisional" /\ Goto(Watch, "off", <<>>)
       \/ CreateInFlight(c) /\ state = "provisional" /\ Goto(Watch, "off", <<>>)
       \/ /\ tracked[c] = "none" \/ state = "provisional"
          /\ ~(CreateInFlight(c) /\ state = "provisional")
          /\ Goto(Watch, "off", Verdict(c, state))
    /\ seen' = [seen EXCEPT !["watch"] = Nothing]
    /\ UNCHANGED <<db, engine, lock, at, tracked, holds, suspected, up, serving, mishaps>>

(* A provision in flight past its deadline is failed whatever the engine   *)
(* would say.                                                              *)
LivenessFailsWedged ==
    /\ Free(Watch) /\ pc[Watch] = "liveness"
    /\ seen["watch"].state = "creating"
    /\ Mishap("faults")
    /\ Goto(Watch, "off", <<StTo("set", seen["watch"].c, "error")>>)
    /\ seen' = [seen EXCEPT !["watch"] = Nothing]
    /\ UNCHANGED <<db, engine, lock, at, tracked, holds, suspected, up, serving>>

(* syncAllContainerStatuses reads the project row, then asks the engine    *)
(* about the container it named.                                           *)
SyncReads ==
    /\ "sync" \in Env
    /\ Free(Watch) /\ pc[Watch] = "off"
    /\ named \in Containers
    /\ Goto(Watch, "sync", <<>>)
    /\ seen' = [seen EXCEPT !["watch"] = [c |-> named, state |-> shown]]
    /\ UNCHANGED <<db, engine, lock, at, tracked, holds, suspected, up, serving, mishaps>>

SyncJudges ==
    LET c == seen["watch"].c
        old == seen["watch"].state
        ended == IF old = "running" THEN Transition(c) ELSE <<>> IN
    /\ Free(Watch) /\ pc[Watch] = "sync"
    /\ \/ tracked[c] # "none" /\ Goto(Watch, "off", <<>>)
       \/ /\ tracked[c] = "none"
          /\ \/ engine[c] \notin Exists
                /\ Goto(Watch, "off", <<St("showGone", c)>> \o ended)
             \/ engine[c] = "stopping" /\ Goto(Watch, "off", <<>>)
             \/ engine[c] = "stopped" /\ old = "running"
                /\ Goto(Watch, "off",
                        <<StTo("show", c, "stopped"), StTo("set", c, "suspended")>> \o ended)
             \/ engine[c] = "stopped" /\ old # "running"
                /\ Goto(Watch, "off", <<StTo("show", c, "stopped")>>)
             \/ engine[c] = "running"
                /\ Goto(Watch, "off", <<StTo("show", c, "running")>>)
    /\ seen' = [seen EXCEPT !["watch"] = Nothing]
    /\ UNCHANGED <<db, engine, lock, at, tracked, holds, suspected, up, serving, mishaps>>

(* A running container due for it has its memory measured next.            *)
SyncMeasures ==
    LET c == seen["watch"].c IN
    /\ "memory" \in Env
    /\ Free(Watch) /\ pc[Watch] = "sync"
    /\ tracked[c] = "none"
    /\ engine[c] = "running"
    /\ Goto(Watch, "memory", <<StTo("show", c, "running")>>)
    /\ UNCHANGED <<db, engine, lock, at, tracked, holds, seen, suspected, up, serving, mishaps>>

(* enforceContainerMemoryLimit: within its cap, or nothing to measure.     *)
SyncWithinLimit ==
    /\ Free(Watch) /\ pc[Watch] = "memory"
    /\ Goto(Watch, "off", <<>>)
    /\ seen' = [seen EXCEPT !["watch"] = Nothing]
    /\ UNCHANGED <<db, engine, lock, at, tracked, holds, suspected, up, serving, mishaps>>

(* Over its cap, the container is stopped whatever it is doing; a stop     *)
(* that fails leaves the member as it is.                                  *)
SyncStopsOverLimit ==
    LET c == seen["watch"].c
        ended == IF seen["watch"].state = "running" THEN Transition(c) ELSE <<>> IN
    /\ Free(Watch) /\ pc[Watch] = "memory"
    /\ engine[c] = "running"
    /\ Mishap("memory")
    /\ \/ /\ EngineMoves(c, "stopped")
          /\ Goto(Watch, "off",
                  <<StTo("show", c, "error"), StTo("set", c, "suspended"),
                    St("endRuns", c)>> \o ended)
       \/ /\ UNCHANGED <<engine, serving>>
          /\ Goto(Watch, "off", <<StTo("show", c, "error"), St("endRuns", c)>> \o ended)
    /\ seen' = [seen EXCEPT !["watch"] = Nothing]
    /\ UNCHANGED <<db, lock, at, tracked, holds, suspected, up>>

(* destroyContainer, an operator's Remove: serving a run is no obstacle.   *)
OperatorRemoves(c) ==
    /\ Free(Operator)
    /\ row[c] # "none"
    /\ Mishap("operator")
    /\ \/ /\ EngineMoves(c, "gone")
          /\ Goto(Operator, "off",
                  <<St("close", c), St("delete", c), St("unname", c), St("endRuns", c)>>)
       \/ /\ UNCHANGED <<engine, serving>>
          /\ Goto(Operator, "off", <<St("delete", c), St("unname", c), St("endRuns", c)>>)
    /\ UNCHANGED <<db, lock, at, tracked, holds, seen, suspected, up>>

(* reapOrphanedContainers: what nothing references, seen twice.  A create  *)
(* is recorded long before the second sighting, ten minutes later.         *)
Referenced == {c \in Containers : row[c] # "none" \/ named = c}

BeingCreated(c) ==
    \E r \in Runs : at[r] = c /\ pc[Run(r)] \in {"creating", "start", "setup", "claim"}

(* What the next sweep is told this one suspected.                         *)
SightingsLost(orphans) == {}
Sightings(orphans) == orphans

Sweep ==
    LET orphans == {c \in Containers : engine[c] \in Exists} \ Referenced
        confirmed == orphans \intersect suspected IN
    /\ "reaper" \in Env
    /\ Free(Reaper)
    /\ \A c \in confirmed : ~BeingCreated(c)
    /\ suspected' = Sightings(orphans)
    /\ \/ /\ confirmed = {}
          /\ UNCHANGED <<engine, serving, mishaps, pc, todo>>
       \/ \E c \in confirmed :
             /\ EngineMoves(c, "gone")
             /\ Goto(Reaper, "off", <<St("adopt", c), St("close", c)>>)
             /\ UNCHANGED mishaps
       \/ /\ confirmed # {} /\ Mishap("faults")
          /\ UNCHANGED <<engine, serving, pc, todo>>
    /\ UNCHANGED <<db, lock, at, tracked, holds, seen, up>>

-----------------------------------------------------------------------------
(* Crash and restart                                                       *)

(* Everything the process held is gone; the tables and the engine stay.    *)
Crash ==
    /\ up
    /\ Mishap("crash")
    /\ up' = FALSE
    /\ lock' = None
    /\ pc' = IdlePc
    /\ at' = [r \in Runs |-> None]
    /\ todo' = [a \in Actors |-> <<>>]
    /\ tracked' = [c \in Containers |-> "none"]
    /\ holds' = {}
    /\ seen' = [p \in DOMAIN seen |-> Nothing]
    /\ suspected' = {}
    /\ serving' = {}
    /\ UNCHANGED <<db, engine>>

(* What a restart makes of a member's state: claims are returned           *)
(* (reclaimBusyPoolMembers), provisions failed (failInterruptedProvisions).*)
AfterRestartClaimsStay(state) ==
    IF state = "creating" THEN "error" ELSE state
AfterRestartMislabelled(state) ==
    CASE state = "busy" -> "idle" [] state = "creating" -> "stopped" [] OTHER -> state
AfterRestart(state) ==
    CASE state = "busy" -> "idle" [] state = "creating" -> "error" [] OTHER -> state

(* reconcileDatabaseOnStartup: every run in flight is failed, every claim  *)
(* returned and reopened in the ledger, every provision failed.            *)
Restart ==
    LET claimed == {c \in Containers : row[c] = "busy"} IN
    /\ ~up
    /\ up' = TRUE
    /\ live' = {}
    /\ row' = [c \in Containers |-> AfterRestart(row[c])]
    /\ \E order \in SetToSeqs(claimed) :
          todo' = [todo EXCEPT ![Boot] = [i \in DOMAIN order |-> St("open", order[i])]]
    /\ UNCHANGED <<outdated, bill, prov, named, shown, engine, lock, pc, at, tracked, holds, seen,
                   suspected, serving, mishaps>>

-----------------------------------------------------------------------------

Next ==
    \/ \E a \in Actors : Exec(a)
    \/ \E r \in Runs : RunStep(r)
    \/ \E c \in Containers :
          Background(c) \/ EngineCreates(c) \/ EngineStops(c) \/ Outside(c)
    \/ Retire \/ RetireDone
    \/ HoldRunning \/ EnsureRunning \/ EnsureStarts \/ EnsureFails \/ EnsureDone \/ ReleaseHold
    \/ \E c \in Containers : LivenessReads(c)
    \/ LivenessJudges \/ LivenessFailsWedged
    \/ SyncReads \/ SyncJudges \/ SyncMeasures \/ SyncWithinLimit \/ SyncStopsOverLimit
    \/ \E c \in Containers : OperatorRemoves(c)
    \/ Sweep
    \/ SettingsChange \/ Crash \/ Restart

Spec == Init /\ [][Next]_vars

(* A run inside the lifecycle lock goes on to leave it; outside it may     *)
(* wait or work for ever.                                                  *)
InsideStep(r) == lock = Run(r) /\ RunStep(r)

(* Statements, engine calls and crons go on happening.  The liveness pass  *)
(* keeps a cursor, so it comes to every member it keeps finding; a call    *)
(* that keeps being made is answered, since mishaps are bounded.           *)
FairSpec ==
    /\ Spec
    /\ \A a \in Actors : WF_vars(Exec(a))
    /\ \A r \in Runs : WF_vars(InsideStep(r))
    /\ \A c \in Containers :
          /\ WF_vars(Background(c))
          /\ WF_vars(EngineCreates(c))
          /\ WF_vars(EngineStops(c))
          /\ SF_vars(LivenessReads(c))
    /\ WF_vars(LivenessJudges)
    /\ WF_vars(SyncJudges)
    /\ WF_vars(SyncWithinLimit)
    /\ WF_vars(RetireDone)
    /\ WF_vars(EnsureStarts \/ EnsureFails)
    /\ WF_vars(EnsureDone)
    /\ WF_vars(Sweep)
    /\ WF_vars(Restart)

-----------------------------------------------------------------------------
(* Properties                                                              *)

(* A container serves at most one run at a time: no two runs' work is ever *)
(* executing in the same container (sandbox/pool.ts, the rule everything   *)
(* follows from).                                                          *)
OneRunPerContainer ==
    \A r, s \in serving : at[r] = at[s] => r = s

(* A stop or a removal the pool asked for is never under way on a          *)
(* container in which a run is executing (beginPoolMemberStop and the      *)
(* wait for the call in flight, against claim and resume).                 *)
RetirementSparesRuns ==
    \A c \in Containers :
        pc[Stop(c)] = "calling" \/ pc[Removal(c)] = "calling" =>
            \A r \in serving : at[r] # c

(* No retirement sets out to stop or remove a container that is held: the  *)
(* check of executeRetirementPlan is still true when the call is made.     *)
HoldsRespected ==
    [][\A c \in holds :
          /\ pc'[Stop(c)] = "calling" => pc[Stop(c)] = "calling"
          /\ pc'[Removal(c)] = "calling" => pc[Removal(c)] = "calling"]_vars

(* Held work is never in a container being taken down: a hold is "against  *)
(* retirement until the caller releases it" (holdProjectContainer).        *)
HeldStaysUp ==
    \A c \in holds : pc[Stop(c)] # "calling" /\ pc[Removal(c)] # "calling"

(* The hours a run's container spends working are metered.                 *)
WorkIsBilled ==
    \A r \in serving : pc[Run(r)] \in {"working", "running"} => bill[at[r]]

(* A member reads busy only while a run of this process still has its      *)
(* release ahead of it: no claim is leaked, and none outlives a restart.   *)
ClaimHasHolder ==
    up => \A c \in Containers : row[c] = "busy" =>
        \E r \in Runs :
            /\ at[r] = c
            /\ \/ pc[Run(r)] \in {"claimed", "working", "running"}
               \/ pc[Run(r)] = "ending" /\ todo[Run(r)] # <<>>

(* No interval stays open for ever on a container that is down or gone:    *)
(* whatever call failed or was lost with the process, the ledger stops     *)
(* billing it (settleUnaccountedUptime, reconcilePoolMembers).             *)
RestIsSettled ==
    \A c \in Containers : ~<>[](bill[c] /\ engine[c] \notin {"running", "stopping"})

(* No create request is metered for ever.                                  *)
RequestsSettled ==
    \A c \in Containers : ~<>[](c \in prov)

(* A member the pool holds up does not run unbilled for ever.              *)
MembersBilled ==
    \A c \in Containers :
        ~<>[](engine[c] = "running" /\ row[c] \in {"idle", "busy"} /\ ~bill[c])

(* A container nothing references any more is eventually removed.          *)
OrphansReaped ==
    \A c \in Containers : ~<>[](engine[c] \in Exists /\ c \notin Referenced)
=============================================================================
