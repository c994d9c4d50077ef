-------------------------------- MODULE Fleet --------------------------------
(***************************************************************************)
(* The containers of every project under one memory budget: the dispatch   *)
(* gate, the ladder a run or a chat turn acquires a container through, the *)
(* retirement passes and the reclaim of other projects' idle members       *)
(* (packages/server/src/services: containers.ts, job-manager.ts,           *)
(* run-concurrency.ts).  The decisions are module PoolLadder's; what is    *)
(* here is when they are taken, on what reading, and under which lock.     *)
(*                                                                         *)
(* Each project has its lifecycle lock; a reclaim runs under one global    *)
(* lock and takes its victims' locks one after the other.  What happens to *)
(* one member between engine and database is module ContainerPool; here a  *)
(* pass that holds a project's lock from its reading to its last write is  *)
(* one step.                                                               *)
(***************************************************************************)
EXTENDS PoolLadder

CONSTANTS
    Projects,
    Containers,
    Runs,        \* task runs and chat turns; an identity is reused once it ended
    Home,        \* Home[r]: the project run r belongs to
    Chats,       \* the runs that are chat turns
    Cap,         \* Cap[p]: the memory a container of p is built with
    Budget,      \* max_container_memory_gb
    ChatLane,    \* the share of it task runs are not admitted to
    Env,         \* the parts of the environment a configuration switches on
    None

ASSUME FleetAssumption ==
    /\ IsFiniteSet(Projects) /\ IsFiniteSet(Containers)
    /\ Home \in [Runs -> Projects]
    /\ Chats \subseteq Runs
    /\ Cap \in [Projects -> Nat \ {0}]
    /\ Budget \in Nat
    /\ ChatLane \in 0..Budget
    /\ Env \subseteq {"unpushed", "disk", "settings", "retire", "faults"}
    /\ None \notin Projects \union Containers \union Runs

VARIABLES
    state,      \* container_pool_members.state, "none" without a row
    owner,      \* the project a container was built for
    pinned,     \* has_unpushed_commits
    full,       \* disk used has reached the ceiling
    outdated,   \* not built to today's cap and image
    rested,     \* past both floors of a reclaim, on the idle and the age clock
    chatted,    \* last given back by a chat turn (chat_released_at is set)
    pc,         \* where each run is
    at,         \* at[r]: the container run r is concerned with
    lock,       \* lock[p]: the run inside p's lifecycle lock
    slot,       \* slot[r]: does r hold a pending-start slot
    need,       \* need[r]: what a reclaim has to free
    plan,       \* plan[r]: what the reclaim under way has still to retire
    reclaiming  \* the run inside the reclaim lock

members == <<state, owner, pinned, full, outdated, rested, chatted>>
claims == <<pc, at, lock, slot>>
reclaims == <<need, plan, reclaiming>>
vars == <<members, claims, reclaims>>

MemberState == {"none", "creating", "idle", "busy", "suspended"}
RunPc == {"idle", "warm", "cold", "ladder", "creating", "recorded", "resuming",
          "claiming", "working", "starved", "reclaiming"}
NoPlan == Plan({}, {})

TypeOK ==
    /\ state \in [Containers -> MemberState]
    /\ owner \in [Containers -> Projects \union {None}]
    /\ pinned \subseteq Containers
    /\ full \subseteq Containers
    /\ outdated \subseteq Containers
    /\ rested \subseteq Containers
    /\ chatted \subseteq Containers
    /\ pc \in [Runs -> RunPc]
    /\ at \in [Runs -> Containers \union {None}]
    /\ lock \in [Projects -> Runs \union {None}]
    /\ slot \in [Runs -> BOOLEAN]
    /\ need \in [Runs -> Nat]
    /\ plan \in [Runs -> [suspend : SUBSET Containers, destroy : SUBSET Containers]]
    /\ reclaiming \in Runs \union {None}

Init ==
    /\ state = [c \in Containers |-> "none"]
    /\ owner = [c \in Containers |-> None]
    /\ pinned = {} /\ full = {} /\ outdated = {} /\ rested = {} /\ chatted = {}
    /\ pc = [r \in Runs |-> "idle"]
    /\ at = [r \in Runs |-> None]
    /\ lock = [p \in Projects |-> None]
    /\ slot = [r \in Runs |-> FALSE]
    /\ need = [r \in Runs |-> 0]
    /\ plan = [r \in Runs |-> NoPlan]
    /\ reclaiming = None

-----------------------------------------------------------------------------
(* What the passes read                                                    *)

Member(c) ==
    [id |-> c, state |-> state[c], pinned |-> c \in pinned, full |-> c \in full,
     current |-> c \notin outdated, size |-> Cap[owner[c]], project |-> owner[c]]

(* loadPoolMembers leaves out a member still being built.                  *)
Members(p) ==
    {Member(c) : c \in {d \in Containers :
                          owner[d] = p /\ state[d] \in {"idle", "busy", "suspended"}}}

Ids(ms) == {m.id : m \in ms}

(* getActiveContainers: the memory promised to running containers,         *)
Counted == {"creating", "idle", "busy"}
UsedMemory ==
    MapThenSumSet(LAMBDA c : Cap[owner[c]], {c \in Containers : state[c] \in Counted})

(* the projects that can serve a run without starting one,                 *)
HasSpare(p) == \E c \in Containers : owner[c] = p /\ state[c] = "idle" /\ c \notin full

(* and the idle members another project could have retired.                *)
Reclaimable(p) == {c \in rested : state[c] = "idle" /\ owner[c] # p}
ReclaimableMemory(p) == MapThenSumSet(LAMBDA c : Cap[owner[c]], Reclaimable(p))

TaskBudget == Budget - ChatLane
Ceiling(r) == IF r \in Chats THEN Budget ELSE TaskBudget

Capacity(r) ==
    [used |-> UsedMemory, budget |-> Ceiling(r), request |-> Cap[Home[r]],
     reclaimable |-> ReclaimableMemory(Home[r])]

-----------------------------------------------------------------------------
(* Dispatch: isContainerCapacityBlocked, then the launch that takes a      *)
(* pending-start slot for as long as the run lasts.                        *)

Pending(p) == \E r \in Runs : slot[r] /\ Home[r] = p
PendingMemory ==
    MapThenSumSet(LAMBDA p : Cap[p], {p \in Projects : Pending(p) /\ ~HasSpare(p)})

CapacityBlocked(p) ==
    /\ ~HasSpare(p)
    /\ ~Pending(p)
    /\ UsedMemory + PendingMemory + Cap[p] > TaskBudget + ReclaimableMemory(p)

(* The verdict, and with it whether a container will have to be started.   *)
Gate(r) ==
    LET p == Home[r] IN
    /\ r \notin Chats
    /\ pc[r] = "idle"
    /\ ~CapacityBlocked(p)
    /\ pc' = [pc EXCEPT ![r] = IF HasSpare(p) THEN "warm" ELSE "cold"]
    /\ UNCHANGED <<members, at, lock, slot, reclaims>>

Launch(r) ==
    /\ pc[r] \in {"warm", "cold"}
    /\ pc' = [pc EXCEPT ![r] = "ladder"]
    /\ slot' = [slot EXCEPT ![r] = pc[r] = "cold"]
    /\ UNCHANGED <<members, at, lock, reclaims>>

(* A chat turn goes straight to the ladder.                                *)
StartTurn(r) ==
    /\ r \in Chats
    /\ pc[r] = "idle"
    /\ pc' = [pc EXCEPT ![r] = "ladder"]
    /\ UNCHANGED <<members, at, lock, slot, reclaims>>

-----------------------------------------------------------------------------
(* The ladder: acquireRunContainer                                         *)

(* The lock is left before a reclaim, which takes other projects' locks.   *)
HeldThroughout(r) == r
HeldIntoReclaim(r) == None

(* Members taken out of service.                                           *)
Retired(suspend, destroy) ==
    /\ state' = [c \in Containers |-> CASE c \in destroy -> "none"
                                        [] c \in suspend \ destroy -> "suspended"
                                        [] OTHER -> state[c]]
    /\ owner' = [c \in Containers |-> IF c \in destroy THEN None ELSE owner[c]]
    /\ pinned' = pinned \ destroy
    /\ full' = full \ destroy
    /\ outdated' = outdated \ destroy
    /\ rested' = rested \ (suspend \union destroy)
    /\ chatted' = chatted \ destroy

Offered(r, kind) ==
    {d \in SelectPoolMember(Members(Home[r]), Capacity(r)) : d.kind = kind}

AtLadder(r) == pc[r] = "ladder" /\ lock[Home[r]] = None

(* Reuse or resume: the decision is acted on inside the lock.              *)
TakeMember(r) ==
    /\ AtLadder(r)
    /\ \E kind \in {"reuse", "resume"} : \E d \in Offered(r, kind) : \E m \in d.members :
          /\ at' = [at EXCEPT ![r] = m.id]
          /\ pc' = [pc EXCEPT ![r] = IF kind = "reuse" THEN "claiming" ELSE "resuming"]
    /\ lock' = [lock EXCEPT ![Home[r]] = r]
    /\ UNCHANGED <<members, slot, reclaims>>

(* A container nobody has, or is about to have.                            *)
Unused(c) ==
    /\ state[c] = "none"
    /\ \A r \in Runs : at[r] # c /\ c \notin plan[r].suspend \union plan[r].destroy

Create(r) ==
    /\ AtLadder(r)
    /\ Offered(r, "create") # {}
    /\ \E c \in Containers : Unused(c) /\ at' = [at EXCEPT ![r] = c]
    /\ pc' = [pc EXCEPT ![r] = "creating"]
    /\ lock' = [lock EXCEPT ![Home[r]] = r]
    /\ UNCHANGED <<members, slot, reclaims>>

(* Members not built to today's figures are cleared and the ladder asked   *)
(* again.                                                                  *)
Recycle(r) ==
    /\ AtLadder(r)
    /\ \E d \in Offered(r, "recycle") : Retired({}, Ids(d.members))
    /\ UNCHANGED <<claims, reclaims>>

Starve(r) ==
    /\ AtLadder(r)
    /\ Offered(r, "reclaim") # {}
    /\ pc' = [pc EXCEPT ![r] = "starved"]
    /\ need' = [need EXCEPT ![r] = Shortfall(Capacity(r))]
    /\ lock' = [lock EXCEPT ![Home[r]] = HeldIntoReclaim(r)]
    /\ UNCHANGED <<members, at, slot, plan, reclaiming>>

(* A run the ladder told to queue asks again until it gives up.            *)
GiveUp(r) ==
    /\ pc[r] = "ladder"
    /\ pc' = [pc EXCEPT ![r] = "idle"]
    /\ slot' = [slot EXCEPT ![r] = FALSE]
    /\ UNCHANGED <<members, at, lock, reclaims>>

(* The member row appears once the engine has answered the create.         *)
RecordCreate(r) ==
    LET c == at[r] IN
    /\ pc[r] = "creating"
    /\ state' = [state EXCEPT ![c] = "creating"]
    /\ owner' = [owner EXCEPT ![c] = Home[r]]
    /\ pc' = [pc EXCEPT ![r] = "recorded"]
    /\ UNCHANGED <<pinned, full, outdated, rested, chatted, at, lock, slot, reclaims>>

(* The provision is through, or the suspended container is up again.       *)
Ready(r) ==
    /\ pc[r] \in {"recorded", "resuming"}
    /\ state' = [state EXCEPT ![at[r]] = "idle"]
    /\ pc' = [pc EXCEPT ![r] = "claiming"]
    /\ UNCHANGED <<owner, pinned, full, outdated, rested, chatted, at, lock,
                   slot, reclaims>>

ProvisionFails(r) ==
    /\ "faults" \in Env
    /\ pc[r] \in {"creating", "recorded"}
    /\ Retired({}, {at[r]})
    /\ pc' = [pc EXCEPT ![r] = "idle"]
    /\ at' = [at EXCEPT ![r] = None]
    /\ lock' = [lock EXCEPT ![Home[r]] = None]
    /\ slot' = [slot EXCEPT ![r] = FALSE]
    /\ UNCHANGED reclaims

Claim(r) ==
    /\ pc[r] = "claiming"
    /\ state[at[r]] = "idle"
    /\ state' = [state EXCEPT ![at[r]] = "busy"]
    /\ rested' = rested \ {at[r]}
    /\ chatted' = chatted \ {at[r]}
    /\ pc' = [pc EXCEPT ![r] = "working"]
    /\ lock' = [lock EXCEPT ![Home[r]] = None]
    /\ UNCHANGED <<owner, pinned, full, outdated, at, slot, reclaims>>

(* A run ends: what it left unpushed and the disk it used are recorded,    *)
(* then the container is given back.                                       *)
End(r) ==
    LET c == at[r] IN
    /\ pc[r] = "working"
    /\ state' = [state EXCEPT ![c] = "idle"]
    /\ \/ pinned' = pinned
       \/ /\ "unpushed" \in Env /\ r \notin Chats
          /\ pinned' \in {pinned \union {c}, pinned \ {c}}
    /\ \/ full' = full
       \/ "disk" \in Env /\ full' = full \union {c}
    /\ chatted' = IF r \in Chats THEN chatted \union {c} ELSE chatted \ {c}
    /\ pc' = [pc EXCEPT ![r] = "idle"]
    /\ at' = [at EXCEPT ![r] = None]
    /\ slot' = [slot EXCEPT ![r] = FALSE]
    /\ UNCHANGED <<owner, outdated, rested, lock, reclaims>>

-----------------------------------------------------------------------------
(* Reclaim: reclaimIdleCapacityForProject                                  *)

Eligible(r) == {Member(c) : c \in Reclaimable(Home[r])}
Resumable == [p \in Projects |-> Cardinality(Members(p))]

(* Under the global lock: scan, plan.                                      *)
PlanReclaim(r) ==
    /\ pc[r] = "starved"
    /\ reclaiming = None
    /\ \E chosen \in PlanCrossProjectReclaim(Eligible(r), need[r], Resumable) :
          plan' = [plan EXCEPT ![r] = Plan(Ids(chosen.suspend), Ids(chosen.destroy))]
    /\ reclaiming' = r
    /\ pc' = [pc EXCEPT ![r] = "reclaiming"]
    /\ UNCHANGED <<members, at, lock, slot, need>>

(* Nothing to reclaim after all: the run queues.                           *)
NothingToReclaim(r) ==
    /\ pc[r] = "starved"
    /\ reclaiming = None
    /\ PlanCrossProjectReclaim(Eligible(r), need[r], Resumable) = {}
    /\ pc' = [pc EXCEPT ![r] = "ladder"]
    /\ need' = [need EXCEPT ![r] = 0]
    /\ UNCHANGED <<members, at, lock, slot, plan, reclaiming>>

(* One victim project, under its lock: a member claimed since the scan is  *)
(* left alone.                                                             *)
AnyState(c) == state[c] # "none"
StillIdle(c) == state[c] = "idle"

Evict(r, v) ==
    LET planned == {c \in plan[r].suspend \union plan[r].destroy : owner[c] = v}
        live == {c \in planned : StillIdle(c)} IN
    /\ pc[r] = "reclaiming"
    /\ planned # {}
    /\ lock[v] = None
    /\ Retired(plan[r].suspend \intersect live, plan[r].destroy \intersect live)
    /\ plan' = [plan EXCEPT ![r] = Plan(@.suspend \ planned, @.destroy \ planned)]
    /\ UNCHANGED <<claims, need, reclaiming>>

(* Back to the ladder, with or without anything freed.                     *)
EndReclaim(r) ==
    /\ pc[r] = "reclaiming"
    /\ \A c \in plan[r].suspend \union plan[r].destroy : owner[c] = None
    /\ plan' = [plan EXCEPT ![r] = NoPlan]
    /\ need' = [need EXCEPT ![r] = 0]
    /\ reclaiming' = None
    /\ pc' = [pc EXCEPT ![r] = "ladder"]
    /\ UNCHANGED <<members, at, lock, slot>>

-----------------------------------------------------------------------------
(* The idle passes, each under the project's lock                          *)

Launched(p) ==
    {r \in Runs \ Chats : Home[r] = p /\ pc[r] \notin {"idle", "warm", "cold"}}

MayRetire(p) == "retire" \in Env /\ lock[p] = None /\ ~Pending(p)

(* shutDownIdlePool: the project has gone quiet.                           *)
ShutDownIdlePool(p) ==
    /\ MayRetire(p)
    /\ Launched(p) = {}
    /\ InState(Members(p), "idle") # {}
    /\ \E chosen \in PlanIdleShutdown(Members(p)) :
          Retired(Ids(chosen.suspend), Ids(chosen.destroy))
    /\ UNCHANGED <<claims, reclaims>>

(* Members past the release grace.  Past the floors of a reclaim is past   *)
(* the grace too, and a chat keeps at most one of them warm.               *)
StaleMembers(p) ==
    LET idle == InState(Members(p), "idle")
        longIdle == {m \in idle : m.id \in rested} IN
    {stale \in SUBSET idle :
        /\ stale # {}
        /\ Ids(longIdle \ stale) \subseteq chatted
        /\ Cardinality(longIdle \ stale) <= 1}

(* retireIdleMembersOfProject: unless a run on its way is about to take    *)
(* one.                                                                    *)
RetireIdleMembers(p) ==
    /\ MayRetire(p)
    /\ \A r \in Launched(p) : pc[r] = "working"
    /\ \E stale \in StaleMembers(p) :
          \E chosen \in PlanSurplusIdleRetirement(Members(p), stale) :
                Retired(Ids(chosen.suspend), Ids(chosen.destroy))
    /\ UNCHANGED <<claims, reclaims>>

(* retireDormantContainers: suspended, and not wanted for a week.          *)
RetireDormant(p) ==
    /\ MayRetire(p)
    /\ \E m \in InState(Members(p), "suspended") \ Pinned(Members(p)) : Retired({}, {m.id})
    /\ UNCHANGED <<claims, reclaims>>

(* The clocks: an idle member passes the floors of a reclaim, which a run  *)
(* about to claim it does not take long enough for.                        *)
Rest(c) ==
    /\ state[c] = "idle"
    /\ c \notin rested
    /\ \A r \in Runs : at[r] # c
    /\ rested' = rested \union {c}
    /\ UNCHANGED <<state, owner, pinned, full, outdated, chatted, claims, reclaims>>

(* A new agent image.                                                      *)
SettingsChange ==
    /\ "settings" \in Env
    /\ outdated' = {c \in Containers : state[c] # "none"}
    /\ UNCHANGED <<state, owner, pinned, full, rested, chatted, claims, reclaims>>

-----------------------------------------------------------------------------

RunStep(r) ==
    \/ Gate(r) \/ Launch(r) \/ StartTurn(r) \/ TakeMember(r) \/ Create(r)
    \/ Recycle(r) \/ Starve(r) \/ GiveUp(r) \/ RecordCreate(r) \/ Ready(r)
    \/ ProvisionFails(r) \/ Claim(r) \/ End(r) \/ PlanReclaim(r)
    \/ NothingToReclaim(r) \/ EndReclaim(r)

Next ==
    \/ \E r \in Runs : RunStep(r)
    \/ \E r \in Runs, v \in Projects : Evict(r, v)
    \/ \E p \in Projects : ShutDownIdlePool(p) \/ RetireIdleMembers(p) \/ RetireDormant(p)
    \/ \E c \in Containers : Rest(c)
    \/ SettingsChange

Spec == Init /\ [][Next]_vars

(* What runs inside a lock goes on; a lock that keeps coming free is       *)
(* granted in the end, its queue being first come first served (module     *)
(* KeyedLock, PlainServed).                                                *)
FairSpec ==
    /\ Spec
    /\ \A r \in Runs :
          /\ WF_vars(RecordCreate(r))
          /\ WF_vars(Ready(r))
          /\ WF_vars(Claim(r))
          /\ WF_vars(EndReclaim(r))
          /\ SF_vars(PlanReclaim(r) \/ NothingToReclaim(r))
          /\ \A v \in Projects : SF_vars(Evict(r, v))

-----------------------------------------------------------------------------
(* Properties                                                              *)

(* No more running container memory than the operator's total: what        *)
(* getActiveContainers counts never exceeds it ("so the ceiling is never   *)
(* exceeded", isContainerCapacityBlocked).                                 *)
BudgetKept == UsedMemory <= Budget

(* An idle pass never takes a project's last warm start: whatever members  *)
(* it has and whichever of them are stale, both planners leave one, and    *)
(* neither destroys one that holds the only copy of its commits.           *)
IdlePlansKeepFloor ==
    \A p \in Projects :
        LET ms == Members(p) IN
        \A stale \in SUBSET ms :
            \A chosen \in PlanIdleShutdown(ms) \union PlanSurplusIdleRetirement(ms, stale) :
                /\ ms # {} => AfterPlan(ms, chosen) # {}
                /\ \A m \in chosen.destroy : m.state = "idle" /\ ~m.pinned
                /\ \A m \in chosen.suspend : m.state = "idle" /\ m \notin chosen.destroy

(* A reclaim plan carried out at once frees the shortfall and stops there: *)
(* there is one it took, the last, without which the rest would not have   *)
(* been enough.  (Those before it may turn out dispensable: with two to    *)
(* find, one of size one and then one of size two are both taken.)  It     *)
(* destroys no unpushed work and leaves each victim project a member to    *)
(* serve its next run with.                                                *)
ReclaimPlansTight ==
    \A p \in Projects : \A n \in 1..Budget :
        LET eligible == {Member(c) : c \in Reclaimable(p)} IN
        \A chosen \in PlanCrossProjectReclaim(eligible, n, Resumable) :
            LET taken == chosen.suspend \union chosen.destroy IN
            /\ Sizes(taken) >= n
            /\ \E m \in taken : Sizes(taken \ {m}) < n
            /\ \A m \in chosen.destroy : ~m.pinned
            /\ \A v \in Projects : Members(v) # {} => AfterPlan(Members(v), chosen) # {}

(* What a run is on is its own: from the decision to the claim it is       *)
(* inside its project's lock, the member it is about to start or claim is  *)
(* its project's and in the state the decision found it in, no two runs    *)
(* are creating the same container and no two are working in one           *)
(* (acquireRunContainer, claimPoolMember).                                 *)
InsideLock ==
    \A r \in Runs :
        pc[r] \in {"creating", "recorded", "resuming", "claiming"} => lock[Home[r]] = r

OnItsRung ==
    \A r \in Runs :
        /\ pc[r] = "creating" => at[r] \in Containers /\ state[at[r]] = "none"
        /\ pc[r] = "recorded" => at[r] \in Containers /\ state[at[r]] = "creating"
        /\ pc[r] = "resuming" => at[r] \in Containers /\ state[at[r]] = "suspended"
        /\ pc[r] = "claiming" => at[r] \in Containers /\ state[at[r]] = "idle"
        /\ pc[r] = "working" => at[r] \in Containers /\ state[at[r]] = "busy"
        /\ pc[r] \in {"recorded", "resuming", "claiming"} => owner[at[r]] = Home[r]

NotShared ==
    \A r, s \in Runs :
        (r # s /\ pc[r] = pc[s] /\ pc[r] \in {"creating", "working"}) => at[r] # at[s]

LadderInv == InsideLock /\ OnItsRung /\ NotShared

(* No pass takes a container a run is working in: a claim ends with its    *)
(* own run.                                                                *)
ClaimsSpared ==
    [][\A c \in Containers : (state[c] = "busy" /\ state'[c] # "busy") =>
          \E r \in Runs : at[r] = c /\ pc[r] = "working" /\ pc'[r] = "idle"]_vars

(* A container that holds unpushed commits is never destroyed: the work    *)
(* exists nowhere else (PoolMember.hasUnpushedCommits: "must not be        *)
(* recycled").                                                             *)
PinnedKept ==
    [][\A c \in pinned : state'[c] # "none"]_vars

(* Only a reclaim that another project planned before the commits were     *)
(* made destroys a container that holds unpushed ones, and nobody plans to *)
(* destroy one that already does (every planner's look at                  *)
(* hasUnpushedCommits; planCrossProjectReclaim's is not repeated when the  *)
(* plan is carried out).                                                   *)
PinnedSpared ==
    [][\A c \in pinned :
          /\ state'[c] = "none" => \E r \in Runs : c \in plan[r].destroy /\ owner[c] # Home[r]
          /\ \A r \in Runs : c \in plan'[r].destroy => c \in plan[r].destroy]_vars

(* Starved projects do not wait for each other for ever: a reclaim under   *)
(* way, or wanted, gets back to the ladder.                                *)
ReclaimEnds ==
    \A r \in Runs : (pc[r] \in {"starved", "reclaiming"}) ~> (pc[r] = "ladder")
=============================================================================
