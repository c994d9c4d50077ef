----------------------------- MODULE PoolLadder -----------------------------
(***************************************************************************)
(* The pool's decisions, pure as in packages/server/src/services/sandbox/  *)
(* pool.ts: which container a run gets, which idle ones are retired and    *)
(* how, and which of other projects' containers make room for a run.       *)
(*                                                                         *)
(* A member is a record [id, state, pinned, full, current, size, project]: *)
(* pinned is hasUnpushedCommits, full is atDiskCeiling, current says it is *)
(* built to the memory cap and the image a new one would be built to.      *)
(* The code takes the first match of a list; here every match is possible, *)
(* so the answer is the set of decisions some order would lead to.         *)
(***************************************************************************)
EXTENDS Integers, FiniteSets, FiniteSetsExt, SequencesExt

-----------------------------------------------------------------------------
(* selectPoolMember                                                        *)

Usable(m) == m.state # "busy" /\ ~m.full

Mismatched(members) ==
    {m \in members : m.state # "busy" /\ ~m.pinned /\ ~m.current}

Available(members) == {m \in members : Usable(m) /\ m.current}

InState(members, state) == {m \in members : m.state = state}

(* capacity: used, budget, request and reclaimable memory.                 *)
FitsBudgetBefore(capacity) == capacity.used <= capacity.budget
FitsBudget(capacity) == capacity.used + capacity.request <= capacity.budget

ShortfallOfRequest(capacity) == capacity.request - capacity.budget
Shortfall(capacity) == capacity.used + capacity.request - capacity.budget

Decision(kind, taken) == [kind |-> kind, members |-> taken]

SelectPoolMember(members, capacity) ==
    LET warm == InState(Available(members), "idle")
        cold == InState(Available(members), "suspended")
    IN
    CASE Mismatched(members) # {} -> {Decision("recycle", Mismatched(members))}
      [] Mismatched(members) = {} /\ warm # {} -> {Decision("reuse", {m}) : m \in warm}
      [] Mismatched(members) = {} /\ warm = {} /\ cold # {} /\ FitsBudget(capacity) ->
            {Decision("resume", {m}) : m \in cold}
      [] OTHER ->
            CASE FitsBudget(capacity) -> {Decision("create", {})}
              [] ~FitsBudget(capacity) /\ Shortfall(capacity) <= capacity.reclaimable ->
                    {Decision("reclaim", {})}
              [] OTHER -> {Decision("queue", {})}

-----------------------------------------------------------------------------
(* The two idle planners.  A plan suspends some members and destroys       *)
(* others; the work a pinned one holds exists nowhere else.                *)

Plan(suspend, destroy) == [suspend |-> suspend, destroy |-> destroy]

Pinned(members) == {m \in members : m.pinned}

(* Keep the first as a suspended member, destroy the rest.                 *)
KeepFirst(members) ==
    IF members = {} THEN {Plan({}, {})}
    ELSE {Plan({m}, members \ {m}) : m \in members}

(* planIdleShutdown: the whole project has gone quiet.                     *)
PlanIdleShutdown(members) ==
    LET idle == InState(members, "idle")
        pinned == Pinned(idle)
        disposable == idle \ pinned
    IN
    IF pinned # {} \/ InState(members, "suspended") # {}
    THEN {Plan(pinned, disposable)}
    ELSE KeepFirst(disposable)

(* planSurplusIdleRetirement: the stale ones among the idle, unless they   *)
(* are the only warm start left.                                           *)
PlanSurplusIdleRetirement(members, stale) ==
    LET going == {m \in InState(members, "idle") : m \in stale}
        pinned == Pinned(going)
        disposable == going \ pinned
        resumableAlready == pinned # {} \/ members \ going # {}
    IN
    IF resumableAlready THEN {Plan(pinned, disposable)} ELSE KeepFirst(disposable)

-----------------------------------------------------------------------------
(* planCrossProjectReclaim                                                 *)

Sizes(members) == MapThenSumSet(LAMBDA m : m.size, members)

(* How many of the eligible a candidate's project holds.                   *)
HeldBy(eligible, project) == Cardinality({m \in eligible : m.project = project})

(* The orders the sort can produce: the largest hoards first, and within a *)
(* hoard any, the idle clocks being whatever they are.                     *)
LosesFirst(eligible) ==
    {order \in SetToSeqs(eligible) :
        \A i, j \in DOMAIN order : i < j =>
            HeldBy(eligible, order[i].project) >= HeldBy(eligible, order[j].project)}

FirstOf(order, n) == {order[i] : i \in 1..n}

(* The candidates taken: the shortest prefix that covers the need.         *)
TakenCount(order, need) ==
    CHOOSE n \in 0..Len(order) :
        /\ Sizes(FirstOf(order, n)) >= need
        /\ n > 0 => Sizes(FirstOf(order, n - 1)) < need

(* The i-th taken leaves its project nothing else to serve a run with.     *)
StrandIgnored(order, i, resumable) == FALSE
WouldStrandVictim(order, i, resumable) ==
    Cardinality({j \in 1..i : order[j].project = order[i].project})
        >= resumable[order[i].project]

(* Those of the first n that are suspended: the rest is destroyed.         *)
KeptIfLast(order, n, resumable) ==
    {i \in 1..n : WouldStrandVictim(order, i, resumable)}
Kept(order, n, resumable) ==
    {i \in 1..n : order[i].pinned \/ WouldStrandVictim(order, i, resumable)}

(* All or nothing: no plan when the eligible cannot cover the need.        *)
PlanCrossProjectReclaim(eligible, need, resumable) ==
    IF need = 0 \/ Sizes(eligible) < need
    THEN {}
    ELSE {LET n == TakenCount(order, need)
              kept == Kept(order, n, resumable)
          IN Plan({order[i] : i \in kept}, {order[i] : i \in (1..n) \ kept})
          : order \in LosesFirst(eligible)}

-----------------------------------------------------------------------------
(* What a plan makes of a project's members.                               *)

AfterPlan(members, plan) ==
    {m \in members : m \notin plan.destroy /\ m \notin plan.suspend}
    \union {[m EXCEPT !.state = "suspended"] : m \in members \intersect plan.suspend}
=============================================================================
