------------------------- MODULE WakeupQueueProofs -------------------------
(* Proofs about WakeupQueue, for any number of agents, tasks, asks, rows   *)
(* and runs, any part of the environment and any number of mishaps.        *)
EXTENDS WakeupQueue, TLAPS

(* A row that is there names its agent and its task.                       *)
Whole(row) == row.status # "none" => row.member \in Members /\ row.task \in Tasks
RowsKnown == \A w \in Rows : Whole(wake[w])

(* A run that was launched names its agent, its task and its wakeup, which *)
(* is still there.                                                         *)
Present(x) == x.status # "none" \/ x.pc # "none"
Named(x) == x.wakeup \in Rows /\ x.member \in Members /\ x.task \in Tasks
RunsKnown ==
    \A r \in Runs : Present(run[r]) => Named(run[r]) /\ wake[run[r].wakeup].status # "none"

(* So are the rows a dispatch has in hand or is yet to look at.            *)
InHand == {"write", "activate", "launch"}
DispKnown ==
    \A d \in Dispatchers :
        /\ disp[d].pc \in InHand => disp[d].row \in Rows /\ wake[disp[d].row].status # "none"
        /\ \A b \in disp[d].batch : wake[b.row].status # "none"

(* And the run or the row the orphan detector has in hand.                 *)
SweepKnown ==
    /\ sweep.pc \in {"handback", "retry"} => sweep.run \in Runs /\ run[sweep.run].status # "none"
    /\ sweep.pc = "retry" => run[sweep.run].strikes > 0
    /\ sweep.pc = "heal" => sweep.row \in Rows /\ wake[sweep.row].status # "none" /\ sweep.verdict # ""

(* The types, and what every reference to a row or a run rests on.         *)
TypeInv == TypeOK /\ RowsKnown /\ RunsKnown /\ DispKnown /\ SweepKnown

-----------------------------------------------------------------------------
(* What a step does to the wakeups: a row that is there stays there and    *)
(* keeps its agent and its task.                                           *)
RowKept(o, n) ==
    /\ n \in WakeRows
    /\ Whole(n)
    /\ o.status # "none" => n.status # "none" /\ n.member = o.member /\ n.task = o.task
WakeKept(f) == f \in [Rows -> WakeRows] /\ \A w \in Rows : RowKept(wake[w], f[w])

Statuses == Open \cup TerminalWakeup

(* A row whose status alone changes.                                       *)
LEMMA StatusKept ==
  ASSUME NEW o \in WakeRows, Whole(o), o.status # "none", NEW s \in Statuses
  PROVE  RowKept(o, [o EXCEPT !.status = s])
<1>1. /\ [o EXCEPT !.status = s] \in WakeRows
      /\ [o EXCEPT !.status = s].status = s
      /\ [o EXCEPT !.status = s].member = o.member
      /\ [o EXCEPT !.status = s].task = o.task
  BY DEF WakeRows, Statuses
<1>2. s # "none"
  BY DEF Statuses, Open, TerminalWakeup
<1>3. QED
  BY <1>1, <1>2 DEF RowKept, Whole

(* A row that does not change.                                             *)
LEMMA SameKept ==
  ASSUME NEW o \in WakeRows, Whole(o)
  PROVE  RowKept(o, o)
BY DEF RowKept

(* One row changes and the others do not.                                  *)
LEMMA OneKept ==
  ASSUME TypeOK, RowsKnown, NEW w \in Rows, NEW n, RowKept(wake[w], n)
  PROVE  WakeKept([wake EXCEPT ![w] = n])
<1>1. wake \in [Rows -> WakeRows]
  BY DEF TypeOK
<1>2. n \in WakeRows
  BY DEF RowKept
<1>3. \A v \in Rows : RowKept(wake[v], wake[v])
  BY <1>1, SameKept DEF RowsKnown
<1>4. QED
  BY <1>1, <1>2, <1>3 DEF WakeKept

LEMMA NoneKept ==
  ASSUME TypeOK, RowsKnown
  PROVE  WakeKept(wake)
<1>1. wake \in [Rows -> WakeRows]
  BY DEF TypeOK
<1>2. QED
  BY <1>1, SameKept DEF RowsKnown, WakeKept

LEMMA PutKept ==
  ASSUME TypeOK, RowsKnown, NEW w \in Rows, wake[w].status # "none", NEW s \in Statuses
  PROVE  WakeKept(Put(w, s))
<1>1. wake \in [Rows -> WakeRows]
  BY DEF TypeOK
<1>2. RowKept(wake[w], [wake[w] EXCEPT !.status = s])
  BY <1>1, StatusKept DEF RowsKnown
<1>3. Put(w, s) = [wake EXCEPT ![w] = [wake[w] EXCEPT !.status = s]]
  BY <1>1 DEF Put
<1>4. QED
  BY <1>2, <1>3, OneKept

(* A row that is parked, with the reason.                                  *)
LEMMA DeferKept ==
  ASSUME TypeOK, RowsKnown, NEW w \in Rows, wake[w].status # "none", NEW y \in {"blocked", "repo"}
  PROVE  WakeKept([wake EXCEPT ![w].status = "deferred", ![w].why = y])
<1>1. wake \in [Rows -> WakeRows]
  BY DEF TypeOK
<1>2. RowKept(wake[w], [wake[w] EXCEPT !.status = "deferred", !.why = y])
  <2>1. wake[w] \in WakeRows
    BY <1>1
  <2>2. /\ [wake[w] EXCEPT !.status = "deferred", !.why = y] \in WakeRows
        /\ [wake[w] EXCEPT !.status = "deferred", !.why = y].status = "deferred"
        /\ [wake[w] EXCEPT !.status = "deferred", !.why = y].member = wake[w].member
        /\ [wake[w] EXCEPT !.status = "deferred", !.why = y].task = wake[w].task
    BY <2>1 DEF WakeRows, Open
  <2>3. QED
    BY <2>2 DEF RowKept, Whole, RowsKnown
<1>3. [wake EXCEPT ![w].status = "deferred", ![w].why = y] = [wake EXCEPT ![w] = [wake[w] EXCEPT !.status = "deferred", !.why = y]]
  BY <1>1, Zenon
<1>4. QED
  BY <1>2, <1>3, OneKept

(* A whole set of rows that change their status.                           *)
LEMMA AllKept ==
  ASSUME TypeOK, RowsKnown, NEW S, NEW s \in Statuses,
         \A w \in Rows : w \in S => wake[w].status # "none"
  PROVE  WakeKept([w \in Rows |-> IF w \in S THEN [wake[w] EXCEPT !.status = s] ELSE wake[w]])
<1>1. wake \in [Rows -> WakeRows]
  BY DEF TypeOK
<1>2. ASSUME NEW w \in Rows
      PROVE  RowKept(wake[w], IF w \in S THEN [wake[w] EXCEPT !.status = s] ELSE wake[w])
  BY <1>1, StatusKept, SameKept DEF RowsKnown
<1>3. QED
  BY <1>2 DEF WakeKept, RowKept

(* A trigger that merges into a queued row, or makes a row of its own.     *)
LEMMA TriggerKept ==
  ASSUME QueueAssumption,
         NEW o \in WakeRows, Whole(o), o.status \in {"queued", "none"},
         NEW m \in Members, NEW t \in Tasks, NEW s \in Sources, NEW k \in Nat, NEW A \in SUBSET Asks
  PROVE  RowKept(o, Trigger(o, m, t, s, k, A))
<1>1. CASE o.status = "queued"
  <2> DEFINE src == IF s \in Exempt /\ o.source \notin Exempt THEN s ELSE o.source
             str == IF k > 0 THEN k ELSE o.strikes
  <2>1. src \in Sources /\ str \in Nat /\ o.asks \cup A \in SUBSET Asks
    BY DEF WakeRows
  <2>2. Trigger(o, m, t, s, k, A) = [o EXCEPT !.source = src, !.strikes = str, !.asks = o.asks \cup A]
    BY <1>1 DEF Trigger, WakeRows
  <2> HIDE DEF src, str
  <2>3. /\ [o EXCEPT !.source = src, !.strikes = str, !.asks = o.asks \cup A] \in WakeRows
        /\ [o EXCEPT !.source = src, !.strikes = str, !.asks = o.asks \cup A].status = o.status
        /\ [o EXCEPT !.source = src, !.strikes = str, !.asks = o.asks \cup A].member = o.member
        /\ [o EXCEPT !.source = src, !.strikes = str, !.asks = o.asks \cup A].task = o.task
    BY <2>1 DEF WakeRows
  <2>4. QED
    BY <2>2, <2>3 DEF RowKept, Whole
<1>2. CASE o.status = "none"
  <2> DEFINE n == [status |-> "queued", member |-> m, task |-> t, source |-> s, why |-> "",
                   strikes |-> k, asks |-> A]
  <2>1. Trigger(o, m, t, s, k, A) = n
    BY <1>2 DEF Trigger, NoRow
  <2>2. n \in WakeRows /\ n.member = m /\ n.task = t
    BY DEF WakeRows, Open
  <2> HIDE DEF n
  <2>3. QED
    BY <1>2, <2>1, <2>2 DEF RowKept, Whole
<1>3. QED
  BY <1>1, <1>2

(* createWakeup by the server.                                             *)
LEMMA CreateKept ==
  ASSUME QueueAssumption, TypeOK, RowsKnown,
         NEW m \in Members, NEW t \in Tasks, NEW s \in Sources, NEW k \in Nat, NEW A \in SUBSET Asks,
         Create(m, t, s, k, A)
  PROVE  WakeKept(wake')
<1>1. wake \in [Rows -> WakeRows]
  BY DEF TypeOK
<1>2. PICK w \in CreateTargets(m, t) : wake' = [wake EXCEPT ![w] = Trigger(@, m, t, s, k, A)]
  BY DEF Create
<1>3. w \in Rows /\ wake[w].status \in {"queued", "none"}
  BY DEF CreateTargets, Queued, First, Unused
<1>4. wake' = [wake EXCEPT ![w] = Trigger(wake[w], m, t, s, k, A)]
  BY <1>1, <1>2, <1>3
<1>5. RowKept(wake[w], Trigger(wake[w], m, t, s, k, A))
  BY <1>1, <1>3, TriggerKept DEF RowsKnown
<1>6. QED
  BY <1>3, <1>4, <1>5, OneKept

(* retryOrEscalateLostRun.                                                 *)
LEMMA RetryKept ==
  ASSUME QueueAssumption, TypeOK, RowsKnown, RunsKnown, NEW r \in Runs, Present(run[r]),
         NEW k \in Nat, RetryOrEscalate(r, k)
  PROVE  WakeKept(wake')
<1>1. run[r].seen \in SUBSET Asks
  BY DEF TypeOK, RunRows
<1>2. Named(run[r])
  BY DEF RunsKnown
<1>3. CASE k + 1 < MaxRetries
  <2>1. Create(run[r].member, run[r].task, "timer", k + 1, run[r].seen)
    BY <1>3 DEF RetryOrEscalate
  <2>2. QED
    BY <1>1, <1>2, <2>1, CreateKept, SMTT(40) DEF Named, Sources
<1>4. CASE ~(k + 1 < MaxRetries)
  BY <1>4, NoneKept DEF RetryOrEscalate
<1>5. QED
  BY <1>3, <1>4

(* The steps that leave the wakeups alone.                                 *)
LEMMA WakeFrame ==
  ASSUME \/ \E a \in Asks : PostSelect(a)
         \/ \E w \in Rows : PressReads(w) \/ HealReads(w)
         \/ \E t \in Tasks : Block(t)
         \/ DesignateRepo
         \/ \E b \in disp["cron"].batch : CronSkips(b) \/ CronReads(b)
         \/ \E d \in Dispatchers : Proceeds(d)
         \/ \E r \in Runs : \/ CreateRun(r) \/ Start(r) \/ Succeed(r) \/ Fail(r) \/ Abort(r)
                            \/ HandBack(r) \/ Throw(r) \/ Release(r) \/ Reap(r)
         \/ \E l \in Members \X Tasks : HealLock(l)
         \/ \E m \in Members : ReapDispatch(m)
  PROVE  wake' = wake
BY ZenonT(60) DEF PostSelect, PressReads, HealReads, Block, DesignateRepo, CronSkips, CronReads, Proceeds,
       CreateRun, Start, Succeed, Fail, Abort, HandBack, Throw, Release, Reap, HealLock, ReapDispatch

LEMMA WakeRequests ==
  ASSUME QueueAssumption, TypeInv, Requests
  PROVE  WakeKept(wake')
<1>0. TypeOK /\ RowsKnown /\ RunsKnown /\ wake \in [Rows -> WakeRows]
  BY DEF TypeInv, TypeOK
<1>1. CASE \E a \in Asks : PostWrite(a)
  <2>1. PICK a \in Asks : PostWrite(a)
    BY <1>1
  <2>2. PICK w \in IF Merges(a) THEN {target[a]} ELSE First(Unused) :
           wake' = [wake EXCEPT ![w] = Trigger(@, For[a].member, For[a].task, For[a].source, 0, {a})]
    BY <2>1 DEF PostWrite
  <2>3. w \in Rows /\ wake[w].status \in {"queued", "none"}
    BY <1>0 DEF Merges, First, Unused, TypeOK
  <2>4. For[a].member \in Members /\ For[a].task \in Tasks /\ For[a].source \in Sources
    BY DEF QueueAssumption
  <2>5. RowKept(wake[w], Trigger(wake[w], For[a].member, For[a].task, For[a].source, 0, {a}))
    BY <1>0, <2>3, <2>4, TriggerKept DEF RowsKnown
  <2>6. wake' = [wake EXCEPT ![w] = Trigger(wake[w], For[a].member, For[a].task, For[a].source, 0, {a})]
    BY <1>0, <2>2, <2>3
  <2>7. QED
    BY <1>0, <2>3, <2>5, <2>6, OneKept
<1>2. CASE \E w \in Rows : CancelWakeup(w)
  BY <1>0, <1>2, PutKept DEF CancelWakeup, Statuses, TerminalWakeup
<1>3. CASE \E t \in Tasks : Unblock(t)
  <2>1. PICK t \in Tasks : Unblock(t)
    BY <1>3
  <2> DEFINE m == Assignee[t]
             parked == {w \in Rows : About(w, m, t) /\ wake[w].status = "deferred" /\ wake[w].why = "blocked"}
  <2>2. m \in Members
    BY DEF QueueAssumption
  <2>3. \/ wake' = [w \in Rows |-> IF w \in parked THEN [wake[w] EXCEPT !.status = "queued"] ELSE wake[w]]
        \/ Create(m, t, "assignment", 0, {})
        \/ wake' = wake
    BY <2>1 DEF Unblock
  <2>4. \A w \in Rows : w \in parked => wake[w].status # "none"
    OBVIOUS
  <2>5. "queued" \in Statuses /\ "assignment" \in Sources /\ 0 \in Nat /\ {} \in SUBSET Asks
    BY DEF Statuses, Open, Sources
  <2> HIDE DEF m, parked
  <2>6. CASE wake' = [w \in Rows |-> IF w \in parked THEN [wake[w] EXCEPT !.status = "queued"] ELSE wake[w]]
    <3>1. "queued" \in Statuses
      BY <2>5
    <3>2. QED
      BY <1>0, <2>4, <2>6, <3>1, AllKept, ZenonT(60)
  <2>7. CASE Create(m, t, "assignment", 0, {})
    BY <1>0, <2>2, <2>5, <2>7, CreateKept
  <2>8. QED
    BY <1>0, <2>3, <2>6, <2>7, NoneKept
<1>4. CASE \E r \in Runs : Terminate(r)
  <2>1. PICK r \in Runs : Terminate(r)
    BY <1>4
  <2>2. run[r].wakeup \in Rows /\ wake[run[r].wakeup].status # "none"
    BY <1>0, <2>1 DEF Terminate, ActiveRun, Unfinished, RunsKnown, Present, Named
  <2>3. wake' = wake \/ wake' = Put(run[r].wakeup, "cancelled")
    BY <2>1 DEF Terminate
  <2>4. "cancelled" \in Statuses
    BY DEF Statuses, TerminalWakeup
  <2>5. CASE wake' = wake
    BY <1>0, <2>5, NoneKept
  <2>6. CASE wake' = Put(run[r].wakeup, "cancelled")
    BY <1>0, <2>2, <2>4, <2>6, PutKept
  <2>7. QED
    BY <2>3, <2>5, <2>6
<1>5. CASE wake' = wake
  BY <1>0, <1>5, NoneKept
<1>6. QED
  BY <1>1, <1>2, <1>3, <1>4, <1>5, WakeFrame DEF Requests

LEMMA WakeDispatch ==
  ASSUME QueueAssumption, TypeInv,
         Cron \/ PressWrites \/ \E d \in Dispatchers : Refuses(d) \/ PutsOff(d) \/ Proceeds(d) \/ Launch(d)
  PROVE  WakeKept(wake')
<1>0. TypeOK /\ RowsKnown /\ DispKnown /\ wake \in [Rows -> WakeRows] /\ {"cron", "press"} = Dispatchers
  BY DEF TypeInv, TypeOK, Dispatchers
<1>s. {"queued", "claimed", "deferred", "coalesced", "skipped", "completed", "failed"} \subseteq Statuses
  BY DEF Statuses, Open, TerminalWakeup
<1>d. ASSUME NEW d \in Dispatchers, disp[d].pc \in InHand
      PROVE  /\ WakeKept(wake)
             /\ \A s \in Statuses : WakeKept(Put(disp[d].row, s))
             /\ \A y \in {"blocked", "repo"} :
                   WakeKept([wake EXCEPT ![disp[d].row].status = "deferred", ![disp[d].row].why = y])
  <2>1. disp[d].row \in Rows /\ wake[disp[d].row].status # "none"
    BY <1>0, <1>d DEF DispKnown
  <2>2. WakeKept(wake)
    BY <1>0, NoneKept
  <2>3. \A s \in Statuses : WakeKept(Put(disp[d].row, s))
    BY <1>0, <2>1, PutKept
  <2>4. \A y \in {"blocked", "repo"} :
          WakeKept([wake EXCEPT ![disp[d].row].status = "deferred", ![disp[d].row].why = y])
    BY <1>0, <2>1, DeferKept
  <2>5. QED
    BY <2>2, <2>3, <2>4
<1>1. CASE CronScan
  <2> DEFINE released == {w \in Rows : repo /\ wake[w].status = "deferred" /\ wake[w].why = "repo"}
  <2>1. wake' = [w \in Rows |-> IF w \in released THEN [wake[w] EXCEPT !.status = "queued"] ELSE wake[w]]
    BY <1>1 DEF CronScan
  <2>2. \A w \in Rows : w \in released => wake[w].status # "none"
    OBVIOUS
  <2> HIDE DEF released
  <2>3. QED
    BY <1>0, <1>s, <2>1, <2>2, AllKept, ZenonT(60)
<1>2. CASE CronWrites \/ PressWrites
  <2>1. PICK d \in Dispatchers :
           /\ disp[d].pc = "write"
           /\ \/ wake' = wake
              \/ \E s \in {"coalesced", "claimed"} : wake' = Put(disp[d].row, s)
              \/ wake' = [wake EXCEPT ![disp[d].row].status = "deferred", ![disp[d].row].why = "blocked"]
    BY <1>0, <1>2 DEF CronWrites, PressWrites
  <2>2. /\ WakeKept(wake)
        /\ \A s \in Statuses : WakeKept(Put(disp[d].row, s))
        /\ \A y \in {"blocked", "repo"} :
              WakeKept([wake EXCEPT ![disp[d].row].status = "deferred", ![disp[d].row].why = y])
    BY <1>d, <2>1, Zenon DEF InHand
  <2>3. QED
    BY <1>s, <2>1, <2>2, Zenon
<1>3. CASE \E d \in Dispatchers : Refuses(d) \/ PutsOff(d)
  <2>1. PICK d \in Dispatchers :
           /\ disp[d].pc = "activate"
           /\ \/ wake' = wake
              \/ \E s \in {"skipped", "completed", "failed", "queued"} : wake' = Put(disp[d].row, s)
              \/ wake' = [wake EXCEPT ![disp[d].row].status = "deferred", ![disp[d].row].why = "repo"]
    BY <1>3, SMTT(40) DEF Refuses, PutsOff
  <2>2. /\ WakeKept(wake)
        /\ \A s \in Statuses : WakeKept(Put(disp[d].row, s))
        /\ \A y \in {"blocked", "repo"} :
              WakeKept([wake EXCEPT ![disp[d].row].status = "deferred", ![disp[d].row].why = y])
    BY <1>d, <2>1, Zenon DEF InHand
  <2>3. QED
    BY <1>s, <2>1, <2>2, ZenonT(60)
<1>4. CASE \E d \in Dispatchers : Launch(d)
  <2>1. PICK d \in Dispatchers : Launch(d)
    BY <1>4
  <2> DEFINE w == disp[d].row
             others == Queued(wake[w].member, wake[w].task) \ {w}
  <2>3. \/ \E s \in {"deferred", "queued"} : wake' = Put(w, s)
        \/ wake' = [v \in Rows |-> IF v \in others THEN [wake[v] EXCEPT !.status = "coalesced"] ELSE wake[v]]
    BY <2>1, ZenonT(60) DEF Launch
  <2>4. \A v \in Rows : v \in others => wake[v].status # "none"
    BY SMTT(40) DEF Queued
  <2>5. \A s \in Statuses : WakeKept(Put(w, s))
    BY <1>d, <2>1, ZenonT(60) DEF Launch, InHand
  <2> HIDE DEF w, others
  <2>6. CASE wake' = [v \in Rows |-> IF v \in others THEN [wake[v] EXCEPT !.status = "coalesced"] ELSE wake[v]]
    BY <1>0, <1>s, <2>4, <2>6, AllKept, ZenonT(60)
  <2>7. QED
    BY <1>s, <2>3, <2>5, <2>6
<1>5. CASE wake' = wake
  BY <1>0, <1>5, NoneKept
<1>6. QED
  BY <1>1, <1>2, <1>3, <1>4, <1>5, WakeFrame DEF Cron

LEMMA WakeRuns ==
  ASSUME QueueAssumption, TypeInv,
         \/ \E r \in Runs : CreateRun(r) \/ Start(r) \/ Finish(r) \/ Settle(r) \/ Release(r)
         \/ Sweep
         \/ \E m \in Members : ReapDispatch(m)
  PROVE  WakeKept(wake')
<1>0. /\ TypeOK /\ RowsKnown /\ RunsKnown /\ SweepKnown
      /\ wake \in [Rows -> WakeRows] /\ run \in [Runs -> RunRows] /\ sweep \in Sweeps
  BY DEF TypeInv, TypeOK
<1>s. {"queued", "failed", "completed"} \subseteq Statuses
  BY DEF Statuses, Open, TerminalWakeup
<1>1. CASE \E r \in Runs : Lose(r)
  <2>1. PICK r \in Runs : Lose(r)
    BY <1>1
  <2>2. run[r].strikes \in Nat /\ Present(run[r]) /\ RetryOrEscalate(r, run[r].strikes)
    BY <1>0, <2>1 DEF Lose, Present, RunRows
  <2>3. QED
    BY <1>0, <2>2, RetryKept
<1>2. CASE \E r \in Runs : Settle(r)
  <2>1. PICK r \in Runs : Settle(r)
    BY <1>2
  <2>2. run[r].wakeup \in Rows /\ wake[run[r].wakeup].status # "none"
    BY <1>0, <2>1 DEF Settle, RunsKnown, Present, Named
  <2>3. wake' = wake \/ \E s \in {"queued", "failed", "completed"} : wake' = Put(run[r].wakeup, s)
    BY <2>1 DEF Settle, Outcome
  <2>4. \A s \in Statuses : WakeKept(Put(run[r].wakeup, s))
    BY <1>0, <2>2, PutKept
  <2>5. QED
    BY <1>0, <1>s, <2>3, <2>4, NoneKept
<1>3. CASE HandBackNeverStarted
  <2> DEFINE r == sweep.run
  <2>1. r \in Runs /\ Present(run[r])
    BY <1>0, <1>3 DEF HandBackNeverStarted, SweepKnown, Present
  <2> HIDE DEF r
  <2>2. Named(run[r]) /\ run[r].strikes + 1 \in Nat /\ run[r].seen \in SUBSET Asks
    <3>1. run[r].strikes \in Nat /\ run[r].seen \in SUBSET Asks
      BY <1>0, <2>1 DEF RunRows
    <3>2. QED
      BY <1>0, <2>1, <3>1 DEF RunsKnown
  <2>3. wake[run[r].wakeup].source \in Sources /\ wake[run[r].wakeup].status # "none"
    BY <1>0, <2>1, <2>2 DEF Named, WakeRows, RunsKnown
  <2>4. \/ wake' = wake
        \/ wake' = Put(run[r].wakeup, "queued")
        \/ Create(run[r].member, run[r].task, wake[run[r].wakeup].source, run[r].strikes + 1, run[r].seen)
    BY <1>3 DEF HandBackNeverStarted, r
  <2>5. WakeKept(Put(run[r].wakeup, "queued"))
    BY <1>0, <1>s, <2>2, <2>3, PutKept DEF Named
  <2>6. CASE Create(run[r].member, run[r].task, wake[run[r].wakeup].source, run[r].strikes + 1, run[r].seen)
    BY <1>0, <2>2, <2>3, <2>6, CreateKept DEF Named
  <2>7. QED
    BY <1>0, <2>4, <2>5, <2>6, NoneKept
<1>4. CASE RetryOrphan
  <2>1. sweep.run \in Runs /\ Present(run[sweep.run]) /\ run[sweep.run].strikes - 1 \in Nat
    <3>1. sweep.run \in Runs /\ Present(run[sweep.run]) /\ run[sweep.run].strikes > 0
      BY <1>0, <1>4 DEF RetryOrphan, SweepKnown, Present
    <3>2. run[sweep.run].strikes \in Nat
      BY <1>0, <3>1 DEF RunRows
    <3>3. QED
      BY <3>1, <3>2
  <2>2. QED
    BY <1>0, <1>4, <2>1, RetryKept DEF RetryOrphan
<1>5. CASE HealWrites
  BY <1>0, <1>s, <1>5, PutKept DEF HealWrites, SweepKnown, Sweeps
<1>6. CASE wake' = wake
  BY <1>0, <1>6, NoneKept
<1>7. QED
  BY <1>1, <1>2, <1>3, <1>4, <1>5, <1>6, WakeFrame DEF Finish, Sweep

LEMMA WakeRestart ==
  ASSUME QueueAssumption, TypeInv, Restart
  PROVE  WakeKept(wake')
<1>0. /\ TypeOK /\ RowsKnown /\ RunsKnown
      /\ wake \in [Rows -> WakeRows] /\ run \in [Runs -> RunRows]
  BY DEF TypeInv, TypeOK
<1> DEFINE cut == {r \in Runs : ActiveRun(r)}
           pairs == {<<run[r].member, run[r].task>> : r \in cut}
           lost(p) == UNION {run[r].seen : r \in {q \in cut : <<run[q].member, run[q].task>> = p}}
<1>1. PICK f \in [pairs -> Rows] :
        /\ \A p \in pairs : f[p] \in IF Queued(p[1], p[2]) # {} THEN Queued(p[1], p[2]) ELSE Unused
        /\ wake' = [w \in Rows |->
                       IF \E p \in pairs : f[p] = w
                       THEN Trigger(wake[w], (CHOOSE p \in pairs : f[p] = w)[1],
                                    (CHOOSE p \in pairs : f[p] = w)[2], "timer", 0,
                                    lost(CHOOSE p \in pairs : f[p] = w))
                       ELSE wake[w]]
  BY DEF Restart
<1>2. \A p \in pairs : p[1] \in Members /\ p[2] \in Tasks
  BY <1>0 DEF ActiveRun, Unfinished, RunsKnown, Present, Named
<1>3. \A p : lost(p) \in SUBSET Asks
  <2>1. \A r \in Runs : run[r].seen \in SUBSET Asks
    BY <1>0 DEF RunRows
  <2>2. ASSUME NEW p, NEW a \in lost(p)
        PROVE  a \in Asks
    <3>1. PICK r \in Runs : a \in run[r].seen
      OBVIOUS
    <3>2. QED
      BY <2>1, <3>1
  <2>3. QED
    BY <2>2
<1>4. \A p \in pairs : wake[f[p]].status \in {"queued", "none"}
  BY <1>1 DEF Queued, Unused
<1> HIDE DEF pairs, lost
<1>5. ASSUME NEW w \in Rows
      PROVE  RowKept(wake[w], wake'[w])
  <2>1. CASE \E p \in pairs : f[p] = w
    <3> DEFINE p == CHOOSE p \in pairs : f[p] = w
    <3>1. p \in pairs /\ f[p] = w
      BY <2>1
    <3>2. wake'[w] = Trigger(wake[w], p[1], p[2], "timer", 0, lost(p))
      BY <1>1, <2>1
    <3> HIDE DEF p
    <3>3. p[1] \in Members /\ p[2] \in Tasks /\ lost(p) \in SUBSET Asks /\ wake[w].status \in {"queued", "none"}
      BY <1>2, <1>3, <1>4, <3>1
    <3>4. wake[w] \in WakeRows /\ Whole(wake[w]) /\ "timer" \in Sources /\ 0 \in Nat
      BY <1>0 DEF RowsKnown, Sources
    <3>5. QED
      BY <3>2, <3>3, <3>4, TriggerKept
  <2>2. CASE ~\E p \in pairs : f[p] = w
    BY <1>0, <1>1, <2>2, SameKept DEF RowsKnown
  <2>3. QED
    BY <2>1, <2>2
<1>6. QED
  BY <1>1, <1>5 DEF WakeKept, RowKept

(* Every step but Forget keeps the rows.                                   *)
LEMMA WakeStep ==
  ASSUME QueueAssumption, TypeInv, Work
  PROVE  WakeKept(wake')
BY WakeRequests, WakeDispatch, WakeRuns, WakeRestart DEF Work, Activation

-----------------------------------------------------------------------------
(* What a step does to a run that was launched: it stays the run of its    *)
(* wakeup, its agent and its task; its strikes only grow; a verdict, once  *)
(* there, stands; and only a launch that goes on makes it unfinished.      *)
RunMoved(o, n) ==
    /\ n \in RunRows
    /\ n.wakeup = o.wakeup /\ n.member = o.member /\ n.task = o.task /\ n.strikes >= o.strikes
    /\ o.status # "none" => n.status # "none"
    /\ n.status # "none" => o.status # "none" \/ o.pc = "launched"
    /\ o.status \in TerminalRun => n.status = o.status
    /\ n.status \in Unfinished => o.status \in Unfinished \/ o.pc = "launched"
    /\ n.pc # "none" => o.pc # "none"
    /\ n.pc = "launched" => o.pc = "launched" /\ n.status = o.status /\ n.reaped = o.reaped
    /\ o.reaped => n.reaped
RunsMoved(g) == g \in [Runs -> RunRows] /\ \A r \in Runs : RunMoved(run[r], g[r])

(* Most steps also leave it driven, and do not take its key away.          *)
RunSteady(o, n) == RunMoved(o, n) /\ (o.pc # "none" => n.pc # "none") /\ n.reaped = o.reaped
RunsSteady(g) == g \in [Runs -> RunRows] /\ \A r \in Runs : RunSteady(run[r], g[r])

(* A run that was launched has no row yet, and has not been given up.      *)
Fresh == \A r \in Runs : run[r].pc = "launched" => run[r].status = "none" /\ ~run[r].reaped

LEMMA SameSteady ==
  ASSUME NEW o \in RunRows
  PROVE  RunSteady(o, o)
<1>1. o.strikes \in Nat
  BY DEF RunRows
<1>2. o.strikes >= o.strikes
  BY <1>1
<1>3. QED
  BY <1>2 DEF RunSteady, RunMoved

LEMMA OneSteady ==
  ASSUME TypeOK, NEW r \in Runs, NEW n, RunSteady(run[r], n)
  PROVE  RunsSteady([run EXCEPT ![r] = n])
<1>1. run \in [Runs -> RunRows]
  BY DEF TypeOK
<1>2. n \in RunRows
  BY DEF RunSteady, RunMoved
<1>3. \A q \in Runs : RunSteady(run[q], run[q])
  BY <1>1, SameSteady
<1>4. QED
  BY <1>1, <1>2, <1>3 DEF RunsSteady

LEMMA NoneSteady ==
  ASSUME TypeOK
  PROVE  RunsSteady(run)
<1>1. run \in [Runs -> RunRows]
  BY DEF TypeOK
<1>2. QED
  BY <1>1, SameSteady DEF RunsSteady

LEMMA RestampSteady ==
  ASSUME TypeOK, NEW W
  PROVE  RunsSteady(Restamped(W))
<1>1. run \in [Runs -> RunRows]
  BY DEF TypeOK
<1>2. ASSUME NEW r \in Runs
      PROVE  RunSteady(run[r], [run[r] EXCEPT !.covers = @ \ W])
  <2>1. run[r] \in RunRows
    BY <1>1
  <2> DEFINE n == [run[r] EXCEPT !.covers = @ \ W]
  <2>2. /\ n \in RunRows
        /\ n.status = run[r].status /\ n.pc = run[r].pc /\ n.reaped = run[r].reaped
        /\ n.wakeup = run[r].wakeup /\ n.member = run[r].member /\ n.task = run[r].task
        /\ n.strikes = run[r].strikes /\ n.strikes \in Nat
    BY <2>1 DEF RunRows
  <2> HIDE DEF n
  <2>3. n.strikes >= run[r].strikes
    BY <2>2
  <2>4. QED
    BY <2>2, <2>3 DEF RunSteady, RunMoved, n
<1>3. QED
  BY <1>2, ZenonT(60) DEF RunsSteady, RunSteady, Restamped, RunMoved

LEMMA FinalizedSteady ==
  ASSUME TypeOK, Fresh, NEW r \in Runs, run[r].pc \in {"parked", "working"},
         NEW s \in TerminalRun, NEW v \in {"success", "fail", "lost", "handback"}
  PROVE  RunsSteady(Finalized(r, s, v))
<1>1. run \in [Runs -> RunRows]
  BY DEF TypeOK
<1> DEFINE x == IF run[r].status \in Unfinished THEN s ELSE run[r].status
<1>2. Finalized(r, s, v) = [run EXCEPT ![r] = [run[r] EXCEPT !.status = x, !.pc = "finalized", !.verdict = v]]
  BY <1>1 DEF Finalized
<1>3. /\ x \in Unfinished \cup TerminalRun \cup {"none"}
      /\ run[r].status # "none" <=> x # "none"
      /\ run[r].status \in TerminalRun => x = run[r].status
      /\ x \notin Unfinished
  BY <1>1 DEF RunRows, Unfinished, TerminalRun
<1> HIDE DEF x
<1>4. RunSteady(run[r], [run[r] EXCEPT !.status = x, !.pc = "finalized", !.verdict = v])
  <2>1. run[r] \in RunRows
    BY <1>1
  <2> DEFINE n == [run[r] EXCEPT !.status = x, !.pc = "finalized", !.verdict = v]
  <2>2. /\ n \in RunRows
        /\ n.status = x /\ n.pc = "finalized" /\ n.reaped = run[r].reaped
        /\ n.wakeup = run[r].wakeup /\ n.member = run[r].member /\ n.task = run[r].task
        /\ n.strikes = run[r].strikes /\ n.strikes \in Nat
    BY <1>3, <2>1, ZenonT(60) DEF RunRows
  <2> HIDE DEF n
  <2>3. n.strikes >= run[r].strikes
    BY <2>2
  <2>4. RunSteady(run[r], n)
    BY <1>3, <2>2, <2>3 DEF RunSteady, RunMoved
  <2>5. QED
    BY <2>4 DEF n
<1>5. QED
  BY <1>2, <1>4, OneSteady, ZenonT(60)

(* The steps that leave the runs alone.                                    *)
LEMMA RunFrame ==
  ASSUME \/ \E a \in Asks : PostSelect(a) \/ PostWrite(a)
         \/ \E w \in Rows : CancelWakeup(w) \/ PressReads(w) \/ HealReads(w)
         \/ \E t \in Tasks : Block(t)
         \/ DesignateRepo
         \/ \E b \in disp["cron"].batch : CronSkips(b) \/ CronReads(b)
         \/ CronWrites \/ PressWrites
         \/ \E d \in Dispatchers : Refuses(d) \/ PutsOff(d) \/ Proceeds(d)
         \/ \E l \in Members \X Tasks : HealLock(l)
         \/ RetryOrphan \/ HealWrites
  PROVE  run' = run
BY DEF PostSelect, PostWrite, CancelWakeup, PressReads, HealReads, Block, DesignateRepo, CronSkips,
       CronReads, CronWrites, PressWrites, Refuses, PutsOff, Proceeds, HealLock, RetryOrphan, HealWrites

LEMMA RunRequests ==
  ASSUME TypeInv, Fresh, Requests \/ Cron
  PROVE  RunsSteady(run')
<1>0. TypeOK /\ Fresh /\ run \in [Runs -> RunRows]
  BY DEF TypeInv, TypeOK
<1>1. CASE CronScan \/ \E t \in Tasks : Unblock(t)
  <2>1. run' = run \/ \E W : run' = Restamped(W)
    BY <1>1 DEF CronScan, Unblock
  <2>2. QED
    BY <1>0, <2>1, RestampSteady, NoneSteady
<1>2. CASE \E r \in Runs : Terminate(r) /\ r \in live
  <2>1. PICK r \in Runs : Terminate(r) /\ r \in live
    BY <1>2
  <2>t. run[r] \in RunRows /\ run[r].strikes \in Nat
    BY <1>0 DEF RunRows
  <2> DEFINE n == [run[r] EXCEPT !.aborted = TRUE]
  <2>2. run' = [run EXCEPT ![r] = n]
    BY <1>0, <2>1 DEF Terminate
  <2>3. /\ n \in RunRows
        /\ n.status = run[r].status /\ n.pc = run[r].pc /\ n.reaped = run[r].reaped /\ n.wakeup = run[r].wakeup /\ n.member = run[r].member /\ n.task = run[r].task /\ n.strikes = run[r].strikes
    BY <2>t DEF RunRows, Unfinished, TerminalRun
  <2> HIDE DEF n
  <2>4. n.strikes >= run[r].strikes
    BY <2>t, <2>3
  <2>5. RunSteady(run[r], n)
    BY <1>0, <2>1, <2>3, <2>4 DEF RunSteady, RunMoved, Fresh, Terminate, ActiveRun, Unfinished, TerminalRun
  <2>6. QED
    BY <1>0, <2>2, <2>5, OneSteady
<1>3. CASE \E r \in Runs : Terminate(r) /\ r \notin live
  <2>1. PICK r \in Runs : Terminate(r) /\ r \notin live
    BY <1>3
  <2>t. run[r] \in RunRows /\ run[r].strikes \in Nat
    BY <1>0 DEF RunRows
  <2> DEFINE n == [run[r] EXCEPT !.status = "cancelled"]
  <2>2. run' = [run EXCEPT ![r] = n]
    BY <1>0, <2>1 DEF Terminate
  <2>3. /\ n \in RunRows
        /\ n.status = "cancelled"
        /\ n.pc = run[r].pc /\ n.reaped = run[r].reaped /\ n.wakeup = run[r].wakeup /\ n.member = run[r].member /\ n.task = run[r].task /\ n.strikes = run[r].strikes
    BY <2>t DEF RunRows, Unfinished, TerminalRun
  <2> HIDE DEF n
  <2>4. n.strikes >= run[r].strikes
    BY <2>t, <2>3
  <2>5. RunSteady(run[r], n)
    BY <1>0, <2>1, <2>3, <2>4 DEF RunSteady, RunMoved, Fresh, Terminate, ActiveRun, Unfinished, TerminalRun
  <2>6. QED
    BY <1>0, <2>2, <2>5, OneSteady
<1>4. CASE run' = run
  BY <1>0, <1>4, NoneSteady
<1>5. QED
  BY <1>1, <1>2, <1>3, <1>4, RunFrame DEF Requests, Cron

LEMMA RunDrivers ==
  ASSUME TypeInv, Fresh, \E r \in Runs : CreateRun(r) \/ Start(r) \/ Finish(r) \/ Settle(r)
  PROVE  RunsSteady(run')
<1>0. TypeOK /\ Fresh /\ run \in [Runs -> RunRows]
  BY DEF TypeInv, TypeOK
<1>1. CASE \E r \in Runs : CreateRun(r)
  <2>1. PICK r \in Runs : CreateRun(r)
    BY <1>1
  <2>t. run[r] \in RunRows /\ run[r].strikes \in Nat
    BY <1>0 DEF RunRows
  <2> DEFINE n == [run[r] EXCEPT !.status = "queued", !.pc = "parked"]
  <2>2. run' = [run EXCEPT ![r] = n]
    BY <1>0, <2>1 DEF CreateRun
  <2>3. /\ n \in RunRows
        /\ n.status = "queued"
        /\ n.pc = "parked"
        /\ n.reaped = run[r].reaped /\ n.wakeup = run[r].wakeup /\ n.member = run[r].member /\ n.task = run[r].task /\ n.strikes = run[r].strikes
    BY <2>t DEF RunRows, Unfinished, TerminalRun
  <2> HIDE DEF n
  <2>4. n.strikes >= run[r].strikes
    BY <2>t, <2>3
  <2>5. RunSteady(run[r], n)
    BY <1>0, <2>1, <2>3, <2>4 DEF RunSteady, RunMoved, Fresh, CreateRun, ActiveRun, Unfinished, TerminalRun
  <2>6. QED
    BY <1>0, <2>2, <2>5, OneSteady
<1>2. CASE \E r \in Runs : Start(r) /\ run[r].status = "queued"
  <2>1. PICK r \in Runs : Start(r) /\ run[r].status = "queued"
    BY <1>2
  <2>t. run[r] \in RunRows /\ run[r].strikes \in Nat
    BY <1>0 DEF RunRows
  <2> DEFINE m == run[r].member
             t == run[r].task
             sn == run[r].seen \cup Owed(m, t)
             cv == {w \in Rows : About(w, m, t) /\ wake[w].status \in Open /\ wake[w].source = "assignment"}
  <2>e. sn \in SUBSET Asks /\ cv \in SUBSET Rows
    BY <2>t DEF RunRows, Owed
  <2> DEFINE n == [run[r] EXCEPT !.status = "running", !.pc = "working", !.seen = sn, !.covers = cv]
  <2>2. run' = [run EXCEPT ![r] = n]
    BY <1>0, <2>1, <2>e DEF Start
  <2>3. /\ n \in RunRows
        /\ n.status = "running"
        /\ n.pc = "working"
        /\ n.reaped = run[r].reaped /\ n.wakeup = run[r].wakeup /\ n.member = run[r].member /\ n.task = run[r].task /\ n.strikes = run[r].strikes
    BY <2>t, <2>e, ZenonT(60) DEF RunRows, Unfinished, TerminalRun
  <2> HIDE DEF n
  <2>4. n.strikes >= run[r].strikes
    BY <2>t, <2>3, <2>e
  <2>5. RunSteady(run[r], n)
    BY <1>0, <2>1, <2>3, <2>4, <2>e DEF RunSteady, RunMoved, Fresh, Start, ActiveRun, Unfinished, TerminalRun
  <2>6. QED
    BY <1>0, <2>2, <2>5, OneSteady
<1>3. CASE \E r \in Runs : Start(r) /\ run[r].status # "queued"
  <2>1. PICK r \in Runs : Start(r) /\ run[r].status # "queued"
    BY <1>3
  <2>t. run[r] \in RunRows /\ run[r].strikes \in Nat
    BY <1>0 DEF RunRows
  <2> DEFINE n == [run[r] EXCEPT !.pc = "finalized", !.verdict = "fail"]
  <2>2. run' = [run EXCEPT ![r] = n]
    BY <1>0, <2>1 DEF Start
  <2>3. /\ n \in RunRows
        /\ n.pc = "finalized"
        /\ n.status = run[r].status /\ n.reaped = run[r].reaped /\ n.wakeup = run[r].wakeup /\ n.member = run[r].member /\ n.task = run[r].task /\ n.strikes = run[r].strikes
    BY <2>t, ZenonT(60) DEF RunRows, Unfinished, TerminalRun
  <2> HIDE DEF n
  <2>4. n.strikes >= run[r].strikes
    BY <2>t, <2>3
  <2>5. RunSteady(run[r], n)
    BY <1>0, <2>1, <2>3, <2>4 DEF RunSteady, RunMoved, Fresh, Start, ActiveRun, Unfinished, TerminalRun
  <2>6. QED
    BY <1>0, <2>2, <2>5, OneSteady
<1>4. CASE \E r \in Runs : Succeed(r) \/ Fail(r) \/ Abort(r) \/ HandBack(r)
  <2>1. PICK r \in Runs, s \in TerminalRun, v \in {"success", "fail", "lost", "handback"} :
           run[r].pc \in {"parked", "working"} /\ run' = Finalized(r, s, v)
    BY <1>4 DEF Succeed, Fail, Abort, HandBack, TerminalRun
  <2>2. QED
    BY <1>0, <2>1, FinalizedSteady
<1>5. CASE \E r \in Runs : Lose(r)
  <2>1. PICK r \in Runs : Lose(r)
    BY <1>5
  <2>t. run[r] \in RunRows /\ run[r].strikes \in Nat
    BY <1>0 DEF RunRows
  <2> DEFINE x == IF run[r].status \in Unfinished THEN "failed" ELSE run[r].status
  <2>e. /\ x \in Unfinished \cup TerminalRun \cup {"none"}
        /\ run[r].status # "none" <=> x # "none"
        /\ run[r].status \in TerminalRun => x = run[r].status
        /\ x \notin Unfinished
    BY <2>t DEF RunRows, Unfinished, TerminalRun
  <2> DEFINE n == [run[r] EXCEPT !.status = x, !.pc = "finalized", !.verdict = "lost", !.strikes = run[r].strikes + 1]
  <2>2. run' = [run EXCEPT ![r] = n]
    <3> DEFINE f == [run[r] EXCEPT !.status = x, !.pc = "finalized", !.verdict = "lost"]
    <3>1. Finalized(r, "failed", "lost") = [run EXCEPT ![r] = f]
      BY <1>0 DEF Finalized
    <3>2. run' = [run EXCEPT ![r] = [f EXCEPT !.strikes = @ + 1]]
      BY <1>0, <2>1, <3>1, Zenon DEF Lose
    <3>3. [f EXCEPT !.strikes = @ + 1] = n
      BY <2>t DEF RunRows
    <3>4. QED
      BY <3>2, <3>3
  <2> HIDE DEF x
  <2>3. /\ n \in RunRows
        /\ n.status = x
        /\ n.pc = "finalized"
        /\ n.strikes = run[r].strikes + 1
        /\ n.reaped = run[r].reaped /\ n.wakeup = run[r].wakeup /\ n.member = run[r].member /\ n.task = run[r].task
    <3> DEFINE k == run[r].strikes + 1
    <3>1. k \in Nat
      BY <2>t
    <3> HIDE DEF k
    <3>2. /\ [run[r] EXCEPT !.status = x, !.pc = "finalized", !.verdict = "lost", !.strikes = k] \in RunRows
          /\ [run[r] EXCEPT !.status = x, !.pc = "finalized", !.verdict = "lost", !.strikes = k].strikes = k
      BY <2>t, <2>e, <3>1, ZenonT(60) DEF RunRows
    <3>3. n \in RunRows /\ n.strikes = run[r].strikes + 1
      BY <3>2 DEF k
    <3>4. QED
      BY <2>t, <3>3 DEF RunRows
  <2> HIDE DEF n
  <2>4. n.strikes >= run[r].strikes
    BY <2>t, <2>3
  <2>5. RunSteady(run[r], n)
    BY <1>0, <2>1, <2>3, <2>4, <2>e DEF RunSteady, RunMoved, Fresh, Lose, ActiveRun, Unfinished, TerminalRun
  <2>6. QED
    BY <1>0, <2>2, <2>5, OneSteady
<1>6. CASE \E r \in Runs : Throw(r)
  <2>1. PICK r \in Runs : Throw(r)
    BY <1>6
  <2>t. run[r] \in RunRows /\ run[r].strikes \in Nat
    BY <1>0 DEF RunRows
  <2> DEFINE v == IF run[r].pc = "launched" THEN "fail" ELSE "lost"
  <2> DEFINE n == [run[r] EXCEPT !.pc = "finalized", !.verdict = v]
  <2>2. run' = [run EXCEPT ![r] = n]
    BY <1>0, <2>1 DEF Throw
  <2>3. /\ n \in RunRows
        /\ n.pc = "finalized"
        /\ n.status = run[r].status /\ n.reaped = run[r].reaped /\ n.wakeup = run[r].wakeup /\ n.member = run[r].member /\ n.task = run[r].task /\ n.strikes = run[r].strikes
    BY <2>t, ZenonT(60) DEF RunRows, Unfinished, TerminalRun
  <2> HIDE DEF n
  <2>4. n.strikes >= run[r].strikes
    BY <2>t, <2>3
  <2>5. RunSteady(run[r], n)
    BY <1>0, <2>1, <2>3, <2>4 DEF RunSteady, RunMoved, Fresh, Throw, ActiveRun, Unfinished, TerminalRun
  <2>6. QED
    BY <1>0, <2>2, <2>5, OneSteady
<1>7. CASE \E r \in Runs : Settle(r)
  <2>1. PICK r \in Runs : Settle(r)
    BY <1>7
  <2>t. run[r] \in RunRows /\ run[r].strikes \in Nat
    BY <1>0 DEF RunRows
  <2> DEFINE n == [run[r] EXCEPT !.pc = "settled"]
  <2>2. run' = [run EXCEPT ![r] = n]
    BY <1>0, <2>1 DEF Settle
  <2>3. /\ n \in RunRows
        /\ n.pc = "settled"
        /\ n.status = run[r].status /\ n.reaped = run[r].reaped /\ n.wakeup = run[r].wakeup /\ n.member = run[r].member /\ n.task = run[r].task /\ n.strikes = run[r].strikes
    BY <2>t DEF RunRows, Unfinished, TerminalRun
  <2> HIDE DEF n
  <2>4. n.strikes >= run[r].strikes
    BY <2>t, <2>3
  <2>5. RunSteady(run[r], n)
    BY <1>0, <2>1, <2>3, <2>4 DEF RunSteady, RunMoved, Fresh, Settle, ActiveRun, Unfinished, TerminalRun
  <2>6. QED
    BY <1>0, <2>2, <2>5, OneSteady
<1>8. QED
  BY <1>1, <1>2, <1>3, <1>4, <1>5, <1>6, <1>7 DEF Finish

LEMMA RunSweeps ==
  ASSUME TypeInv, Fresh, Sweep
  PROVE  RunsSteady(run')
<1>0. TypeOK /\ Fresh /\ SweepKnown /\ run \in [Runs -> RunRows]
  BY DEF TypeInv, TypeOK
<1>1. CASE \E r \in Runs : Reap(r)
  <2>1. PICK r \in Runs : Reap(r)
    BY <1>1
  <2>t. run[r] \in RunRows /\ run[r].strikes \in Nat
    BY <1>0 DEF RunRows
  <2> DEFINE x == IF run[r].status = "queued" THEN "cancelled" ELSE "failed"
             k == IF run[r].status = "queued" THEN run[r].strikes ELSE run[r].strikes + 1
  <2>e. x \in {"cancelled", "failed"} /\ k \in Nat /\ k >= run[r].strikes
    BY <2>t
  <2> DEFINE n == [run[r] EXCEPT !.status = x, !.strikes = k]
  <2>2. run' = [run EXCEPT ![r] = n]
    BY <1>0, <2>1 DEF Reap
  <2> HIDE DEF x, k
  <2>3. /\ n \in RunRows
        /\ n.status = x
        /\ n.strikes = k
        /\ n.pc = run[r].pc /\ n.reaped = run[r].reaped /\ n.wakeup = run[r].wakeup /\ n.member = run[r].member /\ n.task = run[r].task
    BY <2>t, <2>e DEF RunRows, Unfinished, TerminalRun
  <2> HIDE DEF n
  <2>4. n.strikes >= run[r].strikes
    BY <2>e, <2>3
  <2>5. RunSteady(run[r], n)
    BY <1>0, <2>1, <2>3, <2>4, <2>e DEF RunSteady, RunMoved, Fresh, Reap, Orphaned, ActiveRun, Unfinished, TerminalRun
  <2>6. QED
    BY <1>0, <2>2, <2>5, OneSteady
<1>2. CASE HandBackNeverStarted
  <2> DEFINE r == sweep.run
             k == run[r].strikes + 1
             n == [run[r] EXCEPT !.strikes = k]
  <2>1. r \in Runs
    BY <1>0, <1>2 DEF HandBackNeverStarted, SweepKnown
  <2>t. run[r] \in RunRows /\ run[r].strikes \in Nat /\ k \in Nat
    <3>1. run[r] \in RunRows
      BY <1>0, <2>1
    <3>2. run[r].strikes \in Nat
      BY <3>1 DEF RunRows
    <3>3. QED
      BY <3>1, <3>2
  <2>2. run' = run \/ run' = [run EXCEPT ![r] = n]
    BY <1>0, <1>2, <2>1 DEF HandBackNeverStarted
  <2> HIDE DEF r
  <2>3. /\ n \in RunRows /\ n.strikes = k
        /\ n.status = run[r].status /\ n.pc = run[r].pc /\ n.reaped = run[r].reaped
        /\ n.wakeup = run[r].wakeup /\ n.member = run[r].member /\ n.task = run[r].task
    BY <2>t DEF RunRows
  <2>4. k >= run[r].strikes
    BY <2>t
  <2> HIDE DEF n, k
  <2>5. RunSteady(run[r], n)
    BY <2>3, <2>4 DEF RunSteady, RunMoved
  <2>6. QED
    BY <1>0, <2>1, <2>2, <2>5, OneSteady, NoneSteady
<1>3. CASE run' = run
  BY <1>0, <1>3, NoneSteady
<1>4. QED
  BY <1>1, <1>2, <1>3, RunFrame DEF Sweep

(* A release takes the run from its driver, and sweepStaleDispatches gives *)
(* up the one that has the agent's key; the other runs stay as they are.   *)
LEMMA ReleaseRun ==
  ASSUME TypeOK, NEW r \in Runs, Release(r)
  PROVE  /\ run' \in [Runs -> RunRows] /\ RunMoved(run[r], run'[r]) /\ run'[r].pc = "none"
         /\ \A q \in Runs : q # r => run'[q] = run[q]
<1>0. run \in [Runs -> RunRows] /\ run[r] \in RunRows
  BY DEF TypeOK
<1> DEFINE n == [run[r] EXCEPT !.pc = "none"]
<1>1. run' = [run EXCEPT ![r] = n]
  BY <1>0 DEF Release
<1>2. /\ n \in RunRows /\ n.pc = "none" /\ n.status = run[r].status /\ n.reaped = run[r].reaped
      /\ n.wakeup = run[r].wakeup /\ n.member = run[r].member /\ n.task = run[r].task
      /\ n.strikes = run[r].strikes /\ n.strikes \in Nat
  BY <1>0 DEF RunRows
<1> HIDE DEF n
<1>3. n.strikes >= run[r].strikes
  BY <1>2
<1>4. RunMoved(run[r], n)
  BY <1>2, <1>3 DEF RunMoved
<1>5. QED
  BY <1>0, <1>1, <1>2, <1>4

LEMMA ReapRun ==
  ASSUME TypeOK, Fresh, NEW m \in Members, ReapDispatch(m)
  PROVE  /\ slot[m] \in Runs /\ run' \in [Runs -> RunRows]
         /\ RunMoved(run[slot[m]], run'[slot[m]]) /\ run'[slot[m]].reaped
         /\ \A q \in Runs : q # slot[m] => run'[q] = run[q]
<1> DEFINE r == slot[m]
           n == [run[r] EXCEPT !.reaped = TRUE, !.aborted = TRUE]
<1>1. r \in Runs /\ run[r].status # "none"
  BY DEF ReapDispatch, TypeOK
<1>0. run \in [Runs -> RunRows] /\ run[r] \in RunRows
  BY <1>1 DEF TypeOK
<1>2. run' = [run EXCEPT ![r] = n]
  BY <1>0, <1>1 DEF ReapDispatch
<1> HIDE DEF r
<1>3. /\ n \in RunRows /\ n.reaped = TRUE
      /\ n.status = run[r].status /\ n.pc = run[r].pc /\ n.strikes = run[r].strikes
      /\ n.wakeup = run[r].wakeup /\ n.member = run[r].member /\ n.task = run[r].task
      /\ n.strikes \in Nat
  BY <1>0 DEF RunRows
<1> HIDE DEF n
<1>4. n.strikes >= run[r].strikes
  BY <1>3
<1>5. RunMoved(run[r], n)
  BY <1>1, <1>3, <1>4 DEF RunMoved, Fresh
<1>6. QED
  BY <1>0, <1>1, <1>2, <1>3, <1>5 DEF r

(* Every step is such, but a launch, a restart and Forget.                 *)
LEMMA SteadyStep ==
  ASSUME TypeInv, Fresh, Work
  PROVE  \/ RunsSteady(run') \/ Restart \/ \E d \in Dispatchers : Launch(d)
         \/ \E r \in Runs : Release(r)
         \/ \E m \in Members : ReapDispatch(m)
<1>1. CASE PressWrites \/ \E d \in Dispatchers : Refuses(d) \/ PutsOff(d) \/ Proceeds(d)
  <2>1. run' = run
    BY <1>1, RunFrame
  <2>2. QED
    BY <2>1, NoneSteady DEF TypeInv
<1>2. QED
  BY <1>1, RunRequests, RunDrivers, RunSweeps DEF Work, Activation

LEMMA RunStep ==
  ASSUME TypeInv, Fresh, Work
  PROVE  RunsMoved(run') \/ Restart \/ \E d \in Dispatchers : Launch(d)
<1>0. TypeOK /\ \A r \in Runs : RunMoved(run[r], run[r])
  BY SameSteady DEF TypeInv, TypeOK, RunSteady
<1>1. CASE RunsSteady(run')
  BY <1>1 DEF RunsSteady, RunSteady, RunsMoved
<1>2. CASE \E r \in Runs : Release(r)
  BY <1>0, <1>2, ReleaseRun DEF RunsMoved
<1>3. CASE \E m \in Members : ReapDispatch(m)
  BY <1>0, <1>3, ReapRun DEF RunsMoved
<1>4. QED
  BY <1>1, <1>2, <1>3, SteadyStep

-----------------------------------------------------------------------------
(* What a step does to a dispatch: it takes in hand only rows that are     *)
(* there.                                                                  *)
DispMoved(f) ==
    /\ f \in [Dispatchers -> Dispatches]
    /\ \A d \in Dispatchers :
        /\ f[d].pc \in InHand => f[d].row \in Rows /\ wake[f[d].row].status # "none"
        /\ \A b \in f[d].batch : wake[b.row].status # "none"

LEMMA OneDispMoved ==
  ASSUME TypeOK, DispKnown, NEW d \in Dispatchers, NEW x \in Dispatches,
         x.pc \in InHand => x.row \in Rows /\ wake[x.row].status # "none",
         \A b \in x.batch : wake[b.row].status # "none"
  PROVE  DispMoved([disp EXCEPT ![d] = x])
<1>1. disp \in [Dispatchers -> Dispatches]
  BY DEF TypeOK
<1>2. QED
  BY <1>1 DEF DispMoved, DispKnown

LEMMA OnwardMoved ==
  ASSUME QueueAssumption, TypeOK, DispKnown, NEW d \in Dispatchers, NEW B \in SUBSET Scans,
         \A b \in B : wake[b.row].status # "none", Onward(d, B)
  PROVE  DispMoved(disp')
<1> DEFINE x == IF B = {} THEN Idle ELSE [Idle EXCEPT !.pc = "gate", !.batch = B]
<1>1. x \in Dispatches /\ x.pc \notin InHand /\ x.batch \subseteq B
  BY DEF Dispatches, Idle, InHand, Sources
<1>2. disp' = [disp EXCEPT ![d] = x]
  BY DEF Onward
<1> HIDE DEF x
<1>3. QED
  BY <1>1, <1>2, OneDispMoved

(* The next stage of the same row.                                         *)
LEMMA StageMoved ==
  ASSUME TypeOK, DispKnown, NEW d \in Dispatchers, disp[d].pc \in InHand, NEW p \in InHand
  PROVE  DispMoved([disp EXCEPT ![d].pc = p])
<1>1. disp \in [Dispatchers -> Dispatches]
  BY DEF TypeOK
<1> DEFINE x == [disp[d] EXCEPT !.pc = p]
<1>2. x \in Dispatches /\ x.row = disp[d].row /\ x.batch = disp[d].batch
  BY <1>1, ZenonT(60) DEF Dispatches, InHand
<1>3. [disp EXCEPT ![d].pc = p] = [disp EXCEPT ![d] = x]
  BY <1>1
<1> HIDE DEF x
<1>4. QED
  BY <1>2, <1>3, OneDispMoved DEF DispKnown

LEMMA BatchFacts ==
  ASSUME TypeOK, DispKnown, NEW d \in Dispatchers
  PROVE  /\ disp[d] \in Dispatches /\ disp[d].batch \in SUBSET Scans
         /\ \A b \in disp[d].batch : /\ b.row \in Rows /\ b.strikes \in Nat /\ b.source \in Sources
                                     /\ wake[b.row].status # "none"
<1>1. disp[d] \in Dispatches
  BY DEF TypeOK
<1>2. disp[d].batch \in SUBSET Scans
  BY <1>1 DEF Dispatches
<1>3. QED
  BY <1>1, <1>2 DEF DispKnown, Scans

LEMMA DispFrame ==
  ASSUME \/ \E a \in Asks : PostSelect(a) \/ PostWrite(a)
         \/ \E w \in Rows : CancelWakeup(w)
         \/ \E t \in Tasks : Block(t) \/ Unblock(t)
         \/ \E r \in Runs : Terminate(r)
         \/ DesignateRepo
         \/ \E r \in Runs : CreateRun(r) \/ Start(r) \/ Finish(r) \/ Settle(r) \/ Release(r)
         \/ Sweep
         \/ \E m \in Members : ReapDispatch(m)
  PROVE  disp' = disp
<1>1. CASE \E r \in Runs : CreateRun(r) \/ Start(r) \/ Finish(r) \/ Settle(r) \/ Release(r)
  BY <1>1, ZenonT(60) DEF CreateRun, Start, Finish, Succeed, Fail, Abort, Lose, HandBack, Throw, Settle, Release
<1>2. CASE Sweep \/ \E m \in Members : ReapDispatch(m)
  BY <1>2, ZenonT(60) DEF Sweep, Reap, HandBackNeverStarted, RetryOrphan, HealLock, HealReads, HealWrites, ReapDispatch
<1>3. QED
  BY <1>1, <1>2 DEF PostSelect, PostWrite, CancelWakeup, Block, Unblock, Terminate, DesignateRepo

LEMMA DispStep ==
  ASSUME QueueAssumption, TypeInv, Work
  PROVE  DispMoved(disp')
<1>0. TypeOK /\ DispKnown /\ disp \in [Dispatchers -> Dispatches] /\ Dispatchers = {"cron", "press"}
  BY DEF TypeInv, TypeOK, Dispatchers
<1>f. CASE disp' = disp
  BY <1>0, <1>f DEF DispMoved, DispKnown
<1>1. CASE CronScan
  <2> DEFINE released == {w \in Rows : repo /\ wake[w].status = "deferred" /\ wake[w].why = "repo"}
             now == [w \in Rows |-> IF w \in released THEN [wake[w] EXCEPT !.status = "queued"] ELSE wake[w]]
             batch == {[row |-> w, strikes |-> now[w].strikes, source |-> now[w].source] :
                          w \in {v \in Rows : now[v].status = "queued"}}
  <2>1. Onward("cron", batch)
    BY <1>1 DEF CronScan
  <2>2. ASSUME NEW w \in Rows
        PROVE  /\ now[w].strikes \in Nat /\ now[w].source \in Sources
               /\ now[w].status = "queued" => wake[w].status # "none"
    <3>1. wake[w] \in WakeRows
      BY <1>0 DEF TypeOK
    <3>2. /\ [wake[w] EXCEPT !.status = "queued"].strikes = wake[w].strikes /\ wake[w].strikes \in Nat
          /\ [wake[w] EXCEPT !.status = "queued"].source = wake[w].source /\ wake[w].source \in Sources
      BY <3>1 DEF WakeRows
    <3>3. now[w] = IF w \in released THEN [wake[w] EXCEPT !.status = "queued"] ELSE wake[w]
      OBVIOUS
    <3>4. w \in released => wake[w].status # "none"
      OBVIOUS
    <3> HIDE DEF now, released
    <3>5. QED
      BY <3>2, <3>3, <3>4
  <2> HIDE DEF now
  <2>3. batch \in SUBSET Scans /\ \A b \in batch : wake[b.row].status # "none"
    <3>1. ASSUME NEW b \in batch
          PROVE  b \in Scans /\ wake[b.row].status # "none"
      <4>1. PICK w \in Rows :
               /\ now[w].status = "queued"
               /\ b = [row |-> w, strikes |-> now[w].strikes, source |-> now[w].source]
        OBVIOUS
      <4>2. QED
        BY <2>2, <4>1 DEF Scans
    <3>2. QED
      BY <3>1
  <2> HIDE DEF batch
  <2>4. QED
    BY <1>0, <2>1, <2>3, OnwardMoved
<1>2. CASE \E b \in disp["cron"].batch : CronSkips(b)
  <2>1. PICK b : Onward("cron", disp["cron"].batch \ {b})
    BY <1>2 DEF CronSkips
  <2>2. /\ disp["cron"].batch \ {b} \in SUBSET Scans
        /\ \A c \in disp["cron"].batch \ {b} : wake[c.row].status # "none"
    BY <1>0, BatchFacts
  <2>3. QED
    BY <1>0, <2>1, <2>2, OnwardMoved
<1>3. CASE \E b \in disp["cron"].batch : CronReads(b)
  <2>1. PICK b \in disp["cron"].batch : CronReads(b)
    BY <1>3
  <2> DEFINE v == IF AlreadyServed(b.row, b.source) THEN "coalesce"
                  ELSE IF ShouldDefer(b.row, b.source) THEN "defer" ELSE "claim"
             B == disp["cron"].batch \ {b}
             x == [pc |-> "write", row |-> b.row, strikes |-> b.strikes, source |-> b.source,
                   verdict |-> v, batch |-> B]
  <2>2. v \in {"coalesce", "defer", "claim"}
    OBVIOUS
  <2>3. /\ B \in SUBSET Scans /\ \A c \in B : wake[c.row].status # "none"
        /\ b.row \in Rows /\ b.strikes \in Nat /\ b.source \in Sources /\ wake[b.row].status # "none"
    BY <1>0, <2>1, BatchFacts DEF CronReads
  <2>4. disp' = [disp EXCEPT !["cron"] = x]
    BY <1>0, <2>1 DEF CronReads
  <2> HIDE DEF v, B
  <2>5. x \in Dispatches /\ x.row = b.row /\ x.batch = B
    BY <2>2, <2>3 DEF Dispatches
  <2> HIDE DEF x
  <2>6. QED
    BY <1>0, <2>3, <2>4, <2>5, OneDispMoved
<1>4. CASE \E w \in Rows : PressReads(w)
  <2>1. PICK w \in Rows : PressReads(w)
    BY <1>4
  <2> DEFINE v == IF ShouldDefer(w, wake[w].source) THEN "defer" ELSE "claim"
             x == [pc |-> "write", row |-> w, strikes |-> wake[w].strikes, source |-> wake[w].source,
                   verdict |-> v, batch |-> {}]
  <2>2. v \in {"defer", "claim"} /\ wake[w].status # "none"
    BY <2>1 DEF PressReads
  <2>3. wake[w].strikes \in Nat /\ wake[w].source \in Sources
    BY <1>0 DEF TypeOK, WakeRows
  <2>4. disp' = [disp EXCEPT !["press"] = x]
    BY <1>0, <2>1 DEF PressReads
  <2> HIDE DEF v
  <2>5. x \in Dispatches /\ x.row = w /\ x.batch = {}
    BY <2>2, <2>3 DEF Dispatches
  <2> HIDE DEF x
  <2>6. QED
    BY <1>0, <2>2, <2>4, <2>5, OneDispMoved
<1>5. CASE \/ CronWrites \/ PressWrites
           \/ \E d \in Dispatchers : Refuses(d) \/ PutsOff(d) \/ Proceeds(d) \/ Launch(d)
  <2>1. PICK d \in Dispatchers :
          /\ disp[d].pc \in InHand
          /\ \/ Onward(d, disp[d].batch)
             \/ Onward(d, {})
             \/ \E p \in InHand : disp' = [disp EXCEPT ![d].pc = p]
    BY <1>0, <1>5, ZenonT(60) DEF CronWrites, PressWrites, Refuses, PutsOff, Proceeds, Launch, InHand
  <2>2. CASE \E p \in InHand : disp' = [disp EXCEPT ![d].pc = p]
    <3>1. PICK p \in InHand : disp' = [disp EXCEPT ![d].pc = p]
      BY <2>2
    <3>2. DispMoved([disp EXCEPT ![d].pc = p])
      BY <1>0, <2>1, StageMoved
    <3>3. QED
      BY <3>1, <3>2, Zenon
  <2>3. CASE Onward(d, disp[d].batch)
    BY <1>0, <2>3, BatchFacts, OnwardMoved
  <2>4. CASE Onward(d, {})
    BY <1>0, <2>4, OnwardMoved
  <2>5. QED
    BY <2>1, <2>2, <2>3, <2>4, SMTT(40)
<1>6. CASE Restart
  <2>1. disp' = [d \in Dispatchers |-> Idle]
    BY <1>6 DEF Restart
  <2>2. Idle \in Dispatches /\ Idle.pc \notin InHand /\ Idle.batch = {}
    BY DEF Dispatches, Idle, InHand, Sources
  <2>3. QED
    BY <2>1, <2>2 DEF DispMoved
<1>7. QED
  BY <1>f, <1>1, <1>2, <1>3, <1>4, <1>5, <1>6, DispFrame DEF Work, Requests, Cron, Activation

-----------------------------------------------------------------------------
(* A launch gives a free identity to the run of the row in hand.           *)
LEMMA LaunchRun ==
  ASSUME QueueAssumption, TypeInv, NEW d \in Dispatchers, Launch(d)
  PROVE  \/ /\ run' = run /\ slot' = slot
            /\ active' = active \/ slot[wake[disp[d].row].member] # None
         \/ \E r \in Runs, n \in RunRows :
              /\ run[r] = NoRun /\ run' = [run EXCEPT ![r] = n]
              /\ n.status = "none" /\ n.pc = "launched" /\ ~n.reaped
              /\ n.wakeup = disp[d].row
              /\ n.member = wake[disp[d].row].member /\ n.task = wake[disp[d].row].task
              /\ slot[n.member] = None /\ slot' = [slot EXCEPT ![n.member] = r]
              /\ active' = active \cup {n.task}
<1>0. TypeOK /\ RowsKnown /\ DispKnown
  BY DEF TypeInv
<1> DEFINE w == disp[d].row
           m == wake[w].member
           t == wake[w].task
<1>1. w \in Rows /\ wake[w].status # "none"
  BY <1>0 DEF DispKnown, InHand, Launch
<1>2. m \in Members /\ t \in Tasks
  BY <1>0, <1>1 DEF RowsKnown, Whole
<1>3. Lineage(d) \in Nat /\ Owed(m, t) \in SUBSET Asks
  BY <1>0 DEF TypeOK, Dispatches, Lineage, Owed
<1>4. CASE ~(<<m, t>> \notin locks /\ KeyFree(m))
  BY <1>4 DEF Launch, KeyFree
<1>5. CASE <<m, t>> \notin locks /\ KeyFree(m)
  <2> DEFINE k == Lineage(d)
             o == Owed(m, t)
             n == [NoRun EXCEPT !.wakeup = w, !.member = m, !.task = t, !.strikes = k,
                                !.seen = o, !.pc = "launched"]
  <2>1. /\ slot[m] = None /\ active' = active \cup {t}
        /\ \E r \in First({q \in Runs : run[q] = NoRun}) :
             run' = [run EXCEPT ![r] = n] /\ slot' = [slot EXCEPT ![m] = r]
    BY <1>5 DEF Launch, KeyFree
  <2>2. PICK r \in Runs : run[r] = NoRun /\ run' = [run EXCEPT ![r] = n] /\ slot' = [slot EXCEPT ![m] = r]
    <3> HIDE DEF n
    <3>1. QED
      BY <2>1 DEF First
  <2> HIDE DEF w, m, t, k, o
  <2>3. /\ n \in RunRows /\ n.status = "none" /\ n.pc = "launched" /\ ~n.reaped
        /\ n.wakeup = w /\ n.member = m /\ n.task = t
    BY <1>1, <1>2, <1>3 DEF RunRows, NoRun, k, o
  <2> HIDE DEF n
  <2>4. QED
    BY <2>1, <2>2, <2>3 DEF w, m, t
<1>6. QED
  BY <1>4, <1>5

(* A restart ends every run.                                               *)
LEMMA RestartRun ==
  ASSUME TypeOK, Restart
  PROVE  /\ run' \in [Runs -> RunRows]
         /\ \A r \in Runs :
              /\ run'[r].pc = "none" /\ run'[r].status \notin Unfinished
              /\ run[r].status \in TerminalRun => run'[r].status \in {run[r].status, "none"}
              /\ run'[r].status # "none" =>
                   /\ run[r].status # "none" /\ run'[r].wakeup = run[r].wakeup
                   /\ run'[r].member = run[r].member /\ run'[r].task = run[r].task
<1>0. run \in [Runs -> RunRows]
  BY DEF TypeOK
<1> DEFINE x(r) == IF ActiveRun(r) THEN "failed" ELSE run[r].status
           n(r) == [run[r] EXCEPT !.status = x(r), !.pc = "none"]
<1>1. run' = [r \in Runs |-> IF run[r].pc = "launched" THEN NoRun ELSE n(r)]
  <2>1. \A r \in Runs : [run[r] EXCEPT !.status = IF r \in {q \in Runs : ActiveRun(q)} THEN "failed" ELSE @, !.pc = "none"] = n(r)
    BY <1>0 DEF RunRows
  <2>2. run' = [r \in Runs |-> IF run[r].pc = "launched" THEN NoRun
                  ELSE [run[r] EXCEPT !.status = IF r \in {q \in Runs : ActiveRun(q)} THEN "failed" ELSE @, !.pc = "none"]]
    BY DEF Restart
  <2> HIDE DEF n
  <2>3. QED
    BY <2>1, <2>2
<1>2. NoRun \in RunRows /\ NoRun.pc = "none" /\ NoRun.status = "none"
  BY DEF RunRows, NoRun
<1>3. ASSUME NEW r \in Runs
      PROVE  /\ n(r) \in RunRows /\ n(r).pc = "none" /\ n(r).status = x(r)
             /\ n(r).wakeup = run[r].wakeup /\ n(r).member = run[r].member /\ n(r).task = run[r].task
  <2>1. run[r] \in RunRows
    BY <1>0
  <2>2. x(r) \in Unfinished \cup TerminalRun \cup {"none"}
    BY <2>1 DEF RunRows, TerminalRun
  <2> HIDE DEF x
  <2>3. QED
    BY <2>1, <2>2 DEF RunRows
<1>4. ASSUME NEW r \in Runs
      PROVE  /\ x(r) \notin Unfinished
             /\ run[r].status \in TerminalRun => x(r) = run[r].status
             /\ x(r) # "none" => run[r].status # "none"
  BY DEF ActiveRun, Unfinished, TerminalRun
<1>5. "none" \notin Unfinished
  BY DEF Unfinished
<1> HIDE DEF n, x
<1>6. QED
  BY <1>1, <1>2, <1>3, <1>4, <1>5

(* Forget takes only what nothing refers to.                               *)
LEMMA ForgetRun ==
  ASSUME TypeOK, Forget
  PROVE  /\ run' \in [Runs -> RunRows]
         /\ \A r \in Runs :
              \/ run'[r] = NoRun /\ Spent(r)
              \/ /\ run'[r].status = run[r].status /\ run'[r].pc = run[r].pc
                 /\ run'[r].wakeup = run[r].wakeup /\ run'[r].member = run[r].member
                 /\ run'[r].task = run[r].task /\ run'[r].strikes = run[r].strikes
                 /\ run'[r].reaped = run[r].reaped
<1>0. run \in [Runs -> RunRows]
  BY DEF TypeOK
<1> DEFINE c(r) == {w \in run[r].covers : ~Gone(w)}
           n(r) == [run[r] EXCEPT !.covers = c(r)]
<1>1. run' = [r \in Runs |-> IF Spent(r) THEN NoRun ELSE n(r)]
  <2>1. \A r \in Runs : [run[r] EXCEPT !.covers = {w \in @ : ~Gone(w)}] = n(r)
    BY <1>0 DEF RunRows
  <2>2. run' = [r \in Runs |-> IF Spent(r) THEN NoRun ELSE [run[r] EXCEPT !.covers = {w \in @ : ~Gone(w)}]]
    BY DEF Forget
  <2> HIDE DEF n
  <2>3. QED
    BY <2>1, <2>2
<1>2. NoRun \in RunRows
  BY DEF RunRows, NoRun
<1>3. ASSUME NEW r \in Runs
      PROVE  /\ n(r) \in RunRows /\ n(r).status = run[r].status /\ n(r).pc = run[r].pc
             /\ n(r).wakeup = run[r].wakeup /\ n(r).member = run[r].member /\ n(r).task = run[r].task
             /\ n(r).strikes = run[r].strikes /\ n(r).reaped = run[r].reaped
  <2>1. run[r] \in RunRows
    BY <1>0
  <2>2. c(r) \in SUBSET Rows
    BY <2>1 DEF RunRows
  <2> HIDE DEF c
  <2>3. QED
    BY <2>1, <2>2 DEF RunRows
<1> HIDE DEF n
<1>4. QED
  BY <1>1, <1>2, <1>3

-----------------------------------------------------------------------------
(* The runs, the rows and the dispatches after any step.                   *)
LEMMA TablesTyped ==
  ASSUME QueueAssumption, TypeInv, Fresh, Next
  PROVE  /\ wake' \in [Rows -> WakeRows] /\ run' \in [Runs -> RunRows] /\ disp' \in [Dispatchers -> Dispatches]
         /\ RowsKnown' /\ RunsKnown' /\ DispKnown' /\ Fresh'
<1>0. TypeOK /\ RowsKnown /\ RunsKnown /\ DispKnown /\ run \in [Runs -> RunRows] /\ wake \in [Rows -> WakeRows]
  BY DEF TypeInv, TypeOK
<1>1. CASE Work
  <2>1. WakeKept(wake')
    BY <1>1, WakeStep
  <2>2. wake' \in [Rows -> WakeRows] /\ RowsKnown'
    BY <2>1 DEF WakeKept, RowKept, RowsKnown
  <2>3. \A w \in Rows : wake[w].status # "none" => wake'[w].status # "none"
    BY <2>1 DEF WakeKept, RowKept
  <2>4. disp' \in [Dispatchers -> Dispatches] /\ DispKnown'
    <3>1. DispMoved(disp')
      BY <1>1, DispStep
    <3>2. disp' \in [Dispatchers -> Dispatches]
      BY <3>1 DEF DispMoved
    <3>3. ASSUME NEW d \in Dispatchers, NEW b \in disp'[d].batch PROVE b.row \in Rows
      <4>1. disp'[d] \in Dispatches
        BY <3>2
      <4>2. disp'[d].batch \in SUBSET Scans
        BY <4>1 DEF Dispatches
      <4>3. QED
        BY <4>2 DEF Scans
    <3>4. QED
      BY <2>3, <3>1, <3>2, <3>3 DEF DispMoved, DispKnown
  <2>5. run' \in [Runs -> RunRows] /\ RunsKnown' /\ Fresh'
    <3>1. CASE RunsMoved(run')
      <4>1. \A r \in Runs : Present(run'[r]) => Present(run[r])
        BY <3>1 DEF RunsMoved, RunMoved, Present
      <4>2. \A r \in Runs : /\ run'[r].wakeup = run[r].wakeup /\ run'[r].member = run[r].member
                            /\ run'[r].task = run[r].task
        BY <3>1 DEF RunsMoved, RunMoved
      <4>3. RunsKnown'
        BY <1>0, <2>3, <4>1, <4>2 DEF RunsKnown, Named
      <4>4. Fresh'
        BY <3>1 DEF RunsMoved, RunMoved, Fresh
      <4>5. QED
        BY <3>1, <4>3, <4>4 DEF RunsMoved
    <3>2. CASE Restart
      <4>1. \A r \in Runs : Present(run'[r]) =>
               /\ Present(run[r]) /\ run'[r].wakeup = run[r].wakeup
               /\ run'[r].member = run[r].member /\ run'[r].task = run[r].task
        BY <1>0, <3>2, RestartRun DEF Present
      <4>2. RunsKnown'
        BY <1>0, <2>3, <4>1 DEF RunsKnown, Named
      <4>3. QED
        BY <1>0, <3>2, <4>2, RestartRun DEF Fresh
    <3>3. CASE \E d \in Dispatchers : Launch(d)
      <4>1. PICK d \in Dispatchers : Launch(d)
        BY <3>3
      <4>2. CASE run' = run
        BY <1>0, <2>3, <4>2 DEF RunsKnown, Named, Fresh
      <4>3. CASE ~(run' = run)
        <5>1. PICK r \in Runs, n \in RunRows :
              /\ run[r] = NoRun /\ run' = [run EXCEPT ![r] = n]
              /\ n.status = "none" /\ n.pc = "launched" /\ ~n.reaped
              /\ n.wakeup = disp[d].row
              /\ n.member = wake[disp[d].row].member /\ n.task = wake[disp[d].row].task
          BY <4>1, <4>3, LaunchRun
        <5>2. disp[d].row \in Rows /\ wake[disp[d].row].status # "none"
          BY <1>0, <4>1 DEF DispKnown, InHand, Launch
        <5>3. Named(n) /\ wake'[n.wakeup].status # "none"
          BY <1>0, <2>3, <5>1, <5>2 DEF Named, RowsKnown, Whole
        <5>4. run' \in [Runs -> RunRows] /\ \A q \in Runs : run'[q] = IF q = r THEN n ELSE run[q]
          BY <1>0, <5>1
        <5>5. QED
          BY <1>0, <2>3, <5>1, <5>3, <5>4 DEF RunsKnown, Named, Fresh
      <4>4. QED
        BY <4>2, <4>3
    <3>4. QED
      BY <1>1, <3>1, <3>2, <3>3, RunStep
  <2>6. QED
    BY <2>2, <2>4, <2>5
<1>2. CASE Forget
  <2>1. wake' = [w \in Rows |-> IF Gone(w) THEN NoRow ELSE wake[w]] /\ disp' = disp
    BY <1>2 DEF Forget
  <2>2. NoRow \in WakeRows /\ NoRow.status = "none"
    BY DEF NoRow, WakeRows, Sources
  <2>3. wake' \in [Rows -> WakeRows] /\ RowsKnown'
    BY <1>0, <2>1, <2>2 DEF RowsKnown, Whole
  <2>4. disp' \in [Dispatchers -> Dispatches] /\ DispKnown'
    <3>1. disp \in [Dispatchers -> Dispatches]
      BY <1>0 DEF TypeOK
    <3>2. \A d \in Dispatchers : \A b \in disp[d].batch : b.row \in Rows
      BY <1>0, BatchFacts
    <3>3. \A d \in Dispatchers, w \in Rows : Gone(w) => disp[d].row # w /\ \A b \in disp[d].batch : b.row # w
      BY DEF Gone
    <3>4. QED
      BY <1>0, <2>1, <3>1, <3>2, <3>3 DEF DispKnown
  <2>5. \A w \in Rows, r \in Runs : Gone(w) => run[r].wakeup # w
    BY DEF Gone
  <2>6. ~Present(NoRun)
    BY DEF Present, NoRun
  <2>7. run' \in [Runs -> RunRows] /\ RunsKnown'
    BY <1>0, <1>2, <2>1, <2>5, <2>6, ForgetRun DEF RunsKnown, Named, Present
  <2>8. Fresh'
    <3>1. NoRun.pc # "launched"
      BY DEF NoRun
    <3>2. QED
      BY <1>0, <1>2, <3>1, ForgetRun DEF Fresh
  <2>9. QED
    BY <2>3, <2>4, <2>7, <2>8
<1>3. QED
  BY <1>1, <1>2 DEF Next

(* The orphan detector.                                                    *)
LEMMA SweepFrame ==
  ASSUME \/ Requests \/ Cron \/ PressWrites \/ \E d \in Dispatchers : Activation(d)
         \/ \E r \in Runs : CreateRun(r) \/ Start(r) \/ Finish(r) \/ Settle(r) \/ Release(r)
         \/ \E l \in Members \X Tasks : HealLock(l)
         \/ \E m \in Members : ReapDispatch(m)
         \/ Forget
  PROVE  sweep' = sweep
<1>1. CASE Requests
  BY <1>1, ZenonT(60) DEF Requests, PostSelect, PostWrite, CancelWakeup, PressReads, Block, Unblock, Terminate, DesignateRepo
<1>2. CASE Cron \/ PressWrites
  BY <1>2, ZenonT(60) DEF Cron, CronScan, CronSkips, CronReads, CronWrites, PressWrites
<1>3. CASE \E d \in Dispatchers : Activation(d)
  BY <1>3, ZenonT(60) DEF Activation, Refuses, PutsOff, Proceeds, Launch
<1>4. CASE \E r \in Runs : CreateRun(r) \/ Start(r) \/ Finish(r) \/ Settle(r) \/ Release(r)
  BY <1>4, ZenonT(60) DEF CreateRun, Start, Finish, Succeed, Fail, Abort, Lose, HandBack, Throw, Settle, Release
<1>5. QED
  BY <1>1, <1>2, <1>3, <1>4 DEF HealLock, ReapDispatch, Forget

LEMMA SweepTyped ==
  ASSUME QueueAssumption, TypeInv, Fresh, Next
  PROVE  sweep' \in Sweeps /\ SweepKnown'
<1>0. /\ TypeOK /\ SweepKnown /\ RunsKnown /\ sweep \in Sweeps
      /\ run \in [Runs -> RunRows] /\ wake \in [Rows -> WakeRows]
  BY DEF TypeInv, TypeOK
<1>n. NoSweep \in Sweeps /\ NoSweep.pc = "idle"
  BY DEF NoSweep, Sweeps
<1>1. CASE sweep' = NoSweep
  BY <1>n, <1>1 DEF SweepKnown
<1>2. CASE \E r \in Runs : Reap(r)
  <2>1. PICK r \in Runs : Reap(r)
    BY <1>2
  <2> DEFINE p == IF run[r].status = "queued" THEN "handback" ELSE "retry"
             k == IF run[r].status = "queued" THEN run[r].strikes ELSE run[r].strikes + 1
             x == IF run[r].status = "queued" THEN "cancelled" ELSE "failed"
  <2>2. sweep' = [NoSweep EXCEPT !.pc = p, !.run = r]
    BY <2>1 DEF Reap
  <2>3. p \in {"handback", "retry"} /\ (p = "retry" => k > 0) /\ x # "none"
    <3>1. run[r].strikes \in Nat
      BY <1>0 DEF RunRows
    <3>2. QED
      BY <3>1
  <2>4. run'[r].status = x /\ run'[r].strikes = k
    <3> DEFINE n == [run[r] EXCEPT !.status = x, !.strikes = k]
    <3>1. run' = [run EXCEPT ![r] = n]
      BY <1>0, <2>1 DEF Reap
    <3>2. run[r] \in RunRows
      BY <1>0
    <3> HIDE DEF x, k
    <3>3. n.status = x /\ n.strikes = k
      BY <3>2 DEF RunRows
    <3> HIDE DEF n
    <3>4. QED
      BY <1>0, <3>1, <3>3
  <2> HIDE DEF p, k, x
  <2>5. sweep' \in Sweeps /\ sweep'.pc = p /\ sweep'.run = r
    BY <2>2, <2>3 DEF NoSweep, Sweeps
  <2>6. QED
    BY <2>3, <2>4, <2>5 DEF SweepKnown
<1>3. CASE \E w \in Rows : HealReads(w)
  <2>1. PICK w \in Rows : HealReads(w)
    BY <1>3
  <2>2. PICK v \in {"queued", "completed", "failed"} : sweep' = [pc |-> "heal", row |-> w, run |-> None, verdict |-> v]
    BY <2>1 DEF HealReads
  <2>3. wake'[w].status # "none"
    BY <2>1 DEF HealReads, Abandoned
  <2>4. sweep' \in Sweeps /\ sweep'.pc = "heal" /\ sweep'.row = w /\ sweep'.verdict = v
    BY <2>2 DEF Sweeps
  <2>5. QED
    BY <2>2, <2>3, <2>4 DEF SweepKnown
<1>4. CASE sweep' = sweep /\ Work
  <2>1. \A w \in Rows : wake[w].status # "none" => wake'[w].status # "none"
    BY <1>4, WakeStep DEF WakeKept, RowKept
  <2>2. CASE Restart
    BY <1>1, <2>2 DEF Restart
  <2>3. CASE \E d \in Dispatchers : Launch(d)
    <3>1. PICK d \in Dispatchers : Launch(d)
      BY <2>3
    <3>2. \A r \in Runs : run[r].status # "none" => run'[r] = run[r]
      <4>1. run' = run \/ \E r \in Runs, n \in RunRows : run[r] = NoRun /\ run' = [run EXCEPT ![r] = n]
        BY <3>1, LaunchRun
      <4>2. NoRun.status = "none"
        BY DEF NoRun
      <4>3. QED
        BY <1>0, <4>1, <4>2
    <3>3. QED
      BY <1>0, <1>4, <2>1, <3>2 DEF SweepKnown
  <2>4. CASE RunsMoved(run')
    <3>1. \A r \in Runs : /\ run[r].status # "none" => run'[r].status # "none"
                          /\ run[r].strikes > 0 => run'[r].strikes > 0
      <4>1. \A r \in Runs : run[r].strikes \in Nat /\ run'[r].strikes \in Nat
        BY <1>0, <2>4 DEF RunsMoved, RunRows
      <4>2. QED
        BY <2>4, <4>1 DEF RunsMoved, RunMoved
    <3>2. sweep' = sweep
      BY <1>4
    <3>3. sweep.pc \in {"handback", "retry"} => sweep.run \in Runs /\ run'[sweep.run].status # "none"
      BY <1>0, <3>1 DEF SweepKnown
    <3>4. sweep.pc = "retry" => run'[sweep.run].strikes > 0
      BY <1>0, <3>1 DEF SweepKnown
    <3>5. sweep.pc = "heal" => sweep.row \in Rows /\ wake'[sweep.row].status # "none" /\ sweep.verdict # ""
      BY <1>0, <2>1 DEF SweepKnown
    <3>6. QED
      BY <1>0, <3>2, <3>3, <3>4, <3>5 DEF SweepKnown
  <2>5. QED
    BY <1>4, <2>2, <2>3, <2>4, RunStep
<1>5. CASE Forget
  <2>1. sweep' = sweep /\ wake' = [w \in Rows |-> IF Gone(w) THEN NoRow ELSE wake[w]]
    BY <1>5 DEF Forget
  <2>2. \A w \in Rows : Gone(w) => sweep.row # w
    BY DEF Gone
  <2>3. \A r \in Runs : Spent(r) => sweep.run # r
    BY DEF Spent
  <2>4. QED
    BY <1>0, <1>5, <2>1, <2>2, <2>3, ForgetRun DEF SweepKnown
<1>6. QED
  BY <1>1, <1>2, <1>3, <1>4, <1>5, SweepFrame, ZenonT(60)
     DEF Next, Work, Sweep, HandBackNeverStarted, RetryOrphan, HealWrites, Restart

(* What became of the asks.                                                *)
Fates == {"unborn", "posting", "owed", "closed", "withdrawn"}

LEMMA EndsTyped ==
  ASSUME fate \in [Asks -> Fates], NEW A, NEW e \in {"closed", "withdrawn"}
  PROVE  Ends(A, e) \in [Asks -> Fates]
BY DEF Ends, Fates

LEMMA FateTyped ==
  ASSUME fate \in [Asks -> Fates], Next
  PROVE  fate' \in [Asks -> Fates]
<1>0. \A A, e : e \in {"closed", "withdrawn"} => Ends(A, e) \in [Asks -> Fates]
  BY EndsTyped
<1>1. CASE Requests
  <2>1. CASE \E a \in Asks : PostSelect(a) \/ PostWrite(a)
    BY <2>1 DEF PostSelect, PostWrite, Fates
  <2>2. CASE \E w \in Rows : CancelWakeup(w)
    BY <1>0, <2>2 DEF CancelWakeup
  <2>3. CASE \E r \in Runs : Terminate(r)
    BY <1>0, <2>3 DEF Terminate
  <2>4. QED
    BY <1>1, <2>1, <2>2, <2>3 DEF Requests, PressReads, Block, Unblock, DesignateRepo
<1>2. CASE Cron \/ PressWrites
  BY <1>2 DEF Cron, CronScan, CronSkips, CronReads, CronWrites, PressWrites
<1>3. CASE \E d \in Dispatchers : Activation(d)
  BY <1>0, <1>3 DEF Activation, Refuses, PutsOff, Proceeds, Launch
<1>4. CASE \E r \in Runs : CreateRun(r) \/ Start(r) \/ Finish(r) \/ Settle(r) \/ Release(r)
  <2>1. CASE \E r \in Runs : Lose(r) \/ Settle(r)
    BY <1>0, <2>1 DEF Lose, RetryOrEscalate, Settle
  <2>2. QED
    BY <1>4, <2>1 DEF CreateRun, Start, Finish, Succeed, Fail, Abort, HandBack, Throw, Release
<1>5. CASE Sweep \/ \E m \in Members : ReapDispatch(m)
  <2>1. CASE HandBackNeverStarted \/ RetryOrphan \/ HealWrites
    BY <1>0, <2>1 DEF HandBackNeverStarted, RetryOrphan, RetryOrEscalate, HealWrites
  <2>2. QED
    BY <1>5, <2>1 DEF Sweep, Reap, HealLock, HealReads, ReapDispatch
<1>6. CASE Restart
  BY <1>6 DEF Restart, Fates
<1>7. QED
  BY <1>1, <1>2, <1>3, <1>4, <1>5, <1>6 DEF Next, Work, Forget

LEMMA MishapTyped ==
  ASSUME QueueAssumption, mishaps \in 0..MaxMishaps, NEW k, Mishap(k)
  PROVE  mishaps' \in 0..MaxMishaps
BY DEF Mishap, QueueAssumption

(* The locks, the guards in memory and the environment.                    *)
LEMMA OthersTyped ==
  ASSUME QueueAssumption, TypeInv, Next
  PROVE  /\ locks' \subseteq Members \X Tasks /\ blocked' \subseteq Tasks /\ repo' \in BOOLEAN
         /\ target' \in [Asks -> Rows \cup {None}] /\ slot' \in [Members -> Runs \cup {None}]
         /\ active' \subseteq Tasks /\ live' \subseteq Runs /\ mishaps' \in 0..MaxMishaps
<1>0. /\ locks \subseteq Members \X Tasks /\ blocked \subseteq Tasks /\ repo \in BOOLEAN
      /\ target \in [Asks -> Rows \cup {None}] /\ slot \in [Members -> Runs \cup {None}]
      /\ active \subseteq Tasks /\ live \subseteq Runs /\ mishaps \in 0..MaxMishaps
  BY DEF TypeInv, TypeOK
<1>m. \A k : Mishap(k) => mishaps' \in 0..MaxMishaps
  BY <1>0, MishapTyped
<1>1. CASE Requests
  <2>1. CASE \E a \in Asks : PostSelect(a) \/ PostWrite(a)
    <3>1. PICK a \in Asks, v \in Rows \cup {None} : target' = [target EXCEPT ![a] = v]
      BY <2>1 DEF PostSelect, PostWrite, Queued
    <3>2. UNCHANGED <<locks, blocked, repo, slot, active, live, mishaps>>
      BY <2>1 DEF PostSelect, PostWrite
    <3>3. QED
      BY <1>0, <3>1, <3>2
  <2>2. CASE \E w \in Rows : CancelWakeup(w) \/ PressReads(w)
    BY <1>0, <1>m, <2>2 DEF CancelWakeup, PressReads
  <2>3. CASE \E t \in Tasks : Block(t) \/ Unblock(t)
    BY <1>0, <1>m, <2>3 DEF Block, Unblock
  <2>4. CASE \E r \in Runs : Terminate(r)
    BY <1>0, <1>m, <2>4 DEF Terminate
  <2>5. CASE DesignateRepo
    BY <1>0, <2>5 DEF DesignateRepo
  <2>6. QED
    BY <1>1, <2>1, <2>2, <2>3, <2>4, <2>5 DEF Requests
<1>2. CASE Cron \/ PressWrites
  <2>1. UNCHANGED <<locks, blocked, repo, target, slot, active, live, mishaps>>
    BY <1>2 DEF Cron, CronScan, CronSkips, CronReads, CronWrites, PressWrites
  <2>2. QED
    BY <1>0, <2>1
<1>3. CASE \E d \in Dispatchers : Refuses(d) \/ PutsOff(d) \/ Proceeds(d)
  <2>1. UNCHANGED <<locks, blocked, repo, target, slot, active, live>>
    BY <1>3 DEF Refuses, PutsOff, Proceeds
  <2>2. mishaps' = mishaps \/ \E k : Mishap(k)
    BY <1>3 DEF Refuses, PutsOff, Proceeds
  <2>3. QED
    BY <1>0, <1>m, <2>1, <2>2
<1>4. CASE \E d \in Dispatchers : Launch(d)
  <2>1. PICK d \in Dispatchers : Launch(d)
    BY <1>4
  <2> DEFINE m == wake[disp[d].row].member
             t == wake[disp[d].row].task
  <2>2. m \in Members /\ t \in Tasks
    BY <2>1 DEF TypeInv, DispKnown, RowsKnown, Whole, InHand, Launch
  <2>3. UNCHANGED <<blocked, repo, target, live, mishaps>>
    BY <2>1 DEF Launch
  <2>4. locks' = locks \/ locks' = locks \cup {<<m, t>>}
    BY <2>1 DEF Launch
  <2>5. active' \subseteq active \cup {t}
    BY <2>1, SMTT(40) DEF Launch
  <2>6. slot' = slot \/ \E r \in Runs : slot' = [slot EXCEPT ![m] = r]
    BY <2>1 DEF Launch, First
  <2> HIDE DEF m, t
  <2>7. slot' \in [Members -> Runs \cup {None}]
    BY <1>0, <2>6
  <2>8. QED
    BY <1>0, <2>2, <2>3, <2>4, <2>5, <2>7
<1>5. CASE \E r \in Runs : CreateRun(r) \/ Start(r) \/ Finish(r) \/ Settle(r) \/ Release(r)
  <2>1. UNCHANGED <<blocked, repo, target>> /\ (mishaps' = mishaps \/ \E k : Mishap(k))
    BY <1>5 DEF CreateRun, Start, Finish, Succeed, Fail, Abort, Lose, HandBack, Throw, Settle, Release
  <2>2. /\ locks' \subseteq locks /\ active' \subseteq active /\ live' \subseteq live \cup Runs
        /\ slot' = slot \/ \E m : slot' = [slot EXCEPT ![m] = None]
    BY <1>5 DEF CreateRun, Start, Finish, Succeed, Fail, Abort, Lose, HandBack, Throw, Settle, Release
  <2>3. slot' \in [Members -> Runs \cup {None}]
    BY <1>0, <2>2
  <2>4. QED
    BY <1>0, <1>m, <2>1, <2>2, <2>3
<1>6. CASE Sweep
  <2>1. UNCHANGED <<blocked, repo, target, slot, active, live, mishaps>> /\ locks' \subseteq locks
    BY <1>6 DEF Sweep, Reap, HandBackNeverStarted, RetryOrphan, HealLock, HealReads, HealWrites
  <2>2. QED
    BY <1>0, <2>1
<1>7. CASE \E m \in Members : ReapDispatch(m)
  BY <1>0, <1>m, <1>7 DEF ReapDispatch
<1>8. CASE Restart
  <2>1. /\ locks' = {} /\ slot' = [m \in Members |-> None] /\ active' = {} /\ live' = {}
        /\ target' = [a \in Asks |-> None] /\ UNCHANGED <<blocked, repo>> /\ Mishap("crash")
    BY <1>8 DEF Restart
  <2>2. QED
    BY <1>0, <1>m, <2>1
<1>9. CASE Forget
  BY <1>0, <1>9 DEF Forget
<1>10. QED
  BY <1>1, <1>2, <1>3, <1>4, <1>5, <1>6, <1>7, <1>8, <1>9 DEF Next, Work, Activation

LEMMA TypesInit ==
  ASSUME QueueAssumption, Init
  PROVE  TypeInv /\ Fresh
<1>1. /\ NoRow \in WakeRows /\ NoRun \in RunRows /\ Idle \in Dispatches /\ NoSweep \in Sweeps
      /\ NoRow.status = "none" /\ NoRun.status = "none" /\ NoRun.pc = "none"
      /\ Idle.pc = "idle" /\ Idle.batch = {} /\ NoSweep.pc = "idle"
  BY DEF NoRow, NoRun, Idle, NoSweep, WakeRows, RunRows, Dispatches, Sweeps, Sources
<1>2. blocked \subseteq Tasks /\ mishaps \in 0..MaxMishaps
  BY DEF Init, QueueAssumption
<1>3. TypeOK
  BY <1>1, <1>2 DEF Init, TypeOK
<1>4. RowsKnown /\ RunsKnown /\ DispKnown /\ SweepKnown /\ Fresh
  BY <1>1 DEF Init, RowsKnown, Whole, RunsKnown, Present, DispKnown, InHand, SweepKnown, Fresh
<1>5. QED
  BY <1>3, <1>4 DEF TypeInv

LEMMA TypesStep ==
  ASSUME QueueAssumption, TypeInv, Fresh, [Next]_vars
  PROVE  TypeInv' /\ Fresh'
<1>1. CASE Next
  <2>1. fate' \in [Asks -> Fates]
    BY <1>1, FateTyped DEF TypeInv, TypeOK, Fates
  <2>2. TypeOK'
    BY <1>1, <2>1, TablesTyped, SweepTyped, OthersTyped DEF TypeOK, Fates
  <2>3. QED
    BY <1>1, <2>2, TablesTyped, SweepTyped DEF TypeInv
<1>2. CASE UNCHANGED vars
  BY <1>2 DEF vars, TypeInv, TypeOK, RowsKnown, RunsKnown, DispKnown, SweepKnown, Fresh
<1>3. QED
  BY <1>1, <1>2

LEMMA TypesKept == Spec => [](TypeInv /\ Fresh)
<1>1. Init => TypeInv /\ Fresh
  BY QueueAssumption, TypesInit
<1>2. TypeInv /\ Fresh /\ [Next]_vars => (TypeInv /\ Fresh)'
  BY QueueAssumption, TypesStep
<1>3. QED
  BY <1>1, <1>2, PTL DEF Spec

(* The types hold in every reachable state: no step of a dispatch, of a    *)
(* run or of the orphan detector reads a row or a run that is not there.   *)
THEOREM TypeCorrect == Spec => []TypeOK
<1>1. TypeInv /\ Fresh => TypeOK
  BY DEF TypeInv
<1>2. QED
  BY <1>1, TypesKept, PTL

-----------------------------------------------------------------------------
(* The first verdict on a run stands, whoever else comes to end it: the    *)
(* run itself (updateHeartbeatRun), a termination, the orphan detector or  *)
(* a restart.                                                              *)
THEOREM FirstVerdictStands == Spec => VerdictStands
<1>1. ASSUME TypeInv, Fresh, Next, NEW r \in Runs, run[r].status \in TerminalRun
      PROVE  run'[r].status \in {run[r].status, "none"}
  <2>0. TypeOK /\ run \in [Runs -> RunRows]
    BY <1>1 DEF TypeInv, TypeOK
  <2>1. CASE RunsMoved(run')
    BY <1>1, <2>1 DEF RunsMoved, RunMoved
  <2>2. CASE Restart
    BY <1>1, <2>0, <2>2, RestartRun
  <2>3. CASE \E d \in Dispatchers : Launch(d)
    <3>1. run' = run \/ \E q \in Runs, n \in RunRows : run[q] = NoRun /\ run' = [run EXCEPT ![q] = n]
      BY <1>1, <2>3, LaunchRun, QueueAssumption
    <3>2. NoRun.status \notin TerminalRun
      BY DEF NoRun, TerminalRun
    <3>3. QED
      BY <1>1, <2>0, <3>1, <3>2
  <2>4. CASE Forget
    <3>1. NoRun.status = "none"
      BY DEF NoRun
    <3>2. QED
      BY <2>0, <2>4, <3>1, ForgetRun
  <2>5. QED
    BY <1>1, <2>1, <2>2, <2>3, <2>4, RunStep DEF Next
<1>2. TypeInv /\ Fresh /\ [Next]_vars =>
        [\A r \in Runs : run[r].status \in TerminalRun => run'[r].status \in {run[r].status, "none"}]_vars
  BY <1>1
<1>3. QED
  BY <1>2, TypesKept, PTL DEF Spec, VerdictStands

-----------------------------------------------------------------------------
(* A run that is driven has its agent's launch key, and only such runs     *)
(* have one.                                                               *)
Keys ==
    /\ \A r \in Runs : Driven(run[r]) => slot[run[r].member] = r
    /\ \A m \in Members : slot[m] # None => run[slot[m]].member = m /\ Driven(run[slot[m]])

(* It has its task's guard, and no other has that task; and what passed    *)
(* the busy checks is still free.                                          *)
Guards ==
    /\ \A r \in Runs : Driven(run[r]) => run[r].task \in active
    /\ \A r, q \in Runs : Driven(run[r]) /\ Driven(run[q]) /\ run[r].task = run[q].task => r = q
    /\ \A d \in Dispatchers : disp[d].pc = "launch" => ~Busy(disp[d].row)

(* And no two runs that are launched or unfinished have one task.          *)
Claims(x) == x.pc = "launched" \/ x.status \in Unfinished
Alone ==
    \A r, q \in Runs : Claims(run[r]) /\ Claims(run[q]) /\ run[r].task = run[q].task => r = q

(* The cron and Run now are both past their busy checks, and neither has   *)
(* launched: the one state from which the guards go wrong.                 *)
Crossing == \A d \in Dispatchers : disp[d].pc = "launch"

Inv == TypeInv /\ Fresh /\ Keys
Orderly == Inv /\ Guards /\ Alone

(* The steps that leave the keys and the guards alone.                     *)
LEMMA GuardFrame ==
  ASSUME Work
  PROVE  \/ slot' = slot /\ active' = active
         \/ Restart \/ \E d \in Dispatchers : Launch(d)
         \/ \E r \in Runs : Release(r)
         \/ \E m \in Members : ReapDispatch(m)
<1>1. CASE Requests \/ Cron
  BY <1>1 DEF Requests, Cron, PostSelect, PostWrite, CancelWakeup, PressReads, Block, Unblock, Terminate,
              DesignateRepo, CronScan, CronSkips, CronReads, CronWrites
<1>2. CASE PressWrites \/ \E d \in Dispatchers : Refuses(d) \/ PutsOff(d) \/ Proceeds(d)
  BY <1>2 DEF PressWrites, Refuses, PutsOff, Proceeds
<1>3. CASE \E r \in Runs : CreateRun(r) \/ Start(r) \/ Finish(r) \/ Settle(r)
  BY <1>3, SMTT(40) DEF CreateRun, Start, Finish, Succeed, Fail, Abort, Lose, HandBack, Throw, Settle
<1>4. CASE Sweep
  BY <1>4 DEF Sweep, Reap, HandBackNeverStarted, RetryOrphan, HealLock, HealReads, HealWrites
<1>5. QED
  BY <1>1, <1>2, <1>3, <1>4 DEF Work, Activation

(* A run keeps its agent's key until it is released or given up.           *)
LEMMA KeysStep ==
  ASSUME QueueAssumption, TypeInv, Fresh, Keys, Next
  PROVE  Keys'
<1>0. /\ TypeOK /\ run \in [Runs -> RunRows] /\ slot \in [Members -> Runs \cup {None}]
      /\ None \notin Runs
      /\ \A r \in Runs : Driven(run[r]) => run[r].member \in Members
  BY DEF TypeInv, TypeOK, RunsKnown, Driven, Present, Named, QueueAssumption
<1>1. CASE RunsSteady(run') /\ slot' = slot
  <2>1. \A r \in Runs : (Driven(run'[r]) <=> Driven(run[r])) /\ run'[r].member = run[r].member
    BY <1>1 DEF Driven, RunsSteady, RunSteady, RunMoved
  <2>2. ASSUME NEW r \in Runs, Driven(run'[r])
        PROVE  slot'[run'[r].member] = r
    BY <1>1, <2>1, <2>2 DEF Keys
  <2>3. ASSUME NEW m \in Members, slot'[m] # None
        PROVE  run'[slot'[m]].member = m /\ Driven(run'[slot'[m]])
    <3>1. slot'[m] = slot[m] /\ slot[m] \in Runs
      BY <1>0, <1>1, <2>3
    <3>2. QED
      BY <2>1, <2>3, <3>1 DEF Keys
  <2>4. QED
    BY <2>2, <2>3 DEF Keys
<1>2. CASE Restart
  <2>1. slot' = [m \in Members |-> None]
    BY <1>2 DEF Restart
  <2>2. QED
    BY <1>0, <1>2, <2>1, RestartRun DEF Keys, Driven
<1>3. CASE \E d \in Dispatchers : Launch(d)
  <2>1. PICK d \in Dispatchers : Launch(d)
    BY <1>3
  <2>2. CASE run' = run /\ slot' = slot
    BY <2>2 DEF Keys, Driven
  <2>3. CASE ~(run' = run /\ slot' = slot)
    <3>1. PICK r \in Runs, n \in RunRows :
            /\ run[r] = NoRun /\ run' = [run EXCEPT ![r] = n]
            /\ n.pc = "launched" /\ ~n.reaped
            /\ slot[n.member] = None /\ slot' = [slot EXCEPT ![n.member] = r]
            /\ n.member = wake[disp[d].row].member
      <4>1. \E r \in Runs, n \in RunRows :
              /\ run[r] = NoRun /\ run' = [run EXCEPT ![r] = n]
              /\ n.status = "none" /\ n.pc = "launched" /\ ~n.reaped
              /\ n.wakeup = disp[d].row
              /\ n.member = wake[disp[d].row].member /\ n.task = wake[disp[d].row].task
              /\ slot[n.member] = None /\ slot' = [slot EXCEPT ![n.member] = r]
              /\ active' = active \cup {n.task}
        BY <2>1, <2>3, LaunchRun, Zenon
      <4>2. QED
        BY <4>1, ZenonT(60)
    <3>2. n.member \in Members
      BY <2>1, <3>1, ZenonT(60) DEF TypeInv, DispKnown, RowsKnown, Whole, InHand, Launch
    <3>3. ~Driven(run[r]) /\ Driven(n)
      <4>1. NoRun.pc = "none"
        BY DEF NoRun
      <4>2. QED
        BY <3>1, <4>1 DEF Driven
    <3>4. \A q \in Runs : run'[q] = IF q = r THEN n ELSE run[q]
      BY <1>0, <3>1
    <3>5. \A m \in Members : slot'[m] = IF m = n.member THEN r ELSE slot[m]
      BY <1>0, <3>1
    <3>6. QED
      BY <1>0, <3>1, <3>2, <3>3, <3>4, <3>5 DEF Keys
  <2>4. QED
    BY <2>2, <2>3
<1>4. CASE \E r \in Runs : Release(r)
  <2>1. PICK r \in Runs : Release(r)
    BY <1>4
  <2>2. /\ run'[r].pc = "none" /\ run'[r].member = run[r].member
        /\ \A q \in Runs : q # r => run'[q] = run[q]
    BY <1>0, <2>1, ReleaseRun DEF RunMoved
  <2>3. \A m \in Members : slot'[m] = IF slot[m] = r /\ m = run[r].member THEN None ELSE slot[m]
    BY <1>0, <2>1 DEF Release
  <2>4. ~Driven(run'[r])
    BY <2>2 DEF Driven
  <2>5. ASSUME NEW q \in Runs, Driven(run'[q])
        PROVE  slot'[run'[q].member] = q
    <3>1. q # r /\ run'[q] = run[q] /\ run[q].member \in Members
      BY <1>0, <2>2, <2>4, <2>5
    <3>2. slot[run[q].member] = q
      BY <2>5, <3>1 DEF Keys
    <3>3. QED
      BY <2>3, <3>1, <3>2
  <2>6. ASSUME NEW m \in Members, slot'[m] # None
        PROVE  run'[slot'[m]].member = m /\ Driven(run'[slot'[m]])
    <3>1. slot'[m] = slot[m] /\ slot[m] \in Runs /\ (slot[m] = r => m # run[r].member)
      BY <1>0, <2>3, <2>6
    <3>2. run[slot[m]].member = m /\ Driven(run[slot[m]])
      BY <2>6, <3>1 DEF Keys
    <3>3. QED
      BY <2>2, <3>1, <3>2
  <2>7. QED
    BY <2>5, <2>6 DEF Keys
<1>5. CASE \E m \in Members : ReapDispatch(m)
  <2>1. PICK m \in Members : ReapDispatch(m)
    BY <1>5
  <2>2. /\ slot[m] \in Runs /\ run'[slot[m]].reaped /\ run'[slot[m]].member = run[slot[m]].member
        /\ \A q \in Runs : q # slot[m] => run'[q] = run[q]
    BY <1>0, <2>1, ReapRun DEF RunMoved
  <2>3. \A k \in Members : slot'[k] = IF k = m THEN None ELSE slot[k]
    BY <1>0, <2>1 DEF ReapDispatch
  <2>4. ~Driven(run'[slot[m]])
    BY <2>2 DEF Driven
  <2>5. ASSUME NEW q \in Runs, Driven(run'[q])
        PROVE  slot'[run'[q].member] = q
    <3>1. q # slot[m] /\ run'[q] = run[q] /\ run[q].member \in Members
      BY <1>0, <2>2, <2>4, <2>5
    <3>2. slot[run[q].member] = q
      BY <2>5, <3>1 DEF Keys
    <3>3. QED
      BY <2>3, <3>1, <3>2
  <2>6. ASSUME NEW k \in Members, slot'[k] # None
        PROVE  run'[slot'[k]].member = k /\ Driven(run'[slot'[k]])
    <3>1. slot'[k] = slot[k] /\ slot[k] \in Runs /\ k # m
      BY <1>0, <2>3, <2>6
    <3>2. run[slot[k]].member = k /\ Driven(run[slot[k]]) /\ run[slot[m]].member = m
      BY <1>0, <2>2, <2>6, <3>1 DEF Keys
    <3>3. slot[k] # slot[m]
      BY <3>1, <3>2
    <3>4. run'[slot[k]] = run[slot[k]]
      BY <2>2, <3>1, <3>3
    <3>5. QED
      BY <3>1, <3>2, <3>4
  <2>7. QED
    BY <2>5, <2>6 DEF Keys
<1>6. CASE Forget
  <2>1. slot' = slot
    BY <1>6 DEF Forget
  <2>2. \A r \in Runs : Spent(r) => ~Driven(run[r])
    BY DEF Spent, Driven
  <2>3. ~Driven(NoRun)
    BY DEF NoRun, Driven
  <2>4. \A r \in Runs : /\ Driven(run'[r]) <=> Driven(run[r])
                        /\ Driven(run[r]) => run'[r].member = run[r].member
    BY <1>0, <1>6, <2>2, <2>3, ForgetRun DEF Driven
  <2>5. ASSUME NEW r \in Runs, Driven(run'[r])
        PROVE  slot'[run'[r].member] = r
    BY <2>1, <2>4, <2>5 DEF Keys
  <2>6. ASSUME NEW m \in Members, slot'[m] # None
        PROVE  run'[slot'[m]].member = m /\ Driven(run'[slot'[m]])
    <3>1. slot'[m] = slot[m] /\ slot[m] \in Runs
      BY <1>0, <2>1, <2>6
    <3>2. QED
      BY <2>4, <2>6, <3>1 DEF Keys
  <2>7. QED
    BY <2>5, <2>6 DEF Keys
<1>7. QED
  BY <1>1, <1>2, <1>3, <1>4, <1>5, <1>6, SteadyStep, GuardFrame DEF Next

(* Only Proceeds brings a dispatch to its launch.                          *)
LEMMA ToLaunch ==
  ASSUME TypeInv, Next, NEW d \in Dispatchers, disp'[d].pc = "launch"
  PROVE  Proceeds(d) \/ (disp'[d] = disp[d] /\ ~Restart /\ ~Launch(d))
<1>0. disp \in [Dispatchers -> Dispatches] /\ Dispatchers = {"cron", "press"}
  BY DEF TypeInv, TypeOK, Dispatchers
<1>1. ASSUME NEW e \in Dispatchers, NEW x, disp' = [disp EXCEPT ![e] = x], x.pc # "launch"
      PROVE  d # e /\ disp'[d] = disp[d]
  BY <1>0, <1>1
<1>2. ASSUME NEW e \in Dispatchers, NEW B, Onward(e, B)
      PROVE  d # e /\ disp'[d] = disp[d]
  <2> DEFINE x == IF B = {} THEN Idle ELSE [Idle EXCEPT !.pc = "gate", !.batch = B]
  <2>1. x.pc # "launch"
    BY DEF Idle
  <2>2. disp' = [disp EXCEPT ![e] = x]
    BY <1>2 DEF Onward
  <2> HIDE DEF x
  <2>3. QED
    BY <1>1, <2>1, <2>2
<1>3. ASSUME NEW e \in Dispatchers, disp' = [disp EXCEPT ![e].pc = "activate"]
      PROVE  disp'[d] = disp[d]
  <2> DEFINE x == [disp[e] EXCEPT !.pc = "activate"]
  <2>1. disp' = [disp EXCEPT ![e] = x]
    BY <1>0, <1>3
  <2>2. disp[e] \in Dispatches
    BY <1>0
  <2>3. x.pc # "launch"
    BY <2>2 DEF Dispatches
  <2> HIDE DEF x
  <2>4. QED
    BY <1>1, <2>1, <2>3
<1>4. ~Restart /\ ~Launch(d)
  <2>1. Idle.pc # "launch"
    BY DEF Idle
  <2>2. ~Restart
    BY <1>0, <2>1 DEF Restart
  <2>3. QED
    BY <1>2, <2>2 DEF Launch
<1>5. ASSUME NEW e \in Dispatchers, Refuses(e) \/ PutsOff(e) \/ Launch(e)
      PROVE  disp'[d] = disp[d]
  BY <1>2, <1>5 DEF Refuses, PutsOff, Launch
<1>6. ASSUME NEW e \in Dispatchers, Proceeds(e)
      PROVE  Proceeds(d) \/ disp'[d] = disp[d]
  BY <1>0, <1>6 DEF Proceeds
<1>7. ASSUME Cron PROVE disp'[d] = disp[d]
  <2>0. "cron" \in Dispatchers
    BY <1>0
  <2>1. CASE CronScan \/ \E b : CronSkips(b)
    BY <1>2, <2>0, <2>1 DEF CronScan, CronSkips
  <2>2. CASE \E b : CronReads(b)
    <3>1. PICK b : CronReads(b)
      BY <2>2
    <3> DEFINE x == [pc |-> "write", row |-> b.row, strikes |-> b.strikes, source |-> b.source,
                     verdict |-> IF AlreadyServed(b.row, b.source) THEN "coalesce"
                                 ELSE IF ShouldDefer(b.row, b.source) THEN "defer" ELSE "claim",
                     batch |-> disp["cron"].batch \ {b}]
    <3>2. disp' = [disp EXCEPT !["cron"] = x]
      BY <1>0, <3>1 DEF CronReads
    <3>3. x.pc = "write"
      OBVIOUS
    <3> HIDE DEF x
    <3>4. QED
      BY <1>1, <2>0, <3>2, <3>3
  <2>3. CASE CronWrites
    BY <1>2, <1>3, <2>0, <2>3 DEF CronWrites
  <2>4. QED
    BY <1>7, <2>1, <2>2, <2>3 DEF Cron
<1>8. ASSUME PressWrites \/ \E w \in Rows : PressReads(w) PROVE disp'[d] = disp[d]
  <2>0. "press" \in Dispatchers
    BY <1>0
  <2>1. CASE PressWrites
    BY <1>2, <1>3, <2>0, <2>1 DEF PressWrites
  <2>2. CASE \E w \in Rows : PressReads(w)
    <3>1. PICK w \in Rows : PressReads(w)
      BY <2>2
    <3> DEFINE x == [pc |-> "write", row |-> w, strikes |-> wake[w].strikes, source |-> wake[w].source,
                     verdict |-> IF ShouldDefer(w, wake[w].source) THEN "defer" ELSE "claim",
                     batch |-> {}]
    <3>2. disp' = [disp EXCEPT !["press"] = x]
      BY <1>0, <3>1 DEF PressReads
    <3>3. x.pc = "write"
      OBVIOUS
    <3> HIDE DEF x
    <3>4. QED
      BY <1>1, <2>0, <3>2, <3>3
  <2>3. QED
    BY <1>8, <2>1, <2>2
<1>9. CASE disp' = disp
  BY <1>4, <1>9
<1>10. QED
  BY <1>4, <1>5, <1>6, <1>7, <1>8, <1>9, DispFrame DEF Next, Work, Requests, Activation, Forget

(* A run that is launched or unfinished was so before, or was launched now. *)
LEMMA ClaimsBefore ==
  ASSUME TypeInv, Fresh, Next, ~\E d \in Dispatchers : Launch(d), NEW r \in Runs, Claims(run'[r])
  PROVE  Claims(run[r]) /\ run'[r].member = run[r].member /\ run'[r].task = run[r].task
<1>0. TypeOK
  BY DEF TypeInv
<1>1. CASE RunsMoved(run')
  BY <1>1 DEF RunsMoved, RunMoved, Claims
<1>2. CASE Restart
  BY <1>0, <1>2, RestartRun DEF Claims
<1>3. CASE Forget
  <2>1. ~Claims(NoRun)
    BY DEF Claims, NoRun, Unfinished
  <2>2. QED
    BY <1>0, <1>3, <2>1, ForgetRun DEF Claims
<1>4. QED
  BY <1>1, <1>2, <1>3, RunStep DEF Next

(* The same of a run that is driven.                                       *)
LEMMA DrivenBefore ==
  ASSUME TypeInv, Fresh, Next, ~\E d \in Dispatchers : Launch(d), NEW r \in Runs, Driven(run'[r])
  PROVE  Driven(run[r]) /\ run'[r].member = run[r].member /\ run'[r].task = run[r].task
<1>0. TypeOK
  BY DEF TypeInv
<1>1. CASE RunsMoved(run')
  BY <1>1 DEF RunsMoved, RunMoved, Driven
<1>2. CASE Restart
  BY <1>0, <1>2, RestartRun DEF Driven
<1>3. CASE Forget
  <2>1. ~Driven(NoRun)
    BY DEF Driven, NoRun
  <2>2. QED
    BY <1>0, <1>3, <2>1, ForgetRun DEF Driven
<1>4. QED
  BY <1>1, <1>2, <1>3, RunStep DEF Next

(* A launch finds its task and agent free.                                 *)
LEMMA LaunchAlone ==
  ASSUME QueueAssumption, TypeInv, Fresh, Keys, Guards, NEW d \in Dispatchers, Launch(d)
  PROVE  \/ run' = run /\ slot' = slot /\ active' = active
         \/ \E r \in Runs, n \in RunRows :
              /\ run[r] = NoRun /\ run' = [run EXCEPT ![r] = n] /\ run \in [Runs -> RunRows]
              /\ n.pc = "launched" /\ ~n.reaped /\ active' = active \cup {n.task}
              /\ \A q \in Runs : Driven(run[q]) \/ Claims(run[q]) => run[q].task # n.task
<1>0. TypeOK /\ run \in [Runs -> RunRows]
  BY DEF TypeInv, TypeOK
<1>1. disp[d].pc = "launch"
  BY DEF Launch
<1>2. ~Busy(disp[d].row)
  BY <1>1 DEF Guards
<1> DEFINE w == disp[d].row
<1>3. slot[wake[w].member] = None
  BY <1>2 DEF Busy, AgentBusy
<1>4. CASE run' = run /\ slot' = slot /\ (active' = active \/ slot[wake[w].member] # None)
  BY <1>3, <1>4
<1>5. CASE ~(run' = run /\ slot' = slot /\ (active' = active \/ slot[wake[w].member] # None))
  <2>1. PICK r \in Runs, n \in RunRows :
            /\ run[r] = NoRun /\ run' = [run EXCEPT ![r] = n]
            /\ n.pc = "launched" /\ ~n.reaped /\ n.task = wake[w].task
            /\ active' = active \cup {n.task}
    BY <1>1, <1>5, LaunchRun
  <2>2. wake[w].task \notin active /\ \A q \in Runs : run[q].status \in Unfinished => run[q].task # wake[w].task
    BY <1>2 DEF Busy, TaskBusy, ActiveRun
  <2>3. \A q \in Runs : run[q].pc = "launched" => Driven(run[q])
    BY DEF Fresh, Driven
  <2>4. \A q \in Runs : Driven(run[q]) \/ Claims(run[q]) => run[q].task # n.task
    BY <2>1, <2>2, <2>3 DEF Guards, Claims
  <2>5. QED
    BY <1>0, <2>1, <2>4
<1>6. QED
  BY <1>4, <1>5

(* The guards, as long as the two dispatches do not cross.                 *)
LEMMA GuardsStep ==
  ASSUME QueueAssumption, TypeInv, Fresh, Keys, Guards, ~Crossing, Next
  PROVE  Guards'
<1>0. /\ TypeOK /\ RunsKnown /\ DispKnown /\ run \in [Runs -> RunRows] /\ disp \in [Dispatchers -> Dispatches]
      /\ slot \in [Members -> Runs \cup {None}] /\ None \notin Runs
      /\ Dispatchers = {"cron", "press"}
  BY DEF TypeInv, TypeOK, QueueAssumption, Dispatchers
<1>2. CASE \E d \in Dispatchers : Launch(d)
  <2>1. PICK d \in Dispatchers : Launch(d)
    BY <1>2
  <2>2. disp[d].pc = "launch" /\ \A e \in Dispatchers : e # d => disp'[e] = disp[e]
    BY <1>0, <2>1 DEF Launch, Onward
  <2>3. ASSUME NEW e \in Dispatchers PROVE disp'[e].pc # "launch"
    <3>1. CASE e = d
      BY <2>1, <2>2, <3>1, ToLaunch DEF Proceeds
    <3>2. CASE e # d
      BY <1>0, <2>2, <3>2 DEF Crossing
    <3>3. QED
      BY <3>1, <3>2
  <2>4. CASE run' = run /\ slot' = slot /\ active' = active
    BY <2>3, <2>4 DEF Guards
  <2>5. CASE ~(run' = run /\ slot' = slot /\ active' = active)
    <3>1. PICK r \in Runs, n \in RunRows :
              /\ run[r] = NoRun /\ run' = [run EXCEPT ![r] = n]
              /\ n.pc = "launched" /\ ~n.reaped /\ active' = active \cup {n.task}
              /\ \A q \in Runs : Driven(run[q]) \/ Claims(run[q]) => run[q].task # n.task
      BY <2>1, <2>5, LaunchAlone
    <3>2. \A q \in Runs : run'[q] = IF q = r THEN n ELSE run[q]
      BY <1>0, <3>1
    <3>3. ASSUME NEW q \in Runs, Driven(run'[q])
          PROVE  run'[q].task \in active'
      BY <3>1, <3>2, <3>3 DEF Guards
    <3>4. ASSUME NEW p \in Runs, NEW q \in Runs, Driven(run'[p]), Driven(run'[q]), run'[p].task = run'[q].task
          PROVE  p = q
      BY <3>1, <3>2, <3>4 DEF Guards
    <3>5. QED
      BY <2>3, <3>3, <3>4 DEF Guards
  <2>6. QED
    BY <2>4, <2>5
<1>3. CASE ~\E d \in Dispatchers : Launch(d)
  <2>1. ASSUME NEW p \in Runs, NEW q \in Runs, Driven(run'[p]), Driven(run'[q]), run'[p].task = run'[q].task
        PROVE  p = q
    BY <1>3, <2>1, DrivenBefore DEF Guards
  <2>2. ASSUME NEW q \in Runs, Driven(run'[q])
        PROVE  run'[q].task \in active'
    <3>1. Driven(run[q]) /\ run'[q].task = run[q].task /\ run[q].task \in active
      BY <1>3, <2>2, DrivenBefore DEF Guards
    <3>2. CASE Restart
      BY <1>0, <2>2, <3>2, RestartRun DEF Driven
    <3>3. CASE \E r \in Runs : Release(r)
      <4>1. PICK r \in Runs : Release(r)
        BY <3>3
      <4>2. ~Driven(run'[r])
        BY <1>0, <4>1, ReleaseRun DEF Driven
      <4>3. active' = active \/ (Driven(run[r]) /\ active' = active \ {run[r].task})
        BY <4>1 DEF Release, Driven, GuardIsItsOwn
      <4>4. q # r
        BY <2>2, <4>2
      <4>5. Driven(run[r]) => run[q].task # run[r].task
        BY <3>1, <4>4 DEF Guards
      <4>6. QED
        BY <3>1, <4>3, <4>5
    <3>4. CASE \E m \in Members : ReapDispatch(m)
      <4>1. PICK m \in Members : ReapDispatch(m)
        BY <3>4
      <4>2. slot[m] \in Runs /\ ~Driven(run'[slot[m]])
        BY <1>0, <4>1, ReapRun DEF Driven
      <4>3. Driven(run[slot[m]]) /\ active' = active \ {run[slot[m]].task}
        BY <1>0, <4>1, <4>2 DEF Keys, ReapDispatch
      <4>4. q # slot[m]
        BY <2>2, <4>2
      <4>5. run[q].task # run[slot[m]].task
        BY <3>1, <4>2, <4>3, <4>4 DEF Guards
      <4>6. QED
        BY <3>1, <4>3, <4>5
    <3>5. CASE active' = active
      BY <3>1, <3>5
    <3>6. QED
      BY <1>3, <3>2, <3>3, <3>4, <3>5, GuardFrame DEF Next, Forget
  <2>3. ASSUME NEW d \in Dispatchers, disp'[d].pc = "launch"
        PROVE  ~Busy(disp[d].row)'
    <3> DEFINE w == disp[d].row
    <3>1. Proceeds(d) \/ (disp'[d] = disp[d] /\ ~Restart)
      BY <2>3, ToLaunch
    <3>2. CASE Proceeds(d)
      <4>1. ~Busy(w) /\ UNCHANGED <<wake, run, slot, active>> /\ disp' = [disp EXCEPT ![d].pc = "launch"]
        BY <3>2 DEF Proceeds
      <4>2. disp'[d].row = w
        <5>1. disp[d] \in Dispatches
          BY <1>0
        <5>2. [disp[d] EXCEPT !.pc = "launch"].row = disp[d].row
          BY <5>1 DEF Dispatches
        <5>3. QED
          BY <1>0, <4>1, <5>2
      <4>3. QED
        BY <4>1, <4>2 DEF Busy, TaskBusy, AgentBusy, ActiveRun
    <3>3. CASE disp'[d] = disp[d] /\ ~Restart
      <4>1. ~Busy(w) /\ w \in Rows /\ wake[w].status # "none"
        BY <1>0, <2>3, <3>3 DEF Guards, DispKnown, InHand
      <4>2. wake'[w].member = wake[w].member /\ wake'[w].task = wake[w].task
        <5>1. CASE Work
          BY <4>1, <5>1, WakeStep DEF WakeKept, RowKept
        <5>2. CASE Forget
          BY <1>0, <4>1, <5>2 DEF Forget, Gone
        <5>3. QED
          BY <5>1, <5>2 DEF Next
      <4>3. wake[w].member \in Members /\ slot[wake[w].member] = None
        BY <4>1 DEF TypeInv, RowsKnown, Whole, Busy, AgentBusy
      <4>4. active' \subseteq active /\ slot'[wake[w].member] = None
        <5>1. CASE \E r \in Runs : Release(r)
          BY <1>0, <4>3, <5>1 DEF Release, GuardIsItsOwn
        <5>2. CASE \E m \in Members : ReapDispatch(m)
          BY <1>0, <4>3, <5>2 DEF ReapDispatch
        <5>3. CASE slot' = slot /\ active' = active
          BY <4>3, <5>3
        <5>4. QED
          BY <1>3, <3>3, <5>1, <5>2, <5>3, GuardFrame DEF Next, Forget
      <4>5. ASSUME NEW r \in Runs, run'[r].status \in Unfinished
            PROVE  run'[r].task # wake[w].task /\ run'[r].member # wake[w].member
        <5>1. Claims(run[r]) /\ run'[r].member = run[r].member /\ run'[r].task = run[r].task
          BY <1>3, <4>5, ClaimsBefore DEF Claims
        <5>2. CASE run[r].status \in Unfinished
          BY <4>1, <5>1, <5>2 DEF Busy, TaskBusy, AgentBusy, ActiveRun
        <5>3. CASE run[r].pc = "launched"
          <6>1. Driven(run[r])
            BY <5>3 DEF Driven, Fresh
          <6>2. run[r].task \in active /\ slot[run[r].member] = r /\ r # None
            BY <1>0, <6>1 DEF Guards, Keys
          <6>3. QED
            BY <4>1, <4>3, <5>1, <6>2 DEF Busy, TaskBusy
        <5>4. QED
          BY <5>1, <5>2, <5>3 DEF Claims
      <4>6. wake[w].task \notin active'
        BY <4>1, <4>4 DEF Busy, TaskBusy
      <4>7. disp'[d].row = w
        BY <3>3
      <4>8. QED
        BY <4>2, <4>4, <4>5, <4>6, <4>7 DEF Busy, TaskBusy, AgentBusy, ActiveRun
    <3>4. QED
      BY <3>1, <3>2, <3>3
  <2>4. QED
    BY <2>1, <2>2, <2>3 DEF Guards
<1>4. QED
  BY <1>2, <1>3

LEMMA AloneStep ==
  ASSUME QueueAssumption, TypeInv, Fresh, Keys, Guards, Alone, Next
  PROVE  Alone'
<1>1. CASE \E d \in Dispatchers : Launch(d)
  <2>1. CASE run' = run
    BY <2>1 DEF Alone
  <2>2. CASE ~(run' = run)
    <3>1. PICK r \in Runs, n \in RunRows :
              /\ run' = [run EXCEPT ![r] = n] /\ run \in [Runs -> RunRows]
              /\ \A q \in Runs : Driven(run[q]) \/ Claims(run[q]) => run[q].task # n.task
      BY <1>1, <2>2, LaunchAlone
    <3>2. \A q \in Runs : run'[q] = IF q = r THEN n ELSE run[q]
      BY <3>1
    <3>3. QED
      BY <3>1, <3>2 DEF Alone
  <2>3. QED
    BY <2>1, <2>2
<1>2. CASE ~\E d \in Dispatchers : Launch(d)
  <2>1. ASSUME NEW p \in Runs, NEW q \in Runs, Claims(run'[p]), Claims(run'[q]), run'[p].task = run'[q].task
        PROVE  p = q
    BY <1>2, <2>1, ClaimsBefore DEF Alone
  <2>2. QED
    BY <2>1 DEF Alone
<1>3. QED
  BY <1>1, <1>2

LEMMA InvInit ==
  ASSUME QueueAssumption, Init
  PROVE  Orderly
<1>1. TypeInv /\ Fresh
  BY TypesInit
<1>2. ~Driven(NoRun) /\ ~Claims(NoRun) /\ Idle.pc = "idle"
  BY DEF Driven, Claims, NoRun, Unfinished, Idle
<1>3. Keys /\ Alone /\ Guards
  BY <1>2 DEF Init, Keys, Alone, Guards, Dispatchers
<1>4. QED
  BY <1>1, <1>3 DEF Inv, Orderly

LEMMA InvStep ==
  ASSUME QueueAssumption, Inv, [Next]_vars
  PROVE  Inv'
<1>1. CASE Next
  BY <1>1, TypesStep, KeysStep DEF Inv
<1>2. CASE UNCHANGED vars
  <2>1. TypeInv' /\ Fresh'
    BY TypesStep DEF Inv
  <2>2. Keys'
    BY <1>2 DEF Inv, Keys, vars
  <2>3. QED
    BY <2>1, <2>2 DEF Inv
<1>3. QED
  BY <1>1, <1>2

LEMMA OrderlyStep ==
  ASSUME QueueAssumption, Orderly, ~Crossing, [Next]_vars
  PROVE  Orderly'
<1>1. Inv'
  BY InvStep DEF Orderly
<1>2. CASE Next
  BY <1>1, <1>2, GuardsStep, AloneStep DEF Orderly, Inv
<1>3. CASE UNCHANGED vars
  <2>1. Guards' /\ Alone'
    BY <1>3 DEF Orderly, Guards, Alone, Busy, TaskBusy, AgentBusy, ActiveRun, vars
  <2>2. QED
    BY <1>1, <2>1 DEF Orderly
<1>4. QED
  BY <1>2, <1>3

(* OneRunPerAgent holds in every reachable state, with Run now or without: *)
(* the launch key is taken only when free, in the step that launches, and  *)
(* given back by the run that has it.                                      *)
THEOREM AgentAlone == Spec => []OneRunPerAgent
<1>1. Init => Inv
  BY QueueAssumption, InvInit DEF Orderly
<1>2. Inv /\ [Next]_vars => Inv'
  BY QueueAssumption, InvStep
<1>3. Inv => OneRunPerAgent
  BY DEF Inv, Keys, OneRunPerAgent
<1>4. QED
  BY <1>1, <1>2, <1>3, PTL DEF Spec

LEMMA OrderlyKept == Spec /\ []~Crossing => []Orderly
<1>1. Init => Orderly
  BY QueueAssumption, InvInit
<1>2. Orderly /\ ~Crossing /\ [Next]_vars => Orderly'
  BY QueueAssumption, OrderlyStep
<1>3. QED
  BY <1>1, <1>2, PTL DEF Spec

(* A launched run keeps its agent's key and its task's guard, with Run now *)
(* pressed or not, unless the cron and Run now are once both past their    *)
(* busy checks: only then does the undoing of a launch, or the end of a    *)
(* run that shares a task, take the guard from under the run that has it.  *)
THEOREM GuardsKept == Spec /\ []~Crossing => []GuardsHeld
<1>1. Orderly => GuardsHeld
  <2>1. \A r \in Runs : run[r].pc \in {"launched", "parked", "working"} /\ ~run[r].reaped => Driven(run[r])
    BY DEF Driven
  <2>2. QED
    BY <2>1 DEF Orderly, Inv, Keys, Guards, GuardsHeld
<1>2. QED
  BY <1>1, OrderlyKept, PTL

(* No two unfinished runs have one task unless the cron and Run now are    *)
(* once both past their busy checks: dispatch checks the task in memory    *)
(* and in the table, and neither is freed before the row of the run that   *)
(* had it is terminal, whatever fails, is given up, is lost or restarts    *)
(* (isTaskBusy, detectOrphans).                                            *)
THEOREM TaskAlone == Spec /\ []~Crossing => []OneRunPerTask
<1>1. Orderly => OneRunPerTask
  BY DEF Orderly, Alone, Claims, OneRunPerTask, ActiveRun
<1>2. QED
  BY <1>1, OrderlyKept, PTL

=============================================================================
